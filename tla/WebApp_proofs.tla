---------------------------- MODULE WebApp_proofs ----------------------------
(***************************************************************************)
(* The rate limiter, the worker of the web application and the migrations, *)
(* for any clients, limits, calls, updates, processes, files and faults;   *)
(* and with WebReads_proofs what WebSpec keeps, whichever part moves.      *)
(*                                                                         *)
(* RateInv cuts a client's history at the windows: what was let through in *)
(* the window that is open and in the one before it.  WorkerInv follows a  *)
(* call from place to place (PipeInv), and sets what was sent for it and   *)
(* the runs that may yet send against its attempts and stalls (QueueInv).  *)
(* MigrationsInv adds to JournalFollowsTables what each process knows: the *)
(* files before its place are in the journal, and the one whose name it is *)
(* about to write has its tables.                                          *)
(***************************************************************************)
EXTENDS WebReads_proofs, SequenceTheorems

-----------------------------------------------------------------------------
(* The rate limiter.  A window is described by when it opened; f and g are *)
(* a client's requests asked and allowed at each moment, and n is now.     *)
Moments == Rate!Times

RangeSum(g, a, b) == SumFunctionOnSet(g, (a .. b) \cap Moments)

OpenWindowOK(w, f, g, n) ==
  /\ w.resetAt - WindowMs \in 0 .. n
  /\ f[w.resetAt - WindowMs] > 0 /\ g[w.resetAt - WindowMs] > 0
  /\ RangeSum(g, w.resetAt - WindowMs, n) <= w.count
  /\ RangeSum(g, w.resetAt - WindowMs, n) <= MaxRequests
  /\ RangeSum(g, w.resetAt - 2 * WindowMs, w.resetAt - WindowMs - 1) <= MaxRequests
  /\ \A t \in Moments : t > w.resetAt => f[t] = 0 /\ g[t] = 0

NoWindowOK(f, g, n) ==
  /\ RangeSum(g, n - WindowMs, n) <= MaxRequests
  /\ f[n] = 0 /\ g[n] = 0

History(f, g, n) ==
  /\ f \in [Moments -> Nat] /\ g \in [Moments -> Nat] /\ n \in Moments
  /\ \A t \in Moments : t > n => f[t] = 0 /\ g[t] = 0
  /\ \A t \in Moments : RangeSum(g, t, t + WindowMs) <= 2 * MaxRequests

Windows == [count : Nat \ {0}, resetAt : Nat]

RateInv ==
  /\ now \in Moments
  /\ store \in [Keys -> Windows \cup {None}]
  /\ rateAsked \in [Keys -> [Moments -> Nat]] /\ allowed \in [Keys -> [Moments -> Nat]]
  /\ \A k \in Keys :
       /\ History(rateAsked[k], allowed[k], now)
       /\ IF store[k] = None THEN NoWindowOK(rateAsked[k], allowed[k], now)
                             ELSE OpenWindowOK(store[k], rateAsked[k], allowed[k], now)

(* A part of the moments is a finite set.                                  *)
LEMMA MomentsFinite ==
  ASSUME NEW a \in Int, NEW b \in Int
  PROVE  /\ IsFiniteSet((a .. b) \cap Moments)
         /\ (a .. b) \cap Moments \subseteq Moments
<1>1. IsFiniteSet(0 .. MaxTime)
  BY RateAssumption, FS_Interval
<1> QED BY <1>1, FS_Subset DEF Moments, Rate!Times

(* The sums over stretches of time are naturals, grow with the stretch, and*)
(* are at most the sums of two stretches that make it up.                  *)
LEMMA RangeSumType ==
  ASSUME NEW g \in [Moments -> Nat], NEW a \in Int, NEW b \in Int
  PROVE  RangeSum(g, a, b) \in Nat
<1>1. PICK S : S = (a .. b) \cap Moments
  OBVIOUS
<1>2. IsFiniteSet(S) /\ \A x \in S : g[x] \in Nat
  BY <1>1, MomentsFinite
<1>3. SumFunctionOnSet(g, S) \in Nat
  BY <1>2, SumType
<1> QED BY <1>1, <1>3 DEF RangeSum

LEMMA RangeSumGrows ==
  ASSUME NEW g \in [Moments -> Nat], NEW a \in Int, NEW b \in Int, NEW c \in Int, NEW d \in Int,
         a <= b => c <= a /\ b <= d
  PROVE  RangeSum(g, a, b) <= RangeSum(g, c, d)
<1>1. PICK S : S = (c .. d) \cap Moments
  OBVIOUS
<1>2. PICK T : T = (a .. b) \cap Moments
  OBVIOUS
<1>3. T \in SUBSET S
  BY <1>1, <1>2 DEF Moments, Rate!Times
<1>4. IsFiniteSet(S) /\ \A x \in S : g[x] \in Nat
  BY <1>1, MomentsFinite
<1>5. SumFunctionOnSet(g, T) <= SumFunctionOnSet(g, S)
  BY <1>3, <1>4, SumSubset
<1> QED BY <1>1, <1>2, <1>5 DEF RangeSum

LEMMA RangeSumSplits ==
  ASSUME NEW g \in [Moments -> Nat], NEW a \in Int, NEW b \in Int, NEW c \in Int
  PROVE  RangeSum(g, a, c) <= RangeSum(g, a, b - 1) + RangeSum(g, b, c)
<1>1. PICK S : S = (a .. b - 1) \cap Moments
  OBVIOUS
<1>2. PICK T : T = (b .. c) \cap Moments
  OBVIOUS
<1>3. PICK U : U = (a .. c) \cap Moments
  OBVIOUS
<1>4. U \in SUBSET (S \cup T)
  BY <1>1, <1>2, <1>3 DEF Moments, Rate!Times
<1>5. /\ IsFiniteSet(S) /\ IsFiniteSet(T) /\ IsFiniteSet(U)
      /\ \A x \in S \cup T : g[x] \in Nat
  BY <1>1, <1>2, <1>3, MomentsFinite
<1>6. SumFunctionOnSet(g, S \cup T) <= SumFunctionOnSet(g, S) + SumFunctionOnSet(g, T)
  BY <1>5, SumUnion
<1>7. SumFunctionOnSet(g, U) <= SumFunctionOnSet(g, S \cup T)
  <2>1. PICK V : V = S \cup T
    OBVIOUS
  <2>2. IsFiniteSet(V)
    BY <1>5, <2>1, FS_Union
  <2>3. SumFunctionOnSet(g, U) <= SumFunctionOnSet(g, V)
    BY <1>4, <1>5, <2>1, <2>2, SumSubset
  <2> QED BY <2>1, <2>3
<1>8. /\ SumFunctionOnSet(g, S) \in Nat /\ SumFunctionOnSet(g, T) \in Nat
      /\ SumFunctionOnSet(g, U) \in Nat /\ SumFunctionOnSet(g, S \cup T) \in Nat
  <2>1. IsFiniteSet(S \cup T) /\ \A x \in U : g[x] \in Nat
    BY <1>4, <1>5, FS_Union
  <2> QED BY <1>5, <2>1, SumType
<1>9. SumFunctionOnSet(g, U) <= SumFunctionOnSet(g, S) + SumFunctionOnSet(g, T)
  BY <1>6, <1>7, <1>8
<1> QED BY <1>1, <1>2, <1>3, <1>9 DEF RangeSum

(* They depend on the stretch alone, and grow by one when one more request *)
(* is let through in it.                                                   *)
LEMMA RangeSumAgrees ==
  ASSUME NEW g \in [Moments -> Nat], NEW h \in [Moments -> Nat], NEW a \in Int, NEW b \in Int,
         \A t \in (a .. b) \cap Moments : g[t] = h[t]
  PROVE  RangeSum(g, a, b) = RangeSum(h, a, b)
<1>1. PICK S : S = (a .. b) \cap Moments
  OBVIOUS
<1>2. IsFiniteSet(S) /\ \A x \in S : g[x] = h[x]
  BY <1>1, MomentsFinite
<1>3. SumFunctionOnSet(g, S) = SumFunctionOnSet(h, S)
  BY <1>2, SumAgree
<1> QED BY <1>1, <1>3 DEF RangeSum

LEMMA RangeSumCounts ==
  ASSUME NEW g \in [Moments -> Nat], NEW a \in Int, NEW b \in Int, NEW n \in Moments,
         a <= n, n <= b
  PROVE  RangeSum([g EXCEPT ![n] = @ + 1], a, b) = RangeSum(g, a, b) + 1
<1>1. PICK S : S = (a .. b) \cap Moments
  OBVIOUS
<1>2. PICK h : h = [g EXCEPT ![n] = @ + 1]
  OBVIOUS
<1>3. n \in S /\ n \in Int
  BY <1>1 DEF Moments, Rate!Times
<1>4. IsFiniteSet(S) /\ S \subseteq Moments
  BY <1>1, MomentsFinite
<1>6. \A x \in S : g[x] \in Nat
  BY <1>4
<1>7. h[n] = g[n] + 1 /\ \A y \in S \ {n} : h[y] = g[y]
  BY <1>2, <1>4
<1>5. SumFunctionOnSet(h, S) = SumFunctionOnSet(g, S) + 1
  <2>1. PICK e : e = g
    OBVIOUS
  <2>2. \A x \in S : e[x] \in Nat
    BY <1>6, <2>1
  <2>3. h[n] = e[n] + 1 /\ \A y \in S \ {n} : h[y] = e[y]
    BY <1>7, <2>1
  <2>4. SumFunctionOnSet(h, S) = SumFunctionOnSet(e, S) + 1
    <3>1. PICK x : x = n
      OBVIOUS
    <3>2. x \in S /\ h[x] = e[x] + 1 /\ \A y \in S \ {x} : h[y] = e[y]
      BY <1>3, <2>3, <3>1, Zenon
    <3> QED BY <1>4, <2>2, <3>2, SumIncrement
  <2> QED BY <2>1, <2>4
<1> QED BY <1>1, <1>2, <1>5 DEF RangeSum

LEMMA RangeSumEmpty ==
  ASSUME NEW g \in [Moments -> Nat], NEW a \in Int, NEW b \in Int,
         \A t \in (a .. b) \cap Moments : g[t] = 0
  PROVE  RangeSum(g, a, b) = 0
<1>1. PICK S : S = (a .. b) \cap Moments
  OBVIOUS
<1>2. IsFiniteSet(S) /\ \A x \in S : g[x] = 0
  BY <1>1, MomentsFinite
<1>3. SumFunctionOnSet(g, S) = 0
  BY <1>2, SumZero
<1> QED BY <1>1, <1>3 DEF RangeSum

(* What has not happened yet adds nothing.                                 *)
LEMMA RangeSumPast ==
  ASSUME NEW g \in [Moments -> Nat], NEW a \in Int, NEW b \in Int, NEW n \in Int,
         \A t \in Moments : t > n => g[t] = 0
  PROVE  RangeSum(g, a, b) <= RangeSum(g, a, n)
<1>1. RangeSum(g, a, b) <= RangeSum(g, a, (n + 1) - 1) + RangeSum(g, n + 1, b)
  BY RangeSumSplits
<1>2. (n + 1) - 1 = n
  OBVIOUS
<1>3. RangeSum(g, n + 1, b) = 0
  <2>1. \A t \in (n + 1 .. b) \cap Moments : g[t] = 0
    OBVIOUS
  <2> QED BY <2>1, RangeSumEmpty
<1>4. RangeSum(g, a, n) \in Nat /\ RangeSum(g, a, b) \in Nat
  BY RangeSumType
<1> QED BY <1>1, <1>2, <1>3, <1>4

-----------------------------------------------------------------------------
(* Whatever window is open or none, the stretches that reach up to now hold*)
(* no more than twice the limit.                                           *)
LEMMA RecentSums ==
  ASSUME NEW w, NEW f \in [Moments -> Nat], NEW g \in [Moments -> Nat], NEW n \in Moments,
         \A t \in Moments : t > n => g[t] = 0,
         \/ NoWindowOK(f, g, n)
         \/ w \in Windows /\ OpenWindowOK(w, f, g, n),
         NEW t \in Moments, t >= n - WindowMs
  PROVE  RangeSum(g, t, t + WindowMs) <= 2 * MaxRequests
<1>1. /\ n \in Int /\ t \in Int /\ WindowMs \in Nat /\ MaxRequests \in Nat
      /\ t + WindowMs \in Int /\ n - WindowMs \in Int
  BY RateAssumption DEF Moments, Rate!Times
<1>2. RangeSum(g, t, t + WindowMs) <= RangeSum(g, t, n)
  BY <1>1, RangeSumPast
<1>3. RangeSum(g, t, t + WindowMs) \in Nat /\ RangeSum(g, t, n) \in Nat
  BY <1>1, RangeSumType
<1>4. CASE NoWindowOK(f, g, n)
  <2>1. RangeSum(g, t, n) <= RangeSum(g, n - WindowMs, n)
    BY <1>1, RangeSumGrows
  <2>2. RangeSum(g, n - WindowMs, n) \in Nat
    BY <1>1, RangeSumType
  <2> QED BY <1>1, <1>2, <1>3, <1>4, <2>1, <2>2 DEF NoWindowOK
<1>5. CASE w \in Windows /\ OpenWindowOK(w, f, g, n)
  <2> DEFINE o == w.resetAt - WindowMs
  <2>1. o \in 0 .. n /\ o \in Int /\ o - WindowMs \in Int /\ o - 1 \in Int
    BY <1>1, <1>5 DEF OpenWindowOK, Windows
  <2>2. w.resetAt - 2 * WindowMs = o - WindowMs
    BY <1>1, <1>5 DEF Windows
  <2>3. RangeSum(g, o, n) <= MaxRequests /\ RangeSum(g, o - WindowMs, o - 1) <= MaxRequests
    BY <1>5, <2>2 DEF OpenWindowOK
  <2> HIDE DEF o
  <2>4. RangeSum(g, t, n) <= RangeSum(g, t, o - 1) + RangeSum(g, o, n)
    BY <1>1, <2>1, RangeSumSplits
  <2>5. RangeSum(g, t, o - 1) <= RangeSum(g, o - WindowMs, o - 1)
    BY <1>1, <2>1, RangeSumGrows
  <2>6. /\ RangeSum(g, t, o - 1) \in Nat /\ RangeSum(g, o, n) \in Nat
        /\ RangeSum(g, o - WindowMs, o - 1) \in Nat
    BY <1>1, <2>1, RangeSumType
  <2> QED BY <1>1, <1>2, <1>3, <2>3, <2>4, <2>5, <2>6
<1> QED BY <1>4, <1>5

(* One more request, let through or not, leaves a history behind, if the   *)
(* window that counted it is in order.                                     *)
LEMMA RequestLeavesHistory ==
  ASSUME NEW f, NEW g, NEW n, History(f, g, n), NEW w \in Windows,
         NEW g1, g1 = g \/ g1 = [g EXCEPT ![n] = @ + 1],
         NEW f1, f1 = [f EXCEPT ![n] = @ + 1], OpenWindowOK(w, f1, g1, n)
  PROVE  History(f1, g1, n)
<1>1. /\ f \in [Moments -> Nat] /\ g \in [Moments -> Nat] /\ n \in Moments
      /\ \A t \in Moments : t > n => f[t] = 0 /\ g[t] = 0
      /\ n \in Int /\ WindowMs \in Nat
  BY RateAssumption, SMTT(60) DEF History, Moments, Rate!Times
<1>2. f1 \in [Moments -> Nat] /\ g1 \in [Moments -> Nat]
  BY <1>1
<1>3. \A t \in Moments : t # n => f1[t] = f[t] /\ g1[t] = g[t]
  BY <1>1
<1>4. \A t \in Moments : t > n => f1[t] = 0 /\ g1[t] = 0
  BY <1>1, <1>3
<1>5. ASSUME NEW t \in Moments PROVE RangeSum(g1, t, t + WindowMs) <= 2 * MaxRequests
  <2>1. CASE t >= n - WindowMs
    <3>1. \A u \in Moments : u > n => g1[u] = 0
      BY <1>4
    <3> QED BY <1>1, <1>2, <2>1, <3>1, RecentSums
  <2>2. CASE t < n - WindowMs
    <3>1. t \in Int /\ t + WindowMs \in Int /\ t + WindowMs < n
      BY <1>1, <2>2 DEF Moments, Rate!Times
    <3>2. \A u \in (t .. t + WindowMs) \cap Moments : g1[u] = g[u]
      BY <1>1, <1>3, <3>1
    <3>3. RangeSum(g1, t, t + WindowMs) = RangeSum(g, t, t + WindowMs)
      BY <1>1, <1>2, <3>1, <3>2, RangeSumAgrees
    <3> QED BY <3>3 DEF History
  <2>3. t \in Int /\ n - WindowMs \in Int
    BY <1>1 DEF Moments, Rate!Times
  <2> QED BY <2>1, <2>2, <2>3
<1> QED BY <1>1, <1>2, <1>4, <1>5 DEF History

(* A request that opens a window.                                          *)
LEMMA OpenKeeps ==
  ASSUME NEW f, NEW g, NEW n, History(f, g, n), NEW w,
         \/ NoWindowOK(f, g, n)
         \/ w \in Windows /\ OpenWindowOK(w, f, g, n) /\ n > w.resetAt
  PROVE  OpenWindowOK([count |-> 1, resetAt |-> n + WindowMs],
                      [f EXCEPT ![n] = @ + 1], [g EXCEPT ![n] = @ + 1], n)
<1>1. /\ f \in [Moments -> Nat] /\ g \in [Moments -> Nat] /\ n \in Moments
      /\ \A t \in Moments : t > n => f[t] = 0 /\ g[t] = 0
      /\ n \in Nat /\ n - WindowMs \in Int /\ n - 1 \in Int
      /\ WindowMs \in Nat /\ MaxRequests \in Nat \ {0}
  BY RateAssumption, SMTT(60) DEF History, Moments, Rate!Times
<1>2. PICK f1 : f1 = [f EXCEPT ![n] = @ + 1]
  OBVIOUS
<1>3. PICK g1 : g1 = [g EXCEPT ![n] = @ + 1]
  OBVIOUS
<1>4. f1 \in [Moments -> Nat] /\ g1 \in [Moments -> Nat] /\ f1[n] > 0 /\ g1[n] > 0
  BY <1>1, <1>2, <1>3
<1>5. \A t \in Moments : t # n => f1[t] = f[t] /\ g1[t] = g[t]
  BY <1>1, <1>2, <1>3
<1>6. f[n] = 0 /\ g[n] = 0 /\ RangeSum(g, n - WindowMs, n - 1) <= MaxRequests
  <2>1. RangeSum(g, n - WindowMs, n - 1) \in Nat
    BY <1>1, RangeSumType
  <2>2. CASE NoWindowOK(f, g, n)
    <3>1. RangeSum(g, n - WindowMs, n - 1) <= RangeSum(g, n - WindowMs, n)
      BY <1>1, RangeSumGrows
    <3>2. RangeSum(g, n - WindowMs, n) \in Nat
      BY <1>1, RangeSumType
    <3> QED BY <1>1, <2>1, <2>2, <3>1, <3>2 DEF NoWindowOK
  <2>3. CASE w \in Windows /\ OpenWindowOK(w, f, g, n) /\ n > w.resetAt
    <3>1. w.resetAt \in Nat /\ w.resetAt - WindowMs \in Int
      BY <1>1, <2>3 DEF Windows
    <3>2. RangeSum(g, n - WindowMs, n - 1) <= RangeSum(g, w.resetAt - WindowMs, n)
      BY <1>1, <2>3, <3>1, RangeSumGrows
    <3>3. RangeSum(g, w.resetAt - WindowMs, n) \in Nat
      BY <1>1, <3>1, RangeSumType
    <3>4. f[n] = 0 /\ g[n] = 0 /\ RangeSum(g, w.resetAt - WindowMs, n) <= MaxRequests
      BY <1>1, <2>3 DEF OpenWindowOK
    <3> QED BY <1>1, <2>1, <3>2, <3>3, <3>4
  <2> QED BY <2>2, <2>3
<1>7. RangeSum(g1, n, n) = 1
  <2>1. RangeSum(g1, n, n) = RangeSum(g, n, n) + 1
    <3>1. n \in Int /\ n <= n
      BY <1>1
    <3> QED BY <1>1, <1>3, <3>1, RangeSumCounts, ZenonT(60)
  <2>2. RangeSum(g, n, n) = 0
    <3>1. \A t \in (n .. n) \cap Moments : g[t] = 0
      BY <1>1, <1>6
    <3> QED BY <1>1, <3>1, RangeSumEmpty
  <2> QED BY <2>1, <2>2
<1>8. RangeSum(g1, n - WindowMs, n - 1) <= MaxRequests
  <2>1. \A t \in (n - WindowMs .. n - 1) \cap Moments : g1[t] = g[t]
    BY <1>1, <1>5
  <2>2. RangeSum(g1, n - WindowMs, n - 1) = RangeSum(g, n - WindowMs, n - 1)
    BY <1>1, <1>4, <2>1, RangeSumAgrees
  <2> QED BY <1>6, <2>2
<1>9. \A t \in Moments : t > n + WindowMs => f1[t] = 0 /\ g1[t] = 0
  <2> SUFFICES ASSUME NEW t \in Moments, t > n + WindowMs PROVE f1[t] = 0 /\ g1[t] = 0
    OBVIOUS
  <2>1. t \in Int
    BY DEF Moments, Rate!Times
  <2>2. t > n /\ t # n
    BY <1>1, <2>1
  <2> QED BY <1>1, <1>5, <2>2
<1> DEFINE v == [count |-> 1, resetAt |-> n + WindowMs]
<1>10. /\ v.count = 1 /\ v.resetAt = n + WindowMs /\ v.resetAt - WindowMs = n
       /\ v.resetAt - 2 * WindowMs = n - WindowMs
  BY <1>1
<1> HIDE DEF v
<1>11. n \in 0 .. n /\ RangeSum(g1, n, n) <= 1 /\ RangeSum(g1, n, n) <= MaxRequests
  BY <1>1, <1>7
<1>12. OpenWindowOK(v, f1, g1, n)
  BY <1>4, <1>8, <1>9, <1>10, <1>11 DEF OpenWindowOK
<1> QED BY <1>2, <1>3, <1>12 DEF v

(* A request that a window counts, and lets through while it is below the  *)
(* limit.                                                                  *)
LEMMA CountKeeps ==
  ASSUME NEW f, NEW g, NEW n, History(f, g, n),
         NEW w \in Windows, OpenWindowOK(w, f, g, n), ~(n > w.resetAt),
         NEW g1, g1 = IF w.count + 1 > MaxRequests THEN g ELSE [g EXCEPT ![n] = @ + 1]
  PROVE  OpenWindowOK([w EXCEPT !.count = @ + 1], [f EXCEPT ![n] = @ + 1], g1, n)
<1> DEFINE o == w.resetAt - WindowMs
<1>0. /\ f \in [Moments -> Nat] /\ g \in [Moments -> Nat] /\ n \in Moments
      /\ n \in Nat /\ WindowMs \in Nat /\ MaxRequests \in Nat \ {0}
      /\ w.count \in Nat /\ w.resetAt \in Nat /\ MaxTime \in Nat
  <2>1. f \in [Moments -> Nat] /\ g \in [Moments -> Nat] /\ n \in Moments
    BY DEF History
  <2>2. n \in Nat /\ WindowMs \in Nat /\ MaxRequests \in Nat \ {0} /\ MaxTime \in Nat
    BY <2>1, RateAssumption, SMTT(60) DEF Moments, Rate!Times
  <2>3. w.count \in Nat /\ w.resetAt \in Nat
    BY SMTT(60) DEF Windows
  <2> QED BY <2>1, <2>2, <2>3
<1>1. /\ o \in 0 .. n /\ o \in Moments /\ o - WindowMs \in Int /\ o - 1 \in Int /\ o \in Int
      /\ w.resetAt - 2 * WindowMs = o - WindowMs
  <2>1. o \in 0 .. n
    BY DEF OpenWindowOK
  <2>2. o \in Int /\ 0 <= o /\ o <= n
    BY <1>0, <2>1
  <2>3. w.resetAt - 2 * WindowMs = o - WindowMs
    BY <1>0
  <2> HIDE DEF o
  <2>4. o \in Moments
    BY <1>0, <2>2 DEF Moments, Rate!Times
  <2> QED BY <1>0, <2>1, <2>2, <2>3, <2>4
<1>2. PICK f1 : f1 = [f EXCEPT ![n] = @ + 1]
  OBVIOUS
<1>3. PICK v : v = [w EXCEPT !.count = @ + 1]
  OBVIOUS
<1>4. v.count = w.count + 1 /\ v.resetAt = w.resetAt
  BY <1>3 DEF Windows
<1>5. /\ f1 \in [Moments -> Nat] /\ g1 \in [Moments -> Nat]
      /\ \A t \in Moments : t # n => f1[t] = f[t] /\ g1[t] = g[t]
      /\ \A t \in Moments : f1[t] >= f[t] /\ g1[t] >= g[t]
  BY <1>0, <1>1, <1>2
<1>6. f1[o] > 0 /\ g1[o] > 0
  BY <1>0, <1>1, <1>5 DEF OpenWindowOK
<1>7. \A t \in Moments : t > w.resetAt => f1[t] = 0 /\ g1[t] = 0
  <2>1. \A t \in Moments : t > w.resetAt => t # n
    BY <1>0, <1>1 DEF Moments, Rate!Times
  <2> QED BY <1>5, <2>1 DEF OpenWindowOK
<1>8. RangeSum(g, o, n) \in Nat /\ RangeSum(g, o, n) <= w.count /\ RangeSum(g, o, n) <= MaxRequests
  BY <1>0, <1>1, RangeSumType DEF OpenWindowOK
<1>9. RangeSum(g1, o, n) <= w.count + 1 /\ RangeSum(g1, o, n) <= MaxRequests
  <2>1. CASE w.count + 1 > MaxRequests
    BY <1>0, <1>1, <1>8, <2>1
  <2>2. CASE ~(w.count + 1 > MaxRequests)
    <3>1. RangeSum([g EXCEPT ![n] = @ + 1], o, n) = RangeSum(g, o, n) + 1
      <4>1. o <= n /\ n <= n /\ n \in Int
        BY <1>0, <1>1
      <4> QED BY <1>0, <1>1, <4>1, RangeSumCounts, ZenonT(60)
    <3>2. RangeSum(g1, o, n) = RangeSum(g, o, n) + 1
      BY <2>2, <3>1
    <3> QED BY <1>0, <1>1, <1>8, <2>2, <3>2
  <2> QED BY <2>1, <2>2
<1>10. RangeSum(g1, o - WindowMs, o - 1) <= MaxRequests
  <2>1. \A t \in (o - WindowMs .. o - 1) \cap Moments : g1[t] = g[t]
    BY <1>0, <1>1, <1>5
  <2>2. RangeSum(g1, o - WindowMs, o - 1) = RangeSum(g, o - WindowMs, o - 1)
    <3> HIDE DEF o
    <3>1. PICK low \in Int : low = o - WindowMs
      BY <1>1
    <3>2. PICK high \in Int : high = o - 1
      BY <1>1
    <3>3. g \in [Moments -> Nat] /\ g1 \in [Moments -> Nat]
      BY <1>0, <1>5
    <3>4. \A t \in (low .. high) \cap Moments : g1[t] = g[t]
      BY <2>1, <3>1, <3>2
    <3>5. RangeSum(g1, low, high) = RangeSum(g, low, high)
      BY <3>3, <3>4, RangeSumAgrees, ZenonT(60)
    <3> QED BY <3>1, <3>2, <3>5
  <2>3. RangeSum(g, o - WindowMs, o - 1) <= MaxRequests
    BY <1>0, <1>1 DEF OpenWindowOK
  <2> QED BY <2>2, <2>3
<1>11. OpenWindowOK(v, f1, g1, n)
  BY <1>0, <1>1, <1>4, <1>6, <1>7, <1>9, <1>10 DEF OpenWindowOK
<1> QED BY <1>2, <1>3, <1>11

(* A window that is over may be forgotten.                                 *)
LEMMA ForgetKeeps ==
  ASSUME NEW f, NEW g, NEW n, History(f, g, n),
         NEW w \in Windows, OpenWindowOK(w, f, g, n), n > w.resetAt
  PROVE  NoWindowOK(f, g, n)
<1>1. /\ f \in [Moments -> Nat] /\ g \in [Moments -> Nat] /\ n \in Moments
      /\ n \in Int /\ WindowMs \in Nat /\ MaxRequests \in Nat /\ w.resetAt \in Nat
      /\ n - WindowMs \in Int /\ w.resetAt - WindowMs \in Int
  BY RateAssumption, SMTT(60) DEF History, Moments, Rate!Times, Windows
<1>2. RangeSum(g, n - WindowMs, n) <= RangeSum(g, w.resetAt - WindowMs, n)
  BY <1>1, RangeSumGrows
<1>3. RangeSum(g, n - WindowMs, n) \in Nat /\ RangeSum(g, w.resetAt - WindowMs, n) \in Nat
  BY <1>1, RangeSumType
<1>4. RangeSum(g, w.resetAt - WindowMs, n) <= MaxRequests /\ f[n] = 0 /\ g[n] = 0
  BY <1>1 DEF OpenWindowOK
<1> QED BY <1>1, <1>2, <1>3, <1>4 DEF NoWindowOK

(* Time goes on.                                                           *)
LEMMA TickKeeps ==
  ASSUME NEW f, NEW g, NEW n, History(f, g, n), NEW m \in Moments, m = n + 1,
         NEW w, IF w = None THEN NoWindowOK(f, g, n) ELSE w \in Windows /\ OpenWindowOK(w, f, g, n)
  PROVE  /\ History(f, g, m)
         /\ IF w = None THEN NoWindowOK(f, g, m) ELSE OpenWindowOK(w, f, g, m)
<1>1. /\ f \in [Moments -> Nat] /\ g \in [Moments -> Nat] /\ n \in Moments
      /\ \A t \in Moments : t > n => f[t] = 0 /\ g[t] = 0
      /\ n \in Nat /\ WindowMs \in Nat /\ MaxRequests \in Nat
      /\ n - WindowMs \in Int /\ m - WindowMs \in Int /\ m \in Int /\ n \in Int /\ m = n + 1
  BY RateAssumption, SMTT(60) DEF History, Moments, Rate!Times
<1>2. m > n /\ \A t \in Moments : t > m => t > n
  BY <1>1 DEF Moments, Rate!Times
<1>3. History(f, g, m)
  BY <1>1, <1>2 DEF History
<1>4. \A t \in Moments : t > n => g[t] = 0
  BY <1>1
<1>5. CASE w = None
  <2>1. RangeSum(g, m - WindowMs, m) <= RangeSum(g, m - WindowMs, n)
    BY <1>1, <1>4, RangeSumPast
  <2>2. RangeSum(g, m - WindowMs, n) <= RangeSum(g, n - WindowMs, n)
    BY <1>1, RangeSumGrows
  <2>3. /\ RangeSum(g, m - WindowMs, m) \in Nat /\ RangeSum(g, m - WindowMs, n) \in Nat
        /\ RangeSum(g, n - WindowMs, n) \in Nat
    BY <1>1, RangeSumType
  <2>4. RangeSum(g, n - WindowMs, n) <= MaxRequests
    BY <1>5 DEF NoWindowOK
  <2>5. RangeSum(g, m - WindowMs, m) <= MaxRequests
    BY <1>1, <2>1, <2>2, <2>3, <2>4
  <2>6. f[m] = 0 /\ g[m] = 0
    BY <1>1, <1>2
  <2>7. NoWindowOK(f, g, m)
    BY <2>5, <2>6 DEF NoWindowOK
  <2> QED BY <1>3, <1>5, <2>7
<1>6. CASE w # None
  <2> DEFINE o == w.resetAt - WindowMs
  <2>1. w \in Windows /\ OpenWindowOK(w, f, g, n) /\ o \in 0 .. n /\ o \in Int /\ w.count \in Nat
    BY <1>1, <1>6 DEF OpenWindowOK, Windows
  <2>2. RangeSum(g, o, m) <= RangeSum(g, o, n)
    BY <1>1, <1>4, <2>1, RangeSumPast
  <2>3. RangeSum(g, o, m) \in Nat /\ RangeSum(g, o, n) \in Nat
    BY <1>1, <2>1, RangeSumType
  <2>4. RangeSum(g, o, n) <= w.count /\ RangeSum(g, o, n) <= MaxRequests
    BY <2>1 DEF OpenWindowOK
  <2>5. RangeSum(g, o, m) <= w.count /\ RangeSum(g, o, m) <= MaxRequests
    BY <1>1, <2>1, <2>2, <2>3, <2>4
  <2>6. o \in 0 .. m
    BY <1>1, <2>1
  <2>7. OpenWindowOK(w, f, g, m)
    BY <2>1, <2>5, <2>6 DEF OpenWindowOK
  <2> QED BY <1>3, <1>6, <2>7
<1> QED BY <1>5, <1>6

-----------------------------------------------------------------------------
(* At the start no window is open and nothing has been asked.              *)
LEMMA RateInitially == Rate!Init => RateInv
<1> SUFFICES ASSUME Rate!Init PROVE RateInv
  OBVIOUS
<1>1. /\ now = 0 /\ store = [k \in Keys |-> None]
      /\ rateAsked = [k \in Keys |-> [t \in Moments |-> 0]]
      /\ allowed = [k \in Keys |-> [t \in Moments |-> 0]]
      /\ 0 \in Moments /\ MaxRequests \in Nat /\ WindowMs \in Nat
  BY RateAssumption DEF Rate!Init, Moments, Rate!Times
<1>2. PICK z : z = [t \in Moments |-> 0]
  OBVIOUS
<1>3. z \in [Moments -> Nat] /\ \A t \in Moments : z[t] = 0
  BY <1>2
<1>4. ASSUME NEW a \in Int, NEW b \in Int PROVE RangeSum(z, a, b) = 0
  BY <1>3, RangeSumEmpty
<1>5. History(z, z, 0)
  <2>1. \A t \in Moments : RangeSum(z, t, t + WindowMs) <= 2 * MaxRequests
    <3> SUFFICES ASSUME NEW t \in Moments PROVE RangeSum(z, t, t + WindowMs) <= 2 * MaxRequests
      OBVIOUS
    <3>1. t \in Int /\ t + WindowMs \in Int
      BY <1>1 DEF Moments, Rate!Times
    <3>2. RangeSum(z, t, t + WindowMs) = 0
      BY <1>4, <3>1
    <3> QED BY <1>1, <3>2
  <2> QED BY <1>1, <1>3, <2>1 DEF History
<1>6. NoWindowOK(z, z, 0)
  <2>1. 0 - WindowMs \in Int
    BY <1>1
  <2>2. RangeSum(z, 0 - WindowMs, 0) = 0
    BY <1>4, <2>1
  <2> QED BY <1>1, <1>3, <2>2 DEF NoWindowOK
<1>7. \A k \in Keys : store[k] = None /\ rateAsked[k] = z /\ allowed[k] = z
  BY <1>1, <1>2
<1>8. /\ store \in [Keys -> Windows \cup {None}]
      /\ rateAsked \in [Keys -> [Moments -> Nat]] /\ allowed \in [Keys -> [Moments -> Nat]]
  BY <1>1
<1> QED BY <1>1, <1>5, <1>6, <1>7, <1>8, Zenon DEF RateInv

(* The part of the invariant about one client, as a constant-level fact.   *)
ClientOK(w, f, g, n) ==
  /\ History(f, g, n)
  /\ IF w = None THEN NoWindowOK(f, g, n) ELSE w \in Windows /\ OpenWindowOK(w, f, g, n)

LEMMA ClientsOK ==
  ASSUME RateInv
  PROVE  \A k \in Keys : ClientOK(store[k], rateAsked[k], allowed[k], now)
<1> SUFFICES ASSUME NEW k \in Keys PROVE ClientOK(store[k], rateAsked[k], allowed[k], now)
  OBVIOUS
<1>1. store[k] # None => store[k] \in Windows
  BY DEF RateInv
<1> QED BY <1>1 DEF RateInv, ClientOK

LEMMA WindowIsNotNone == \A w \in Windows : w # None
  BY RateAssumption DEF Windows

(* One client's request.                                                   *)
LEMMA RequestCounted ==
  ASSUME RateInv, NEW k \in Keys, Rate!Request(k)
  PROVE  /\ store'[k] \in Windows
         /\ rateAsked'[k] = [rateAsked[k] EXCEPT ![now] = @ + 1]
         /\ allowed'[k] \in [Moments -> Nat]
         /\ ClientOK(store'[k], rateAsked'[k], allowed'[k], now)
<1>1. PICK f : f = rateAsked[k]
  OBVIOUS
<1>2. PICK g : g = allowed[k]
  OBVIOUS
<1>3. PICK w : w = store[k]
  OBVIOUS
<1>4. PICK n : n = now
  OBVIOUS
<1>5. ClientOK(w, f, g, n) /\ n \in Moments /\ f \in [Moments -> Nat] /\ g \in [Moments -> Nat]
      /\ n \in Nat
  BY ClientsOK, <1>1, <1>2, <1>3, <1>4 DEF RateInv, Moments, Rate!Times
<1>6. PICK f1 : f1 = [f EXCEPT ![n] = @ + 1]
  OBVIOUS
<1>7. rateAsked'[k] = f1
  BY <1>1, <1>4, <1>6 DEF RateInv, Rate!Request
<1>8. ASSUME Rate!OpenWindow(k)
      PROVE  \E v, g1 : /\ v \in Windows /\ store'[k] = v /\ allowed'[k] = g1
                        /\ g1 = [g EXCEPT ![n] = @ + 1]
                        /\ OpenWindowOK(v, f1, g1, n)
  <2>1. PICK v : v = [count |-> 1, resetAt |-> n + WindowMs]
    OBVIOUS
  <2>2. v \in Windows
    BY <1>5, <2>1, RateAssumption DEF Windows
  <2>3. PICK g1 : g1 = [g EXCEPT ![n] = @ + 1]
    OBVIOUS
  <2>4. store'[k] = v /\ allowed'[k] = g1
    BY <1>2, <1>4, <1>8, <2>1, <2>3 DEF RateInv, Rate!OpenWindow
  <2>5. w = None \/ n > w.resetAt
    BY <1>3, <1>4, <1>8 DEF Rate!OpenWindow, Rate!Over
  <2>6. OpenWindowOK(v, f1, g1, n)
    BY <1>5, <1>6, <2>1, <2>3, <2>5, OpenKeeps DEF ClientOK
  <2> QED BY <2>2, <2>3, <2>4, <2>6
<1>9. ASSUME Rate!CountInWindow(k)
      PROVE  \E v, g1 : /\ v \in Windows /\ store'[k] = v /\ allowed'[k] = g1
                        /\ g1 = g \/ g1 = [g EXCEPT ![n] = @ + 1]
                        /\ OpenWindowOK(v, f1, g1, n)
  <2>1. w # None /\ ~(n > w.resetAt) /\ w \in Windows /\ OpenWindowOK(w, f, g, n)
    BY <1>3, <1>4, <1>5, <1>9 DEF Rate!CountInWindow, Rate!Over, ClientOK
  <2>2. PICK v : v = [w EXCEPT !.count = @ + 1]
    OBVIOUS
  <2>3. v \in Windows
    BY <2>1, <2>2 DEF Windows
  <2>4. PICK g1 : g1 = IF w.count + 1 > MaxRequests THEN g ELSE [g EXCEPT ![n] = @ + 1]
    OBVIOUS
  <2>5. store'[k] = v
    BY <1>3, <1>9, <2>2 DEF RateInv, Rate!CountInWindow
  <2>6. allowed'[k] = g1
    BY <1>2, <1>3, <1>4, <1>9, <2>4 DEF RateInv, Rate!CountInWindow
  <2>7. OpenWindowOK(v, f1, g1, n)
    BY <1>5, <1>6, <2>1, <2>2, <2>4, CountKeeps DEF ClientOK
  <2>8. g1 = g \/ g1 = [g EXCEPT ![n] = @ + 1]
    BY <2>4
  <2> QED BY <2>3, <2>5, <2>6, <2>7, <2>8
<1>10. PICK v, g1 : /\ v \in Windows /\ store'[k] = v /\ allowed'[k] = g1
                    /\ g1 = g \/ g1 = [g EXCEPT ![n] = @ + 1]
                    /\ OpenWindowOK(v, f1, g1, n)
  BY <1>8, <1>9 DEF Rate!Request
<1>11. History(f1, g1, n)
  BY <1>5, <1>6, <1>10, RequestLeavesHistory DEF ClientOK
<1>12. ClientOK(v, f1, g1, n)
  BY <1>10, <1>11, WindowIsNotNone DEF ClientOK
<1>13. g1 \in [Moments -> Nat]
  BY <1>11 DEF History
<1> QED BY <1>1, <1>4, <1>6, <1>7, <1>10, <1>12, <1>13

(* If every client is in order afterwards, so is the limiter.              *)
LEMMA ClientsSuffice ==
  ASSUME now' \in Moments, store' \in [Keys -> Windows \cup {None}],
         rateAsked' \in [Keys -> [Moments -> Nat]], allowed' \in [Keys -> [Moments -> Nat]],
         \A k \in Keys : ClientOK(store'[k], rateAsked'[k], allowed'[k], now')
  PROVE  RateInv'
  BY DEF RateInv, ClientOK

LEMMA RateKeeps == RateInv /\ [Rate!Next]_rateVars => RateInv'
<1> SUFFICES ASSUME RateInv, [Rate!Next]_rateVars PROVE RateInv'
  OBVIOUS
<1>0. \A k \in Keys : ClientOK(store[k], rateAsked[k], allowed[k], now)
  BY ClientsOK
<1>1. ASSUME NEW k \in Keys, Rate!Request(k) PROVE RateInv'
  <2>1. /\ store'[k] \in Windows
        /\ rateAsked'[k] = [rateAsked[k] EXCEPT ![now] = @ + 1]
        /\ allowed'[k] \in [Moments -> Nat]
        /\ ClientOK(store'[k], rateAsked'[k], allowed'[k], now)
    BY <1>1, RequestCounted
  <2>2. now' = now
    BY <1>1 DEF Rate!Request
  <2>3. /\ \A j \in Keys \ {k} : /\ store'[j] = store[j] /\ rateAsked'[j] = rateAsked[j]
                                 /\ allowed'[j] = allowed[j]
        /\ DOMAIN store' = Keys /\ DOMAIN rateAsked' = Keys /\ DOMAIN allowed' = Keys
        /\ store' = [j \in Keys |-> store'[j]] /\ rateAsked' = [j \in Keys |-> rateAsked'[j]]
        /\ allowed' = [j \in Keys |-> allowed'[j]]
    BY <1>1 DEF RateInv, Rate!Request, Rate!OpenWindow, Rate!CountInWindow
  <2>4. /\ now' \in Moments /\ store' \in [Keys -> Windows \cup {None}]
        /\ rateAsked' \in [Keys -> [Moments -> Nat]] /\ allowed' \in [Keys -> [Moments -> Nat]]
    <3>1. rateAsked'[k] \in [Moments -> Nat]
      BY <2>1 DEF RateInv
    <3>2. \A j \in Keys : /\ store'[j] \in Windows \cup {None}
                           /\ rateAsked'[j] \in [Moments -> Nat] /\ allowed'[j] \in [Moments -> Nat]
      BY <2>1, <2>3, <3>1 DEF RateInv
    <3>3. now' \in Moments
      BY <2>2 DEF RateInv
    <3> QED BY <2>3, <3>2, <3>3
  <2>5. \A j \in Keys : ClientOK(store'[j], rateAsked'[j], allowed'[j], now')
    BY <1>0, <2>1, <2>2, <2>3
  <2> QED BY <2>4, <2>5, ClientsSuffice
<1>2. ASSUME Rate!Tick PROVE RateInv'
  <2>1. now' = now + 1 /\ UNCHANGED <<store, rateAsked, allowed>> /\ now' \in Moments
    BY <1>2, RateAssumption DEF Rate!Tick, RateInv, Moments, Rate!Times
  <2>2. ASSUME NEW k \in Keys PROVE ClientOK(store[k], rateAsked[k], allowed[k], now')
    <3>1. PICK f : f = rateAsked[k]
      OBVIOUS
    <3>2. PICK g : g = allowed[k]
      OBVIOUS
    <3>3. PICK w : w = store[k]
      OBVIOUS
    <3>4. PICK n : n = now
      OBVIOUS
    <3>5. PICK m : m = now'
      OBVIOUS
    <3>6. ClientOK(w, f, g, n) /\ m = n + 1 /\ m \in Moments
      BY <1>0, <2>1, <3>1, <3>2, <3>3, <3>4, <3>5
    <3>7. ClientOK(w, f, g, m)
      BY <3>6, TickKeeps DEF ClientOK
    <3> QED BY <3>1, <3>2, <3>3, <3>5, <3>7
  <2>3. \A k \in Keys : ClientOK(store'[k], rateAsked'[k], allowed'[k], now')
    BY <2>1, <2>2
  <2> QED BY <2>1, <2>3, ClientsSuffice DEF RateInv
<1>3. ASSUME Rate!Cleanup PROVE RateInv'
  <2>1. /\ now' = now /\ rateAsked' = rateAsked /\ allowed' = allowed
        /\ store' = [k \in Keys |-> IF Rate!Over(k) THEN None ELSE store[k]]
    BY <1>3 DEF Rate!Cleanup
  <2>2. ASSUME NEW k \in Keys PROVE ClientOK(store'[k], rateAsked[k], allowed[k], now)
    <3>1. CASE ~Rate!Over(k)
      BY <1>0, <2>1, <3>1
    <3>2. CASE Rate!Over(k)
      <4>1. PICK f : f = rateAsked[k]
        OBVIOUS
      <4>2. PICK g : g = allowed[k]
        OBVIOUS
      <4>3. PICK w : w = store[k]
        OBVIOUS
      <4>4. PICK n : n = now
        OBVIOUS
      <4>5. ClientOK(w, f, g, n) /\ w # None /\ n > w.resetAt
        BY <1>0, <3>2, <4>1, <4>2, <4>3, <4>4 DEF Rate!Over
      <4>6. History(f, g, n) /\ NoWindowOK(f, g, n)
        BY <4>5, ForgetKeeps DEF ClientOK
      <4>7. store'[k] = None
        BY <2>1, <3>2
      <4> QED BY <4>1, <4>2, <4>4, <4>6, <4>7 DEF ClientOK
    <3> QED BY <3>1, <3>2
  <2>3. store' \in [Keys -> Windows \cup {None}]
    BY <2>1 DEF RateInv
  <2>4. \A k \in Keys : ClientOK(store'[k], rateAsked'[k], allowed'[k], now')
    BY <2>1, <2>2
  <2> QED BY <2>1, <2>3, <2>4, ClientsSuffice DEF RateInv
<1>4. CASE UNCHANGED rateVars
  <2>1. now' = now /\ store' = store /\ rateAsked' = rateAsked /\ allowed' = allowed
    BY <1>4 DEF rateVars
  <2> QED BY <1>0, <2>1, ClientsSuffice DEF RateInv
<1> QED BY <1>1, <1>2, <1>3, <1>4 DEF Rate!Next

(* What the invariant says of the limit.                                   *)
LEMMA RateTyped == RateInv => Rate!TypeOK
<1> SUFFICES ASSUME RateInv PROVE Rate!TypeOK
  OBVIOUS
<1>1. now \in Rate!Times /\ now \in Nat
  BY DEF RateInv, Moments, Rate!Times
<1>2. ASSUME NEW k \in Keys, store[k] # None
      PROVE  store[k].resetAt \in WindowMs .. now + WindowMs /\ store[k].count > 0
  <2>1. store[k].count \in Nat \ {0} /\ store[k].resetAt \in Nat
    BY <1>2 DEF RateInv, Windows
  <2>2. store[k].resetAt - WindowMs \in 0 .. now
    BY <1>2 DEF RateInv, OpenWindowOK
  <2> QED BY <1>1, <2>1, <2>2, RateAssumption
<1> QED BY <1>1, <1>2 DEF Rate!TypeOK

LEMMA RateBounds == RateInv => AtMostTwiceTheLimit
<1> SUFFICES ASSUME RateInv, NEW k \in Keys
             PROVE  /\ \A t \in Rate!Times : Rate!AllowedIn(k, t .. t + WindowMs) <= 2 * MaxRequests
                    /\ /\ rateAsked[k][now] > 0
                       /\ \A t \in (now - WindowMs - 1 .. now - 1) \cap Rate!Times : rateAsked[k][t] = 0
                       => allowed[k][now] > 0
  BY DEF AtMostTwiceTheLimit, Rate!AtMostTwiceTheLimit
<1>1. ASSUME NEW t \in Rate!Times
      PROVE  Rate!AllowedIn(k, t .. t + WindowMs) <= 2 * MaxRequests
  <2>1. RangeSum(allowed[k], t, t + WindowMs) <= 2 * MaxRequests
    BY DEF RateInv, History, Moments
  <2>2. Rate!AllowedIn(k, t .. t + WindowMs) = RangeSum(allowed[k], t, t + WindowMs)
    BY DEF RangeSum, Moments, Rate!AllowedIn, Rate!SumFunctionOnSet, Rate!FoldFunctionOnSet,
           Rate!MapThenFoldSet, SumFunctionOnSet, FoldFunctionOnSet, MapThenFoldSet
  <2> QED BY <2>1, <2>2
<1>2. ASSUME rateAsked[k][now] > 0,
             \A t \in (now - WindowMs - 1 .. now - 1) \cap Rate!Times : rateAsked[k][t] = 0
      PROVE  allowed[k][now] > 0
  <2>1. PICK f : f = rateAsked[k]
    OBVIOUS
  <2>2. PICK g : g = allowed[k]
    OBVIOUS
  <2>3. PICK w : w = store[k]
    OBVIOUS
  <2>4. PICK n : n = now
    OBVIOUS
  <2>5. /\ ClientOK(w, f, g, n) /\ n \in Moments /\ n \in Nat /\ f[n] > 0
        /\ \A t \in (n - WindowMs - 1 .. n - 1) \cap Moments : f[t] = 0
        /\ WindowMs \in Nat
    BY <1>2, <2>1, <2>2, <2>3, <2>4, ClientsOK, RateAssumption, SMTT(60) DEF RateInv, Moments, Rate!Times
  <2>6. w # None
    BY <2>5 DEF ClientOK, NoWindowOK
  <2>7. w \in Windows /\ OpenWindowOK(w, f, g, n)
    BY <2>5, <2>6 DEF ClientOK
  <2>8. PICK o : o = w.resetAt - WindowMs
    OBVIOUS
  <2>9. o \in 0 .. n /\ f[o] > 0 /\ g[o] > 0 /\ w.resetAt \in Nat
    BY <2>7, <2>8 DEF OpenWindowOK, Windows
  <2>10. ~(n > w.resetAt)
    BY <2>5, <2>7 DEF OpenWindowOK
  <2>11. o = n
    <3> SUFFICES ASSUME o # n PROVE FALSE
      OBVIOUS
    <3>1. o \in n - WindowMs - 1 .. n - 1
      BY <2>5, <2>8, <2>9, <2>10
    <3>2. o \in Moments
      BY <2>5, <2>9, RateAssumption DEF Moments, Rate!Times
    <3> QED BY <2>5, <2>9, <3>1, <3>2
  <2> QED BY <2>2, <2>4, <2>9, <2>11
<1> QED BY <1>1, <1>2

-----------------------------------------------------------------------------
(* The worker's pipeline and the routes that store rows.                   *)
Stations == {"new", "skipped", "ignored", "failed", "done", "load", "snapshot", "check",
             "publish", "enqueue", "submitted"}
JobStates == {"none", "wait", "active", "completed", "failed"}

InCalls(f) == f = [c \in Calls |-> f[c]]

(* How far a call has come, and what it has left behind.                   *)
PlaceOK(c) ==
  LET via   == update[c].via
      place == workerPc[c]
  IN /\ place \in Stations /\ job[c] \in JobStates
     /\ place \in {"load", "enqueue"} => via = "stream"
     /\ place \in {"snapshot", "check", "publish"} => via # "submit"
     /\ place = "submitted" => via = "submit"

StoredOK(c) ==
  LET via   == update[c].via
      place == workerPc[c]
  IN /\ place = "check" /\ via # "check" => c \in snaps
     /\ place = "publish" => via # "check" /\ c \in snaps \cap checks /\ update[c].flagged
     /\ place = "enqueue" => c \in snaps \cap checks \cap announced /\ update[c].flagged
     /\ job[c] # "none" => /\ via = "stream" /\ place = "done"
                           /\ c \in snaps \cap checks \cap announced /\ update[c].flagged
     /\ via = "stream" /\ place = "done" /\ update[c].flagged => job[c] # "none"

CallOK(c) == PlaceOK(c) /\ StoredOK(c)

(* The odds the worker remembers, or has skipped, have been recorded, are  *)
(* being recorded, or are of a market nothing covers.                      *)
Traced(d) ==
  update[d].via = "stream" /\ (d \in checks \/ workerPc[d] \in {"load", "snapshot", "check", "ignored"})

Seen(odds) == \E d \in Calls : Traced(d) /\ update[d].odds = odds

Adapted == {"odds_snapshots", "consistency_checks"} \subseteq adapted

SeenOK ==
  Adapted /\ workerFaults = 0 =>
    /\ \A i \in DOMAIN processed : Seen(processed[i])
    /\ \A c \in Calls : workerPc[c] = "skipped" => Seen(update[c].odds)

OddsOf == {l[c].odds : l \in Loads, c \in Calls}

PipeTypes ==
  /\ update \in Loads /\ workerFaults \in Nat
  /\ InCalls(workerPc) /\ InCalls(job)
  /\ processed \in Seq(OddsOf) /\ Len(processed) <= CacheSize

PipeInv == PipeTypes /\ (\A c \in Calls : CallOK(c)) /\ SeenOK

LEMMA PipeInitially == Worker!Init => PipeInv
<1> SUFFICES ASSUME Worker!Init PROVE PipeInv
  OBVIOUS
<1>1. PipeTypes
  BY WorkerAssumption DEF Worker!Init, PipeTypes, InCalls
<1>2. ASSUME NEW c \in Calls PROVE CallOK(c)
  <2>1. workerPc[c] = "new" /\ job[c] = "none"
    BY DEF Worker!Init
  <2> QED BY <2>1 DEF CallOK, PlaceOK, StoredOK, Stations, JobStates
<1>3. SeenOK
  BY DEF Worker!Init, SeenOK
<1> QED BY <1>1, <1>2, <1>3 DEF PipeInv

(* A step of one call leaves the others as they are.                       *)
OthersRest(c) ==
  /\ update' = update /\ adapted' = adapted
  /\ workerFaults' \in Nat /\ workerFaults' >= workerFaults
  /\ InCalls(workerPc)' /\ InCalls(job)'
  /\ \A d \in Calls \ {c} :
       /\ workerPc'[d] = workerPc[d] /\ job'[d] = job[d]
       /\ (d \in snaps' <=> d \in snaps) /\ (d \in checks' <=> d \in checks)
       /\ (d \in announced' <=> d \in announced)

LEMMA OthersKeep ==
  ASSUME PipeInv, NEW c \in Calls, OthersRest(c), CallOK(c)'
  PROVE  \A d \in Calls : CallOK(d)'
<1> SUFFICES ASSUME NEW d \in Calls, d # c PROVE CallOK(d)'
  OBVIOUS
<1>1. CallOK(d)
  BY DEF PipeInv
<1>2. PlaceOK(d)'
  BY <1>1 DEF CallOK, PlaceOK, OthersRest
<1>3. StoredOK(d)'
  BY <1>1 DEF CallOK, StoredOK, OthersRest
<1> QED BY <1>2, <1>3 DEF CallOK

(* What it traced, it still does, unless something failed.                 *)
StillTraced(c) == Adapted /\ workerFaults' = 0 => (Traced(c) => Traced(c)')

(* A step that hears no update.                                            *)
LEMMA StepKeeps ==
  ASSUME PipeInv, NEW c \in Calls, OthersRest(c), CallOK(c)',
         processed' = processed, workerPc'[c] # "skipped", StillTraced(c)
  PROVE  PipeInv'
<1>1. \A d \in Calls : CallOK(d)'
  BY OthersKeep
<1>2. PipeTypes'
  BY DEF PipeInv, PipeTypes, OthersRest
<1>3. SeenOK'
  <2> SUFFICES ASSUME Adapted', workerFaults' = 0
               PROVE  /\ \A i \in DOMAIN processed : Seen(processed[i])'
                      /\ \A d \in Calls : workerPc'[d] = "skipped" => Seen(update[d].odds)'
    BY DEF SeenOK
  <2>1. Adapted /\ workerFaults = 0
    BY DEF Adapted, OthersRest, PipeInv, PipeTypes
  <2>2. \A d \in Calls : Traced(d) => Traced(d)'
    BY <2>1 DEF Traced, OthersRest, StillTraced
  <2>3. \A odds : Seen(odds) => Seen(odds)'
    BY <2>2 DEF Seen, OthersRest
  <2>4. /\ \A i \in DOMAIN processed : Seen(processed[i])
        /\ \A d \in Calls : workerPc[d] = "skipped" => Seen(update[d].odds)
    BY <2>1 DEF PipeInv, SeenOK
  <2>5. \A d \in Calls : workerPc'[d] = "skipped" => Seen(update[d].odds)
    BY <2>4 DEF OthersRest
  <2> QED BY <2>3, <2>4, <2>5 DEF OthersRest
<1> QED BY <1>1, <1>2, <1>3 DEF PipeInv

-----------------------------------------------------------------------------
(* What is known of one call.                                              *)
LEMMA CallFacts ==
  ASSUME PipeInv, NEW c \in Calls
  PROVE  InCalls(workerPc) /\ InCalls(job) /\ workerFaults \in Nat /\ PlaceOK(c) /\ StoredOK(c)
BY DEF PipeInv, PipeTypes, CallOK

(* One call moves on.                                                      *)
Stays == update' = update /\ adapted' = adapted /\ processed' = processed

LEMMA Goes ==
  ASSUME PipeInv, NEW c \in Calls, NEW l, Worker!Goto(c, l)
  PROVE  InCalls(workerPc)' /\ workerPc'[c] = l /\ \A d \in Calls \ {c} : workerPc'[d] = workerPc[d]
<1>1. InCalls(workerPc) /\ workerPc' = [workerPc EXCEPT ![c] = l]
  BY CallFacts DEF Worker!Goto
<1> QED BY <1>1 DEF InCalls

(* A call that moves on without touching its job.                          *)
LEMMA MoveKeeps ==
  ASSUME PipeInv, NEW c \in Calls, NEW l, Worker!Goto(c, l), Stays, job' = job,
         workerFaults' \in Nat, workerFaults' >= workerFaults,
         snaps' \in {snaps, snaps \cup {c}}, checks' \in {checks, checks \cup {c}},
         announced' \in {announced, announced \cup {c}},
         l # "skipped",
         workerPc'[c] = l => PlaceOK(c)' /\ StoredOK(c)',
         workerPc'[c] = l => StillTraced(c)
  PROVE  PipeInv'
<1>1. InCalls(workerPc)' /\ workerPc'[c] = l /\ \A d \in Calls \ {c} : workerPc'[d] = workerPc[d]
  BY Goes
<1>2. InCalls(job)'
  BY CallFacts DEF InCalls
<1>3. \A d \in Calls \ {c} : /\ (d \in snaps' <=> d \in snaps) /\ (d \in checks' <=> d \in checks)
                             /\ (d \in announced' <=> d \in announced)
  OBVIOUS
<1>4. OthersRest(c)
  BY <1>1, <1>2, <1>3 DEF OthersRest, Stays
<1>5. CallOK(c)' /\ StillTraced(c) /\ workerPc'[c] # "skipped" /\ processed' = processed
  BY <1>1 DEF CallOK, Stays
<1> QED BY <1>4, <1>5, StepKeeps

-----------------------------------------------------------------------------
(* What the pipeline does after the cache, and where the routes come in.   *)
LEMMA LoadKeeps ==
  ASSUME PipeInv, NEW c \in Calls, Worker!LoadCoveringSets(c)
  PROVE  PipeInv'
<1>1. PICK l \in {"snapshot", "ignored"} : Worker!Goto(c, l)
  BY DEF Worker!LoadCoveringSets, Worker!Via
<1>2. /\ workerPc[c] = "load" /\ Stays /\ job' = job
      /\ UNCHANGED <<workerFaults, snaps, checks, announced>>
  BY CallFacts DEF Worker!LoadCoveringSets, Stays, Worker!inputs, Worker!rows, Worker!bull
<1>3. update' = update /\ adapted' = adapted /\ update[c].via = "stream"
  BY <1>2, CallFacts DEF PlaceOK, Stays, Worker!Via, Worker!LoadCoveringSets
<1> SUFFICES ASSUME workerPc'[c] = l
             PROVE  PlaceOK(c)' /\ StoredOK(c)' /\ StillTraced(c)
  BY <1>1, <1>2, CallFacts, MoveKeeps
<1>4. PlaceOK(c)'
  BY <1>1, <1>2, <1>3, CallFacts DEF PlaceOK, Stations
<1>5. StoredOK(c)'
  BY <1>1, <1>2, <1>3, CallFacts DEF StoredOK
<1>6. StillTraced(c)
  BY <1>1, <1>2, <1>3 DEF StillTraced, Traced
<1> QED BY <1>4, <1>5, <1>6

(* The webhook.                                                            *)
LEMMA WebhookKeeps ==
  ASSUME PipeInv, NEW c \in Calls, Worker!Webhook(c)
  PROVE  PipeInv'
<1>1. PICK l \in {"snapshot"} : Worker!Goto(c, l)
  BY DEF Worker!Webhook, Worker!Via
<1>2. /\ workerPc[c] = "new" /\ Stays /\ job' = job
      /\ UNCHANGED <<workerFaults, snaps, checks, announced>>
  BY CallFacts DEF Worker!Webhook, Stays, Worker!inputs, Worker!rows, Worker!bull
<1>3. update' = update /\ adapted' = adapted /\ update[c].via = "webhook"
  BY <1>2, CallFacts DEF PlaceOK, Stays, Worker!Via, Worker!Webhook
<1> SUFFICES ASSUME workerPc'[c] = l
             PROVE  PlaceOK(c)' /\ StoredOK(c)' /\ StillTraced(c)
  BY <1>1, <1>2, CallFacts, MoveKeeps
<1>4. PlaceOK(c)'
  BY <1>1, <1>2, <1>3, CallFacts DEF PlaceOK, Stations
<1>5. StoredOK(c)'
  BY <1>1, <1>2, <1>3, CallFacts DEF StoredOK
<1>6. StillTraced(c)
  BY <1>1, <1>2, <1>3 DEF StillTraced, Traced
<1> QED BY <1>4, <1>5, <1>6

(* POST /api/consistency.                                                  *)
LEMMA ConsistencyKeeps ==
  ASSUME PipeInv, NEW c \in Calls, Worker!ConsistencyRoute(c)
  PROVE  PipeInv'
<1>1. PICK l \in {"check"} : Worker!Goto(c, l)
  BY DEF Worker!ConsistencyRoute, Worker!Via
<1>2. /\ workerPc[c] = "new" /\ Stays /\ job' = job
      /\ UNCHANGED <<workerFaults, snaps, checks, announced>>
  BY CallFacts DEF Worker!ConsistencyRoute, Stays, Worker!inputs, Worker!rows, Worker!bull
<1>3. update' = update /\ adapted' = adapted /\ update[c].via = "check"
  BY <1>2, CallFacts DEF PlaceOK, Stays, Worker!Via, Worker!ConsistencyRoute
<1> SUFFICES ASSUME workerPc'[c] = l
             PROVE  PlaceOK(c)' /\ StoredOK(c)' /\ StillTraced(c)
  BY <1>1, <1>2, CallFacts, MoveKeeps
<1>4. PlaceOK(c)'
  BY <1>1, <1>2, <1>3, CallFacts DEF PlaceOK, Stations
<1>5. StoredOK(c)'
  BY <1>1, <1>2, <1>3, CallFacts DEF StoredOK
<1>6. StillTraced(c)
  BY <1>1, <1>2, <1>3 DEF StillTraced, Traced
<1> QED BY <1>4, <1>5, <1>6

(* The snapshot goes in before the check.                                  *)
LEMMA SnapshotKeeps ==
  ASSUME PipeInv, NEW c \in Calls, Worker!InsertSnapshot(c)
  PROVE  PipeInv'
<1>1. PICK l \in {"check", "done"} : Worker!Goto(c, l) /\ (update[c].via = "stream" => l = "check")
  BY DEF Worker!InsertSnapshot, Worker!Via
<1>2. /\ workerPc[c] = "snapshot" /\ Stays /\ job' = job
      /\ UNCHANGED <<workerFaults, checks, announced>> /\ snaps' = snaps \cup {c}
  BY CallFacts DEF Worker!InsertSnapshot, Stays, Worker!inputs, Worker!rows, Worker!bull
<1>3. update' = update /\ adapted' = adapted /\ update[c].via # "submit"
  BY <1>2, CallFacts DEF PlaceOK, Stays, Worker!Via, Worker!InsertSnapshot
<1> SUFFICES ASSUME workerPc'[c] = l
             PROVE  PlaceOK(c)' /\ StoredOK(c)' /\ StillTraced(c)
  BY <1>1, <1>2, CallFacts, MoveKeeps
<1>4. PlaceOK(c)'
  BY <1>1, <1>2, <1>3, CallFacts DEF PlaceOK, Stations
<1>5. StoredOK(c)'
  BY <1>1, <1>2, <1>3, CallFacts DEF StoredOK
<1>6. StillTraced(c)
  BY <1>1, <1>2, <1>3 DEF StillTraced, Traced
<1> QED BY <1>4, <1>5, <1>6

(* A flagged check is announced, but not the one of a request.             *)
LEMMA CheckKeeps ==
  ASSUME PipeInv, NEW c \in Calls, Worker!InsertCheck(c)
  PROVE  PipeInv'
<1>1. PICK l \in {"publish", "done"} : Worker!Goto(c, l) /\ (l = "publish" <=> update[c].flagged /\ update[c].via # "check")
  BY DEF Worker!InsertCheck, Worker!Via
<1>2. /\ workerPc[c] = "check" /\ Stays /\ job' = job
      /\ UNCHANGED <<workerFaults, snaps, announced>> /\ checks' = checks \cup {c}
  BY CallFacts DEF Worker!InsertCheck, Stays, Worker!inputs, Worker!rows, Worker!bull
<1>3. update' = update /\ adapted' = adapted /\ update[c].via # "submit"
  BY <1>2, CallFacts DEF PlaceOK, Stays, Worker!Via, Worker!InsertCheck
<1> SUFFICES ASSUME workerPc'[c] = l
             PROVE  PlaceOK(c)' /\ StoredOK(c)' /\ StillTraced(c)
  BY <1>1, <1>2, CallFacts, MoveKeeps
<1>4. PlaceOK(c)'
  BY <1>1, <1>2, <1>3, CallFacts DEF PlaceOK, Stations
<1>5. StoredOK(c)'
  BY <1>1, <1>2, <1>3, CallFacts DEF StoredOK
<1>6. StillTraced(c)
  BY <1>1, <1>2, <1>3 DEF StillTraced, Traced
<1> QED BY <1>4, <1>5, <1>6

(* What the stream brought is queued.                                      *)
LEMMA PublishKeeps ==
  ASSUME PipeInv, NEW c \in Calls, Worker!Publish(c)
  PROVE  PipeInv'
<1>1. PICK l \in {"enqueue", "done"} : Worker!Goto(c, l) /\ (l = "enqueue" <=> update[c].via = "stream")
  BY DEF Worker!Publish, Worker!Via
<1>2. /\ workerPc[c] = "publish" /\ Stays /\ job' = job
      /\ UNCHANGED <<workerFaults, snaps, checks>> /\ announced' = announced \cup {c}
  BY CallFacts DEF Worker!Publish, Stays, Worker!inputs, Worker!rows, Worker!bull
<1>3. update' = update /\ adapted' = adapted /\ update[c].via # "submit"
  BY <1>2, CallFacts DEF PlaceOK, Stays, Worker!Via, Worker!Publish
<1> SUFFICES ASSUME workerPc'[c] = l
             PROVE  PlaceOK(c)' /\ StoredOK(c)' /\ StillTraced(c)
  BY <1>1, <1>2, CallFacts, MoveKeeps
<1>4. PlaceOK(c)'
  BY <1>1, <1>2, <1>3, CallFacts DEF PlaceOK, Stations
<1>5. StoredOK(c)'
  BY <1>1, <1>2, <1>3, CallFacts DEF StoredOK
<1>6. StillTraced(c)
  BY <1>1, <1>2, <1>3 DEF StillTraced, Traced
<1> QED BY <1>4, <1>5, <1>6

(* A publication or an addition to the queue that fails.                   *)
LEMMA PublishFailsKeeps ==
  ASSUME PipeInv, NEW c \in Calls, Worker!PublishFails(c)
  PROVE  PipeInv'
<1>1. PICK l \in {"failed"} : Worker!Goto(c, l)
  BY DEF Worker!PublishFails, Worker!Via
<1>2. /\ workerPc[c] = "publish" /\ Stays /\ job' = job
      /\ UNCHANGED <<snaps, checks, announced>> /\ workerFaults' = workerFaults + 1
  BY CallFacts DEF Worker!PublishFails, Stays, Worker!Fault, Worker!inputs, Worker!rows, Worker!bull
<1>3. update' = update /\ adapted' = adapted /\ update[c].via # "submit"
  BY <1>2, CallFacts DEF PlaceOK, Stays, Worker!Via, Worker!PublishFails
<1> SUFFICES ASSUME workerPc'[c] = l
             PROVE  PlaceOK(c)' /\ StoredOK(c)' /\ StillTraced(c)
  BY <1>1, <1>2, CallFacts, MoveKeeps
<1>4. PlaceOK(c)'
  BY <1>1, <1>2, <1>3, CallFacts DEF PlaceOK, Stations
<1>5. StoredOK(c)'
  BY <1>1, <1>2, <1>3, CallFacts DEF StoredOK
<1>6. StillTraced(c)
  BY <1>1, <1>2, <1>3, CallFacts DEF StillTraced, Traced
<1> QED BY <1>4, <1>5, <1>6

(* The queue that refuses.                                                 *)
LEMMA EnqueueFailsKeeps ==
  ASSUME PipeInv, NEW c \in Calls, Worker!EnqueueFails(c)
  PROVE  PipeInv'
<1>1. PICK l \in {"failed"} : Worker!Goto(c, l)
  BY DEF Worker!EnqueueFails, Worker!Via
<1>2. /\ workerPc[c] = "enqueue" /\ Stays /\ job' = job
      /\ UNCHANGED <<snaps, checks, announced>> /\ workerFaults' = workerFaults + 1
  BY CallFacts DEF Worker!EnqueueFails, Stays, Worker!Fault, Worker!inputs, Worker!rows, Worker!bull
<1>3. update' = update /\ adapted' = adapted /\ update[c].via = "stream"
  BY <1>2, CallFacts DEF PlaceOK, Stays, Worker!Via, Worker!EnqueueFails
<1> SUFFICES ASSUME workerPc'[c] = l
             PROVE  PlaceOK(c)' /\ StoredOK(c)' /\ StillTraced(c)
  BY <1>1, <1>2, CallFacts, MoveKeeps
<1>4. PlaceOK(c)'
  BY <1>1, <1>2, <1>3, CallFacts DEF PlaceOK, Stations
<1>5. StoredOK(c)'
  BY <1>1, <1>2, <1>3, CallFacts DEF StoredOK
<1>6. StillTraced(c)
  BY <1>1, <1>2, <1>3, CallFacts DEF StillTraced, Traced
<1> QED BY <1>4, <1>5, <1>6

(* An INSERT that fails; on tables that take it, for a reason of its own.  *)
LEMMA InsertFailsKeeps ==
  ASSUME PipeInv, NEW c \in Calls, Worker!InsertFails(c)
  PROVE  PipeInv'
<1>1. PICK l \in {"failed"} : Worker!Goto(c, l)
  BY DEF Worker!InsertFails, Worker!Via
<1>2. /\ workerPc[c] \in {"snapshot", "check"} /\ Stays /\ job' = job
      /\ UNCHANGED <<snaps, checks, announced>>
      /\ workerFaults' = workerFaults \/ workerFaults' = workerFaults + 1
      /\ Adapted => workerFaults' = workerFaults + 1
  BY CallFacts DEF Worker!InsertFails, Stays, Worker!Fault, Worker!Takes, Worker!Inserting, Adapted,
                   Worker!inputs, Worker!rows, Worker!bull
<1>3. update' = update /\ adapted' = adapted /\ update[c].via # "submit"
  BY <1>2, CallFacts DEF PlaceOK, Stays, Worker!Via, Worker!InsertFails
<1> SUFFICES ASSUME workerPc'[c] = l
             PROVE  PlaceOK(c)' /\ StoredOK(c)' /\ StillTraced(c)
  BY <1>1, <1>2, CallFacts, MoveKeeps
<1>4. PlaceOK(c)'
  BY <1>1, <1>2, <1>3, CallFacts DEF PlaceOK, Stations
<1>5. StoredOK(c)'
  BY <1>1, <1>2, <1>3, CallFacts DEF StoredOK
<1>6. StillTraced(c)
  BY <1>1, <1>2, <1>3, CallFacts DEF StillTraced, Traced
<1> QED BY <1>4, <1>5, <1>6

(* worker.ts puts a flagged result in the queue.                           *)
LEMMA EnqueueKeeps ==
  ASSUME PipeInv, NEW c \in Calls, Worker!Enqueue(c)
  PROVE  PipeInv'
<1>1. /\ workerPc[c] = "enqueue" /\ Worker!Goto(c, "done") /\ Stays
      /\ UNCHANGED <<workerFaults, snaps, checks, announced>>
  BY DEF Worker!Enqueue, Stays, Worker!inputs, Worker!rows
<1>2. InCalls(job)' /\ job'[c] = "wait" /\ \A d \in Calls \ {c} : job'[d] = job[d]
  BY CallFacts DEF Worker!Enqueue, InCalls
<1>3. InCalls(workerPc)' /\ workerPc'[c] = "done" /\ \A d \in Calls \ {c} : workerPc'[d] = workerPc[d]
  BY <1>1, Goes
<1>4. OthersRest(c)
  BY <1>1, <1>2, <1>3, CallFacts DEF OthersRest, Stays
<1>5. update' = update /\ adapted' = adapted /\ update[c].via = "stream"
  BY <1>1, CallFacts DEF Stays, PlaceOK
<1>6. PlaceOK(c)'
  BY <1>2, <1>3, <1>5 DEF PlaceOK, Stations, JobStates
<1>7. StoredOK(c)'
  BY <1>1, <1>2, <1>3, <1>5, CallFacts DEF StoredOK
<1>8. StillTraced(c) /\ processed' = processed
  BY <1>1, <1>3, <1>5 DEF StillTraced, Traced, Stays
<1>9. CallOK(c)' /\ workerPc'[c] # "skipped"
  BY <1>3, <1>6, <1>7 DEF CallOK
<1> QED BY <1>4, <1>8, <1>9, StepKeeps

(* The Set of the process drops its oldest when it holds more than its cap.*)
LEMMA Remembers ==
  ASSUME processed \in Seq(OddsOf), Len(processed) <= CacheSize, NEW o \in OddsOf
  PROVE  /\ Worker!Remember(o) \in Seq(OddsOf) /\ Len(Worker!Remember(o)) <= CacheSize
         /\ \A i \in DOMAIN Worker!Remember(o) :
              Worker!Remember(o)[i] = o \/ \E k \in DOMAIN processed : Worker!Remember(o)[i] = processed[k]
<1> DEFINE added == Append(processed, o)
<1>1. /\ added \in Seq(OddsOf) /\ Len(added) = Len(processed) + 1 /\ Len(processed) \in Nat
      /\ \A i \in 1 .. Len(added) : added[i] = o \/ \E k \in DOMAIN processed : added[i] = processed[k]
  OBVIOUS
<1> DEFINE from == (IF Evicted < Len(added) THEN Evicted ELSE Len(added)) + 1
           kept == SubSeq(added, from, Len(added))
<1>4. Worker!Remember(o) = IF Len(added) > CacheSize THEN kept ELSE added
  BY DEF Worker!Remember
<1> HIDE DEF kept, from, added
<1>2. CASE Len(added) <= CacheSize
  <2>1. Worker!Remember(o) = added
    BY <1>1, <1>2, <1>4, WorkerAssumption
  <2>2. DOMAIN added = 1 .. Len(added)
    BY <1>1
  <2> QED BY <1>1, <1>2, <2>1, <2>2
<1>3. CASE ~(Len(added) <= CacheSize)
  <2>1. Len(added) > CacheSize
    BY <1>1, <1>3, WorkerAssumption
  <2>2. Worker!Remember(o) = kept
    BY <2>1, <1>4
  <2>3. from \in Nat /\ from >= 2 /\ from <= Len(added) + 1
    BY <1>1, WorkerAssumption DEF from
  <2>4. /\ kept \in Seq(OddsOf) /\ Len(kept) = Len(added) - from + 1
        /\ \A i \in 1 .. Len(kept) : kept[i] = added[from + i - 1]
    <3>1. Len(added) \in Nat
      BY <1>1
    <3>2. from \in 1 .. Len(added) + 1
      BY <2>3, <3>1
    <3>3. \A i \in from .. Len(added) : added[i] \in OddsOf
      BY <1>1, <2>3
    <3> QED BY <1>1, <3>1, <3>2, <3>3, SubSeqProperties DEF kept
  <2>5. \A i \in 1 .. Len(kept) : from + i - 1 \in 1 .. Len(added)
    BY <1>1, <2>3, <2>4
  <2>6. DOMAIN kept = 1 .. Len(kept) /\ Len(kept) <= CacheSize
    BY <1>1, <2>3, <2>4, WorkerAssumption
  <2> QED BY <1>1, <2>2, <2>4, <2>5, <2>6
<1> QED BY <1>2, <1>3

(* A call that hears an update comes to a place of its own.                *)
LEMMA ReceiveRests ==
  ASSUME PipeInv, NEW c \in Calls, Worker!Receive(c)
  PROVE  /\ OthersRest(c) /\ \A d \in Calls : CallOK(d)'
         /\ UNCHANGED <<update, adapted, workerFaults, checks>>
<1>1. PICK l \in {"ignored", "skipped", "load"} : Worker!Goto(c, l)
  BY DEF Worker!Receive
<1>2. /\ workerPc[c] = "new" /\ update[c].via = "stream"
      /\ UNCHANGED <<update, adapted, workerFaults, snaps, checks, announced, job>>
  BY DEF Worker!Receive, Worker!Via, Worker!inputs, Worker!rows, Worker!bull
<1>3. InCalls(workerPc)' /\ workerPc'[c] = l /\ \A d \in Calls \ {c} : workerPc'[d] = workerPc[d]
  BY <1>1, Goes
<1>4. InCalls(job)'
  BY <1>2, CallFacts DEF InCalls
<1>5. OthersRest(c)
  BY <1>2, <1>3, <1>4, CallFacts DEF OthersRest
<1>6. PlaceOK(c)'
  BY <1>2, <1>3, CallFacts DEF PlaceOK, Stations
<1>7. StoredOK(c)'
  BY <1>2, <1>3, CallFacts DEF StoredOK
<1> QED BY <1>2, <1>5, <1>6, <1>7, OthersKeep DEF CallOK

LEMMA ReceiveKeeps ==
  ASSUME PipeInv, NEW c \in Calls, Worker!Receive(c)
  PROVE  PipeInv'
<1> DEFINE o == update[c].odds
<1>1. /\ OthersRest(c) /\ \A d \in Calls : CallOK(d)'
      /\ UNCHANGED <<update, adapted, workerFaults, checks>>
  BY ReceiveRests
<1>2. workerPc[c] = "new" /\ update[c].via = "stream"
  BY DEF Worker!Receive, Worker!Via
<1>3. o \in OddsOf
  BY DEF PipeInv, PipeTypes, OddsOf
<1>4. /\ \A d \in Calls : Traced(d) => Traced(d)'
      /\ \A odds : Seen(odds) => Seen(odds)'
  <2>1. \A d \in Calls : d # c => workerPc'[d] = workerPc[d]
    BY <1>1 DEF OthersRest
  <2>2. \A d \in Calls : Traced(d) => Traced(d)'
    BY <1>1, <1>2, <2>1 DEF Traced
  <2> QED BY <1>1, <2>2 DEF Seen
<1> HIDE DEF o
<1>5. PICK l : /\ Worker!Goto(c, l)
               /\ \/ l = "ignored" /\ processed' = processed
                  \/ l = "skipped" /\ o \in Worker!Range(processed) /\ processed' = processed
                  \/ l = "load" /\ processed' = Worker!Remember(o)
  BY DEF Worker!Receive, o
<1>6. workerPc'[c] = l /\ \A d \in Calls \ {c} : workerPc'[d] = workerPc[d]
  BY <1>5, Goes
<1>7. /\ processed' \in Seq(OddsOf) /\ Len(processed') <= CacheSize
      /\ \A i \in DOMAIN processed' :
           \/ l = "load" /\ processed'[i] = o
           \/ \E k \in DOMAIN processed : processed'[i] = processed[k]
  <2>1. processed \in Seq(OddsOf) /\ Len(processed) <= CacheSize
    BY DEF PipeInv, PipeTypes
  <2>2. CASE processed' = processed
    BY <2>1, <2>2
  <2>3. CASE l = "load" /\ processed' = Worker!Remember(o)
    <3> HIDE DEF OddsOf
    <3> QED BY <1>3, <2>1, <2>3, Remembers
  <2> QED BY <1>5, <2>2, <2>3
<1>8. PipeTypes'
  BY <1>1, <1>7 DEF PipeInv, PipeTypes, OthersRest, OddsOf
<1>9. SeenOK'
  <2> SUFFICES ASSUME Adapted, workerFaults = 0
               PROVE  /\ \A i \in DOMAIN processed' : Seen(processed[i])'
                      /\ \A d \in Calls : workerPc'[d] = "skipped" => Seen(update[d].odds)'
    BY <1>1 DEF SeenOK, Adapted
  <2>1. /\ \A i \in DOMAIN processed : Seen(processed[i])
        /\ \A d \in Calls : workerPc[d] = "skipped" => Seen(update[d].odds)
    BY DEF PipeInv, SeenOK
  <2>2. l = "load" => Seen(o)'
    <3>1. l = "load" => Traced(c)'
      BY <1>1, <1>2, <1>6 DEF Traced
    <3> QED BY <1>1, <3>1 DEF Seen, o
  <2>3. l = "skipped" => Seen(o)
    BY <1>5, <2>1 DEF Worker!Range
  <2>4. ASSUME NEW d \in Calls, workerPc'[d] = "skipped" PROVE Seen(update[d].odds)'
    <3>1. CASE d = c
      <4>1. l = "skipped"
        BY <1>6, <2>4, <3>1
      <4>2. \E e \in Calls : Traced(e)' /\ update[e].odds = update[c].odds
        BY <1>4, <2>3, <4>1 DEF Seen, o
      <4> QED BY <1>1, <3>1, <4>2 DEF Seen
    <3>2. CASE d # c
      BY <1>1, <1>4, <1>6, <2>1, <2>4, <3>2
    <3> QED BY <3>1, <3>2
  <2>5. ASSUME NEW i \in DOMAIN processed' PROVE Seen(processed[i])'
    <3>1. PICK v : v = processed'[i]
      OBVIOUS
    <3>2. (l = "load" /\ v = o) \/ \E k \in DOMAIN processed : v = processed[k]
      BY <1>7, <2>5, <3>1
    <3>3. Seen(v)'
      BY <1>1, <1>4, <2>1, <2>2, <3>2 DEF o
    <3> QED BY <3>1, <3>3
  <2> QED BY <2>4, <2>5
<1> QED BY <1>1, <1>8, <1>9 DEF PipeInv

(* The worker dies: what it handled is lost.                               *)
LEMMA CrashKeeps ==
  ASSUME PipeInv, Worker!Crash
  PROVE  PipeInv'
<1>1. /\ workerFaults' = workerFaults + 1 /\ processed' = <<>>
      /\ UNCHANGED <<update, adapted, snaps, checks, announced, job>>
  BY DEF Worker!Crash, Worker!Fault, Worker!inputs, Worker!rows
<1>2. /\ InCalls(workerPc)'
      /\ \A c \in Calls :
           workerPc'[c] = IF update[c].via = "stream"
                             /\ workerPc[c] \in {"load", "publish", "enqueue", "snapshot", "check"}
                          THEN "failed" ELSE workerPc[c]
  BY DEF Worker!Crash, Worker!Via, Worker!Handling, Worker!Inserting, InCalls
<1>3. PipeTypes'
  BY <1>1, <1>2, WorkerAssumption DEF PipeInv, PipeTypes, InCalls
<1>4. ASSUME NEW c \in Calls PROVE CallOK(c)'
  <2>1. PlaceOK(c)'
    BY <1>1, <1>2, CallFacts DEF PlaceOK, Stations, JobStates
  <2>2. StoredOK(c)'
    BY <1>1, <1>2, CallFacts DEF StoredOK
  <2> QED BY <2>1, <2>2 DEF CallOK
<1>5. SeenOK'
  BY <1>1 DEF PipeInv, PipeTypes, SeenOK
<1> QED BY <1>3, <1>4, <1>5 DEF PipeInv

LEMMA PipelineKeeps ==
  ASSUME PipeInv, NEW c \in Calls, Worker!Pipeline(c)
  PROVE  PipeInv'
BY ReceiveKeeps, LoadKeeps, WebhookKeeps, ConsistencyKeeps, SnapshotKeeps, CheckKeeps,
   InsertFailsKeeps, PublishKeeps, PublishFailsKeeps, EnqueueKeeps, EnqueueFailsKeeps
   DEF Worker!Pipeline

(* Submissions leave the pipeline alone: jobs stay jobs, and the only calls*)
(* that move are those submitted by hand.                                  *)
LEMMA PipeRests ==
  ASSUME PipeInv, Stays, UNCHANGED <<snaps, checks, announced>>,
         workerFaults' \in Nat, workerFaults' >= workerFaults, InCalls(workerPc)', InCalls(job)',
         \A d \in Calls : job'[d] \in JobStates /\ (job'[d] = "none" <=> job[d] = "none"),
         \A d \in Calls : \/ workerPc'[d] = workerPc[d]
                          \/ update[d].via = "submit" /\ workerPc'[d] \in {"submitted", "done", "failed"}
  PROVE  PipeInv'
<1>1. PipeTypes'
  BY DEF PipeInv, PipeTypes, Stays
<1>2. ASSUME NEW d \in Calls PROVE CallOK(d)'
  <2>1. PlaceOK(d)'
    BY CallFacts DEF PlaceOK, Stays, Stations
  <2>2. StoredOK(d)'
    BY CallFacts DEF StoredOK, Stays
  <2> QED BY <2>1, <2>2 DEF CallOK
<1>3. SeenOK'
  <2> SUFFICES ASSUME Adapted', workerFaults' = 0
               PROVE  /\ \A i \in DOMAIN processed : Seen(processed[i])'
                      /\ \A d \in Calls : workerPc'[d] = "skipped" => Seen(update[d].odds)'
    BY DEF SeenOK, Stays
  <2>1. Adapted /\ workerFaults = 0
    BY DEF Adapted, Stays, PipeInv, PipeTypes
  <2>2. \A d \in Calls : Traced(d) => Traced(d)'
    BY DEF Traced, Stays
  <2>3. \A odds : Seen(odds) => Seen(odds)'
    BY <2>2 DEF Seen, Stays
  <2>4. /\ \A i \in DOMAIN processed : Seen(processed[i])
        /\ \A d \in Calls : workerPc[d] = "skipped" => Seen(update[d].odds)
    BY <2>1 DEF PipeInv, SeenOK
  <2>5. \A d \in Calls : workerPc'[d] = "skipped" => workerPc[d] = "skipped"
    OBVIOUS
  <2> QED BY <2>3, <2>4, <2>5 DEF Stays
<1> QED BY <1>1, <1>2, <1>3 DEF PipeInv

-----------------------------------------------------------------------------
(* The worker's queue and the route that submits by hand.  Every run that  *)
(* may still send for a check is one attempt, one stall or the run that is *)
(* not over: what was sent and what may yet be sent, together, are never   *)
(* more than the attempts, the stalls and that one.                        *)
InRuns(f) == f = [p \in Worker!Runners |-> f[p]]

RunOK(p) ==
  /\ at[p] \in {"idle", "submit", "prove", "finish"} /\ (at[p] = "idle" <=> of[p] = None)
  /\ at[p] # "idle" =>
       /\ of[p] \in Calls
       /\ IF p \in Slots THEN job[of[p]] # "none" ELSE of[p] = p /\ workerPc[p] = "submitted"
  /\ at[p] \in {"prove", "finish"} => tx[p] \in 0 .. sent[of[p]]
  /\ at[p] = "finish" => <<of[p], tx[p]>> \in proofs

Submitting(c) == {p \in Worker!Runners : at[p] = "submit" /\ of[p] = c}

UnderWay(c) ==
  IF job[c] \in {"active", "completed"} \/ (update[c].via = "submit" /\ workerPc[c] # "new")
  THEN 1 ELSE 0

CountOK(c) ==
  /\ attempts[c] \in Nat /\ stalls[c] \in Nat /\ sent[c] \in Nat
  /\ sent[c] + Cardinality(Submitting(c)) <= attempts[c] + stalls[c] + UnderWay(c)
  /\ job[c] = "none" => attempts[c] = 0 /\ stalls[c] = 0
  /\ job[c] # "failed" => attempts[c] < MaxAttempts /\ stalls[c] <= MaxStalledCount
  /\ attempts[c] + stalls[c] <= MaxAttempts + MaxStalledCount

LockOK(c) == lock[c] # None => lock[c] \in Slots /\ of[lock[c]] = c /\ job[c] = "active"

CompletedOK(c) == job[c] = "completed" => \E row \in proofs : row[1] = c

JobOK(c) == CountOK(c) /\ LockOK(c) /\ CompletedOK(c)

ProofsOK == \A row \in proofs : row[1] \in Calls /\ row[2] \in 0 .. sent[row[1]]

QueueTypes ==
  /\ InCalls(attempts) /\ InCalls(stalls) /\ InCalls(lock) /\ InCalls(sent)
  /\ InRuns(at) /\ InRuns(of) /\ InRuns(tx)

QueueInv ==
  /\ QueueTypes /\ ProofsOK
  /\ \A p \in Worker!Runners : RunOK(p)
  /\ \A c \in Calls : JobOK(c)

WorkerInv == PipeInv /\ QueueInv

(* The runners are finitely many.                                          *)
LEMMA RunnersFinite ==
  ASSUME NEW S \in SUBSET Worker!Runners
  PROVE  IsFiniteSet(S) /\ Cardinality(S) \in Nat
BY WorkerAssumption, FS_Union, FS_Subset, FS_CardinalityType DEF Worker!Runners

LEMMA SubmittingCounts ==
  ASSUME NEW c PROVE IsFiniteSet(Submitting(c)) /\ Cardinality(Submitting(c)) \in Nat
<1>1. Submitting(c) \in SUBSET Worker!Runners
  BY DEF Submitting
<1> QED BY <1>1, RunnersFinite

LEMMA WorkerInitially == Worker!Init => WorkerInv
<1> SUFFICES ASSUME Worker!Init PROVE QueueInv
  BY PipeInitially DEF WorkerInv
<1>1. /\ attempts = [c \in Calls |-> 0] /\ stalls = [c \in Calls |-> 0] /\ sent = [c \in Calls |-> 0]
      /\ lock = [c \in Calls |-> None] /\ job = [c \in Calls |-> "none"] /\ proofs = {}
      /\ at = [p \in Worker!Runners |-> "idle"] /\ of = [p \in Worker!Runners |-> None]
      /\ tx = [p \in Worker!Runners |-> None] /\ workerPc = [c \in Calls |-> "new"]
  BY DEF Worker!Init
<1>2. QueueTypes /\ ProofsOK
  BY <1>1 DEF QueueTypes, InCalls, InRuns, ProofsOK
<1>3. \A p \in Worker!Runners : RunOK(p)
  BY <1>1 DEF RunOK
<1>4. ASSUME NEW c \in Calls PROVE JobOK(c)
  <2>1. Submitting(c) = {}
    BY <1>1 DEF Submitting
  <2>2. Cardinality(Submitting(c)) = 0 /\ UnderWay(c) = 0
    BY <1>1, <2>1, FS_EmptySet DEF UnderWay
  <2> QED BY <1>1, <2>2, WorkerAssumption DEF JobOK, CountOK, LockOK, CompletedOK
<1> QED BY <1>2, <1>3, <1>4 DEF QueueInv

(* What is known of one job and of one run.                                *)
LEMMA JobFacts ==
  ASSUME WorkerInv, NEW c \in Calls
  PROVE  /\ InCalls(attempts) /\ InCalls(stalls) /\ InCalls(lock) /\ InCalls(sent)
         /\ InRuns(at) /\ InRuns(of) /\ InRuns(tx) /\ InCalls(workerPc) /\ InCalls(job)
         /\ workerFaults \in Nat /\ PlaceOK(c) /\ StoredOK(c)
         /\ CountOK(c) /\ LockOK(c) /\ CompletedOK(c)
BY CallFacts DEF WorkerInv, QueueInv, QueueTypes, JobOK

LEMMA RunFacts ==
  ASSUME WorkerInv, NEW p \in Worker!Runners, at[p] # "idle"
  PROVE  /\ RunOK(p) /\ of[p] \in Calls /\ of[p] # None
         /\ IF p \in Slots THEN job[of[p]] # "none" ELSE of[p] = p /\ workerPc[p] = "submitted"
<1>1. RunOK(p)
  BY DEF WorkerInv, QueueInv
<1> QED BY <1>1 DEF RunOK

(* The pipeline leaves the queue alone, but for the jobs it adds.          *)
LEMMA QueueRests ==
  ASSUME WorkerInv, UNCHANGED <<update, attempts, stalls, lock, at, of, tx, sent, proofs>>,
         \A d \in Calls : workerPc'[d] = workerPc[d] \/ update[d].via # "submit",
         \A d \in Calls : job'[d] = job[d] \/ (job[d] = "none" /\ job'[d] = "wait")
  PROVE  QueueInv'
<1>1. QueueTypes' /\ ProofsOK'
  BY DEF WorkerInv, QueueInv, QueueTypes, InCalls, InRuns, ProofsOK
<1>2. ASSUME NEW p \in Worker!Runners PROVE RunOK(p)'
  <2>1. RunOK(p)
    BY DEF WorkerInv, QueueInv
  <2>2. \A d \in Calls : workerPc[d] = "submitted" => workerPc'[d] = "submitted"
    BY CallFacts DEF WorkerInv, PlaceOK
  <2> QED BY <2>1, <2>2 DEF RunOK
<1>3. ASSUME NEW c \in Calls PROVE JobOK(c)'
  <2>1. Submitting(c)' = Submitting(c)
    BY DEF Submitting
  <2>2. UnderWay(c)' = UnderWay(c)
    BY DEF UnderWay
  <2>3. CountOK(c)'
    BY <2>1, <2>2, JobFacts DEF CountOK
  <2>4. LockOK(c)' /\ CompletedOK(c)'
    BY JobFacts DEF LockOK, CompletedOK
  <2> QED BY <2>3, <2>4 DEF JobOK
<1> QED BY <1>1, <1>2, <1>3 DEF QueueInv

LEMMA PipelineQueues ==
  ASSUME WorkerInv, NEW c \in Calls, Worker!Pipeline(c)
  PROVE  QueueInv'
<1>1. UNCHANGED <<update, attempts, stalls, lock, at, of, tx, sent, proofs>>
  BY DEF Worker!Pipeline, Worker!Receive, Worker!LoadCoveringSets, Worker!Webhook,
         Worker!ConsistencyRoute, Worker!InsertSnapshot, Worker!InsertCheck, Worker!InsertFails,
         Worker!Publish, Worker!PublishFails, Worker!Enqueue, Worker!EnqueueFails,
         Worker!inputs, Worker!bull, Worker!runs, Worker!chain
<1>2. (\E l : Worker!Goto(c, l)) /\ update[c].via # "submit"
  <2>1. PlaceOK(c)
    BY CallFacts DEF WorkerInv
  <2> QED BY <2>1 DEF PlaceOK, Worker!Pipeline, Worker!Receive, Worker!LoadCoveringSets, Worker!Webhook,
         Worker!ConsistencyRoute, Worker!InsertSnapshot, Worker!InsertCheck, Worker!InsertFails,
         Worker!Publish, Worker!PublishFails, Worker!Enqueue, Worker!EnqueueFails,
         Worker!Via, Worker!Inserting
<1>3. \A d \in Calls : workerPc'[d] = workerPc[d] \/ update[d].via # "submit"
  BY <1>2, Goes DEF WorkerInv
<1>4. job' = job \/ (workerPc[c] = "enqueue" /\ job' = [job EXCEPT ![c] = "wait"])
  BY DEF Worker!Pipeline, Worker!Receive, Worker!LoadCoveringSets, Worker!Webhook,
         Worker!ConsistencyRoute, Worker!InsertSnapshot, Worker!InsertCheck, Worker!InsertFails,
         Worker!Publish, Worker!PublishFails, Worker!Enqueue, Worker!EnqueueFails, Worker!bull
<1>5. workerPc[c] = "enqueue" => job[c] = "none"
  BY JobFacts DEF StoredOK
<1>6. \A d \in Calls : job'[d] = job[d] \/ (job[d] = "none" /\ job'[d] = "wait")
  <2>1. InCalls(job)
    BY JobFacts
  <2> QED BY <1>4, <1>5, <2>1 DEF InCalls
<1> QED BY <1>1, <1>3, <1>6, QueueRests

-----------------------------------------------------------------------------
(* A step of run p for call c, or of the queue for c (p is None).          *)
OneRun(p, c) ==
  /\ update' = update /\ proofs \subseteq proofs' /\ QueueTypes'
  /\ \A q \in Worker!Runners \ {p} : at'[q] = at[q] /\ of'[q] = of[q] /\ tx'[q] = tx[q]
  /\ \A d \in Calls \ {c} :
       /\ job'[d] = job[d] /\ attempts'[d] = attempts[d] /\ stalls'[d] = stalls[d]
       /\ lock'[d] = lock[d] /\ sent'[d] = sent[d] /\ workerPc'[d] = workerPc[d]
  /\ p \in Worker!Runners => of[p] \in {None, c} /\ of'[p] \in {None, c}
  /\ workerPc'[c] = workerPc[c] \/ (p = c /\ p \notin Slots)
  /\ sent'[c] \in Nat /\ sent'[c] >= sent[c]
  /\ job[c] # "none" => job'[c] # "none"

LEMMA OtherRunsKeep ==
  ASSUME WorkerInv, NEW c \in Calls, NEW p \in Worker!Runners \cup {None}, OneRun(p, c),
         p \in Worker!Runners => RunOK(p)', JobOK(c)',
         \A row \in proofs' : row \in proofs \/ (row[1] = c /\ row[2] \in 0 .. sent'[c])
  PROVE  QueueInv'
<1>1. \A d \in Calls : sent[d] \in Nat /\ sent'[d] \in Nat /\ sent'[d] >= sent[d]
  BY JobFacts DEF CountOK, OneRun
<1>2. ASSUME NEW row \in proofs' PROVE row[1] \in Calls /\ row[2] \in 0 .. sent'[row[1]]
  <2>1. CASE row \in proofs
    <3>1. row[1] \in Calls /\ row[2] \in 0 .. sent[row[1]]
      BY <2>1 DEF WorkerInv, QueueInv, ProofsOK
    <3> QED BY <1>1, <3>1
  <2> QED BY <2>1
<1>3. ASSUME NEW q \in Worker!Runners, q # p PROVE RunOK(q)'
  <2>1. RunOK(q)
    BY DEF WorkerInv, QueueInv
  <2>2. at'[q] = at[q] /\ of'[q] = of[q] /\ tx'[q] = tx[q]
    BY <1>3 DEF OneRun
  <2>3. CASE at[q] = "idle"
    BY <2>1, <2>2, <2>3 DEF RunOK
  <2>4. CASE at[q] # "idle"
    <3>1. PICK d \in Calls : d = of[q]
      BY <2>1, <2>4 DEF RunOK
    <3>2. q \in Slots => job'[d] # "none"
      BY <2>1, <2>4, <3>1 DEF RunOK, OneRun
    <3>3. q \notin Slots => d = q /\ workerPc'[q] = "submitted"
      <4>1. q \notin Slots => d = q /\ workerPc[d] = "submitted"
        BY <2>1, <2>4, <3>1 DEF RunOK
      <4>2. q \notin Slots => workerPc'[d] = workerPc[d]
        BY <1>3, <4>1 DEF OneRun
      <4> QED BY <4>1, <4>2
    <3>4. at[q] \in {"prove", "finish"} => tx[q] \in 0 .. sent'[d]
      <4>1. at[q] \in {"prove", "finish"} => tx[q] \in 0 .. sent[d]
        BY <2>1, <3>1 DEF RunOK
      <4>2. sent[d] \in Nat /\ sent'[d] \in Nat /\ sent'[d] >= sent[d]
        BY <1>1
      <4> QED BY <4>1, <4>2
    <3>5. at[q] = "finish" => <<d, tx[q]>> \in proofs'
      BY <2>1, <3>1 DEF RunOK, OneRun
    <3> QED BY <2>1, <2>2, <2>4, <3>1, <3>2, <3>3, <3>4, <3>5 DEF RunOK
  <2> QED BY <2>3, <2>4
<1>4. ASSUME NEW d \in Calls, d # c PROVE JobOK(d)'
  <2>1. d # None
    BY WorkerAssumption
  <2>2. Submitting(d)' = Submitting(d)
    <3>1. \A q \in Worker!Runners : at'[q] = "submit" /\ of'[q] = d <=> at[q] = "submit" /\ of[q] = d
      BY <1>4, <2>1 DEF OneRun
    <3> QED BY <3>1 DEF Submitting
  <2>3. /\ job'[d] = job[d] /\ attempts'[d] = attempts[d] /\ stalls'[d] = stalls[d]
        /\ lock'[d] = lock[d] /\ sent'[d] = sent[d] /\ workerPc'[d] = workerPc[d] /\ update' = update
    BY <1>4 DEF OneRun
  <2>4. UnderWay(d)' = UnderWay(d)
    BY <2>3 DEF UnderWay
  <2>5. CountOK(d)'
    BY <2>2, <2>3, <2>4, JobFacts DEF CountOK
  <2>6. LockOK(d)'
    <3>1. lock[d] # None => lock[d] \in Slots /\ of[lock[d]] = d /\ job[d] = "active"
      BY JobFacts DEF LockOK
    <3>2. lock[d] # None => lock[d] \in Worker!Runners /\ lock[d] # p
      BY <1>4, <2>1, <3>1 DEF OneRun, Worker!Runners
    <3> QED BY <2>3, <3>1, <3>2 DEF LockOK, OneRun
  <2>7. CompletedOK(d)'
    BY <2>3, JobFacts DEF CompletedOK, OneRun
  <2> QED BY <2>5, <2>6, <2>7 DEF JobOK
<1> QED BY <1>2, <1>3, <1>4 DEF QueueInv, ProofsOK, OneRun

(* Who is about to send for the call.                                      *)
LEMMA SubmittingMoves ==
  ASSUME WorkerInv, NEW c \in Calls, NEW p \in Worker!Runners \cup {None}, OneRun(p, c),
         NEW n, n = Cardinality(Submitting(c)), NEW m, m = Cardinality(Submitting(c))'
  PROVE  /\ n \in Nat /\ m \in Nat
         /\ p = None => m = n
         /\ p \in Worker!Runners =>
              /\ at[p] = "submit" /\ of[p] = c /\ at'[p] # "submit" => m = n - 1
              /\ at[p] # "submit" /\ at'[p] = "submit" /\ of'[p] = c => m = n + 1
              /\ at[p] # "submit" /\ at'[p] # "submit" => m = n
<1>1. PICK S : S = Submitting(c)
  OBVIOUS
<1>2. PICK T : T = Submitting(c)'
  OBVIOUS
<1>3. IsFiniteSet(S) /\ n = Cardinality(S) /\ n \in Nat
  BY <1>1, SubmittingCounts
<1>4. IsFiniteSet(T) /\ m = Cardinality(T) /\ m \in Nat
  <2>1. T \in SUBSET Worker!Runners
    BY <1>2 DEF Submitting
  <2> QED BY <1>2, <2>1, RunnersFinite
<1>5. \A q \in Worker!Runners \ {p} : q \in T <=> q \in S
  BY <1>1, <1>2 DEF Submitting, OneRun
<1>6. S \subseteq Worker!Runners /\ T \subseteq Worker!Runners /\ None \notin Worker!Runners
  BY <1>1, <1>2, WorkerAssumption DEF Submitting, Worker!Runners
<1>7. p = None => S = T
  BY <1>5, <1>6
<1>8. ASSUME p \in Worker!Runners, at[p] = "submit", of[p] = c, at'[p] # "submit" PROVE m = n - 1
  <2>1. p \in S /\ T = S \ {p}
    BY <1>1, <1>2, <1>5, <1>6, <1>8 DEF Submitting
  <2> QED BY <1>3, <1>4, <2>1, FS_RemoveElement
<1>9. ASSUME p \in Worker!Runners, at[p] # "submit", at'[p] = "submit", of'[p] = c PROVE m = n + 1
  <2>1. p \notin S /\ T = S \cup {p}
    BY <1>1, <1>2, <1>5, <1>6, <1>9 DEF Submitting
  <2> QED BY <1>3, <1>4, <2>1, FS_AddElement
<1>10. ASSUME p \in Worker!Runners, at[p] # "submit", at'[p] # "submit" PROVE m = n
  <2>1. T = S
    BY <1>1, <1>2, <1>5, <1>6, <1>10 DEF Submitting
  <2> QED BY <1>3, <1>4, <2>1
<1> QED BY <1>3, <1>4, <1>7, <1>8, <1>9, <1>10

(* A slot takes a job up, or a request of the route begins.                *)
LEMMA Begins ==
  ASSUME WorkerInv, NEW p \in Worker!Runners, NEW c \in Calls, Worker!Begin(p, c)
  PROVE  /\ at[p] = "idle" /\ of[p] = None /\ tx' = tx
         /\ InRuns(at)' /\ InRuns(of)' /\ InRuns(tx)' /\ at'[p] = "submit" /\ of'[p] = c
         /\ \A q \in Worker!Runners \ {p} : at'[q] = at[q] /\ of'[q] = of[q]
<1>1. RunOK(p) /\ InRuns(at) /\ InRuns(of) /\ InRuns(tx)
  BY JobFacts DEF WorkerInv, QueueInv
<1> QED BY <1>1 DEF Worker!Begin, InRuns, RunOK

LEMMA TakeKeeps ==
  ASSUME WorkerInv, NEW s \in Slots, NEW c \in Calls, Worker!Take(s, c)
  PROVE  WorkerInv'
<1>1. /\ job[c] = "wait" /\ Worker!Begin(s, c) /\ s \in Worker!Runners
      /\ job' = [job EXCEPT ![c] = "active"] /\ lock' = [lock EXCEPT ![c] = s]
      /\ UNCHANGED <<update, adapted, workerPc, processed, snaps, checks, announced>>
      /\ UNCHANGED <<attempts, stalls, sent, proofs, workerFaults>>
  BY DEF Worker!Take, Worker!inputs, Worker!rows, Worker!chain, Worker!Runners
<1>2. /\ at[s] = "idle" /\ of[s] = None /\ tx' = tx
      /\ InRuns(at)' /\ InRuns(of)' /\ InRuns(tx)' /\ at'[s] = "submit" /\ of'[s] = c
      /\ \A q \in Worker!Runners \ {s} : at'[q] = at[q] /\ of'[q] = of[q]
  BY <1>1, Begins
<1>3. /\ InCalls(job)' /\ job'[c] = "active" /\ \A d \in Calls \ {c} : job'[d] = job[d]
      /\ InCalls(lock)' /\ lock'[c] = s /\ \A d \in Calls \ {c} : lock'[d] = lock[d]
      /\ InCalls(attempts)' /\ InCalls(stalls)' /\ InCalls(sent)' /\ InCalls(workerPc)'
  BY <1>1, JobFacts DEF InCalls
<1>4. OneRun(s, c)
  BY <1>1, <1>2, <1>3, JobFacts DEF OneRun, QueueTypes, CountOK
<1>5. RunOK(s)'
  BY <1>2, <1>3, WorkerAssumption DEF RunOK
<1>6. CountOK(c)'
  <2>1. PICK n : n = Cardinality(Submitting(c))
    OBVIOUS
  <2>2. PICK m : m = Cardinality(Submitting(c))'
    OBVIOUS
  <2>3. n \in Nat /\ m \in Nat /\ m = n + 1
    BY <1>1, <1>2, <1>4, <2>1, <2>2, SubmittingMoves
  <2>4. UnderWay(c) = 0 /\ UnderWay(c)' = 1
    BY <1>1, <1>3, JobFacts DEF UnderWay, StoredOK
  <2>5. CountOK(c)
    BY JobFacts
  <2> QED BY <1>1, <1>3, <2>1, <2>2, <2>3, <2>4, <2>5 DEF CountOK
<1>7. LockOK(c)' /\ CompletedOK(c)'
  BY <1>2, <1>3 DEF LockOK, CompletedOK
<1>8. QueueInv'
  BY <1>1, <1>4, <1>5, <1>6, <1>7, OtherRunsKeep DEF JobOK
<1>9. PipeInv'
  <2>1. \A d \in Calls : job'[d] \in JobStates /\ (job'[d] = "none" <=> job[d] = "none")
    BY <1>1, <1>3, JobFacts DEF PlaceOK, JobStates
  <2> QED BY <1>1, <1>3, <2>1, JobFacts, PipeRests DEF WorkerInv, Stays
<1> QED BY <1>8, <1>9 DEF WorkerInv

LEMMA SubmitRouteKeeps ==
  ASSUME WorkerInv, NEW c \in Calls, Worker!SubmitRoute(c)
  PROVE  WorkerInv'
<1>1. /\ workerPc[c] = "new" /\ update[c].via = "submit" /\ c \in Worker!Runners /\ c \notin Slots
      /\ Worker!Goto(c, "submitted") /\ Worker!Begin(c, c)
      /\ UNCHANGED <<update, adapted, processed, snaps, checks, announced>>
      /\ UNCHANGED <<job, attempts, stalls, lock, sent, proofs, workerFaults>>
  BY WorkerAssumption DEF Worker!SubmitRoute, Worker!Via, Worker!inputs, Worker!rows, Worker!bull,
                          Worker!chain, Worker!Runners
<1>2. /\ at[c] = "idle" /\ of[c] = None /\ tx' = tx
      /\ InRuns(at)' /\ InRuns(of)' /\ InRuns(tx)' /\ at'[c] = "submit" /\ of'[c] = c
      /\ \A q \in Worker!Runners \ {c} : at'[q] = at[q] /\ of'[q] = of[q]
  BY <1>1, Begins
<1>3. /\ InCalls(workerPc)' /\ workerPc'[c] = "submitted"
      /\ \A d \in Calls \ {c} : workerPc'[d] = workerPc[d]
      /\ InCalls(attempts)' /\ InCalls(stalls)' /\ InCalls(sent)' /\ InCalls(lock)' /\ InCalls(job)'
  <2>1. InCalls(workerPc)' /\ workerPc'[c] = "submitted" /\ \A d \in Calls \ {c} : workerPc'[d] = workerPc[d]
    BY <1>1, Goes DEF WorkerInv
  <2> QED BY <1>1, <2>1, JobFacts DEF InCalls
<1>4. job[c] = "none" /\ lock[c] = None
  BY <1>1, JobFacts DEF StoredOK, LockOK
<1>5. OneRun(c, c)
  BY <1>1, <1>2, <1>3, JobFacts DEF OneRun, QueueTypes, CountOK
<1>6. RunOK(c)'
  BY <1>1, <1>2, <1>3, WorkerAssumption DEF RunOK
<1>7. CountOK(c)'
  <2>1. PICK n : n = Cardinality(Submitting(c))
    OBVIOUS
  <2>2. PICK m : m = Cardinality(Submitting(c))'
    OBVIOUS
  <2>3. n \in Nat /\ m \in Nat /\ m = n + 1
    BY <1>1, <1>2, <1>5, <2>1, <2>2, SubmittingMoves
  <2>4. UnderWay(c) = 0 /\ UnderWay(c)' = 1
    BY <1>1, <1>3, <1>4 DEF UnderWay
  <2>5. CountOK(c)
    BY JobFacts
  <2> QED BY <1>1, <2>1, <2>2, <2>3, <2>4, <2>5 DEF CountOK
<1>8. LockOK(c)' /\ CompletedOK(c)'
  BY <1>1, <1>4 DEF LockOK, CompletedOK
<1>9. QueueInv'
  BY <1>1, <1>5, <1>6, <1>7, <1>8, OtherRunsKeep DEF JobOK
<1>10. PipeInv'
  <2>1. \A d \in Calls : job'[d] \in JobStates /\ (job'[d] = "none" <=> job[d] = "none")
    BY <1>1, JobFacts DEF PlaceOK
  <2> QED BY <1>1, <1>3, <2>1, JobFacts, PipeRests DEF WorkerInv, Stays
<1> QED BY <1>9, <1>10 DEF WorkerInv

(* The transaction is sent, and the row of proof_log written.              *)
LEMMA SubmitKeeps ==
  ASSUME WorkerInv, NEW p \in Worker!Runners, Worker!Submit(p)
  PROVE  WorkerInv'
<1>1. at[p] = "submit" /\ at[p] # "idle"
  BY DEF Worker!Submit
<1>2. PICK c \in Calls : c = of[p] /\ c # None
  BY <1>1, RunFacts
<1>3. /\ at' = [at EXCEPT ![p] = "prove"] /\ UNCHANGED <<workerFaults, of, workerPc>>
      /\ UNCHANGED <<update, adapted, processed, snaps, checks, announced>>
      /\ UNCHANGED <<job, attempts, stalls, lock, proofs>>
  BY DEF Worker!Submit, Worker!inputs, Worker!rows, Worker!bull
<1>4. /\ InCalls(sent)' /\ sent'[c] \in {sent[c], sent[c] + 1} /\ \A d \in Calls \ {c} : sent'[d] = sent[d]
      /\ InRuns(tx)' /\ tx'[p] \in {0, sent'[c]} /\ \A q \in Worker!Runners \ {p} : tx'[q] = tx[q]
  <2>1. InCalls(sent) /\ InRuns(tx)
    BY <1>2, JobFacts
  <2> QED BY <1>2, <2>1 DEF Worker!Submit, InCalls, InRuns
<1>5. /\ InRuns(at)' /\ at'[p] = "prove" /\ \A q \in Worker!Runners \ {p} : at'[q] = at[q]
      /\ InRuns(of)' /\ InCalls(attempts)' /\ InCalls(stalls)' /\ InCalls(lock)'
      /\ InCalls(workerPc)' /\ InCalls(job)'
  BY <1>2, <1>3, JobFacts DEF InCalls, InRuns
<1>6. sent[c] \in Nat /\ sent'[c] \in Nat
  BY <1>4, JobFacts DEF CountOK
<1>7. OneRun(p, c)
  BY <1>2, <1>3, <1>4, <1>5, <1>6 DEF OneRun, QueueTypes
<1>8. RunOK(p)'
  <2>1. tx'[p] \in 0 .. sent'[c]
    BY <1>4, <1>6
  <2> QED BY <1>1, <1>2, <1>3, <1>5, <2>1, RunFacts DEF RunOK
<1>9. CountOK(c)'
  <2>1. PICK n : n = Cardinality(Submitting(c))
    OBVIOUS
  <2>2. PICK m : m = Cardinality(Submitting(c))'
    OBVIOUS
  <2>3. n \in Nat /\ m \in Nat /\ m = n - 1
    BY <1>1, <1>2, <1>5, <1>7, <2>1, <2>2, SubmittingMoves
  <2>4. UnderWay(c)' = UnderWay(c) /\ UnderWay(c) \in Nat
    BY <1>3 DEF UnderWay
  <2>5. CountOK(c)
    BY JobFacts
  <2> QED BY <1>3, <1>4, <2>1, <2>2, <2>3, <2>4, <2>5 DEF CountOK
<1>10. LockOK(c)' /\ CompletedOK(c)'
  BY <1>3, JobFacts DEF LockOK, CompletedOK
<1>11. QueueInv'
  BY <1>3, <1>7, <1>8, <1>9, <1>10, OtherRunsKeep DEF JobOK
<1>12. PipeInv'
  <2>1. \A d \in Calls : job'[d] \in JobStates /\ (job'[d] = "none" <=> job[d] = "none")
    BY <1>3, JobFacts DEF PlaceOK
  <2> QED BY <1>2, <1>3, <1>5, <2>1, JobFacts, PipeRests DEF WorkerInv, Stays
<1> QED BY <1>11, <1>12 DEF WorkerInv

LEMMA ProofKeeps ==
  ASSUME WorkerInv, NEW p \in Worker!Runners, Worker!InsertProof(p)
  PROVE  WorkerInv'
<1>1. at[p] = "prove" /\ at[p] # "idle"
  BY DEF Worker!InsertProof
<1>2. PICK c \in Calls : c = of[p] /\ c # None
  BY <1>1, RunFacts
<1>3. /\ at' = [at EXCEPT ![p] = "finish"] /\ UNCHANGED <<workerFaults, of, tx, sent, workerPc>>
      /\ UNCHANGED <<update, adapted, processed, snaps, checks, announced>>
      /\ UNCHANGED <<job, attempts, stalls, lock>> /\ proofs' = proofs \cup {<<c, tx[p]>>}
  BY <1>2 DEF Worker!InsertProof, Worker!inputs, Worker!rows, Worker!bull
<1>4. /\ InRuns(at)' /\ at'[p] = "finish" /\ \A q \in Worker!Runners \ {p} : at'[q] = at[q]
      /\ InRuns(of)' /\ InRuns(tx)' /\ InCalls(attempts)' /\ InCalls(stalls)' /\ InCalls(lock)'
      /\ InCalls(sent)' /\ InCalls(workerPc)' /\ InCalls(job)'
  BY <1>2, <1>3, JobFacts DEF InCalls, InRuns
<1>5. OneRun(p, c)
  BY <1>2, <1>3, <1>4, JobFacts DEF OneRun, QueueTypes, CountOK
<1>6. tx[p] \in 0 .. sent[c]
  BY <1>1, <1>2, RunFacts DEF RunOK
<1>7. RunOK(p)'
  BY <1>1, <1>2, <1>3, <1>4, <1>6, RunFacts DEF RunOK
<1>8. CountOK(c)'
  <2>1. PICK n : n = Cardinality(Submitting(c))
    OBVIOUS
  <2>2. PICK m : m = Cardinality(Submitting(c))'
    OBVIOUS
  <2>3. n \in Nat /\ m \in Nat /\ m = n
    BY <1>1, <1>4, <1>5, <2>1, <2>2, SubmittingMoves
  <2>4. UnderWay(c)' = UnderWay(c) /\ UnderWay(c) \in Nat
    BY <1>3 DEF UnderWay
  <2>5. CountOK(c)
    BY JobFacts
  <2> QED BY <1>3, <2>1, <2>2, <2>3, <2>4, <2>5 DEF CountOK
<1>9. LockOK(c)' /\ CompletedOK(c)'
  BY <1>3, JobFacts DEF LockOK, CompletedOK
<1>10. QueueInv'
  BY <1>3, <1>5, <1>6, <1>7, <1>8, <1>9, OtherRunsKeep DEF JobOK
<1>11. PipeInv'
  <2>1. \A d \in Calls : job'[d] \in JobStates /\ (job'[d] = "none" <=> job[d] = "none")
    BY <1>3, JobFacts DEF PlaceOK
  <2> QED BY <1>2, <1>3, <1>4, <2>1, JobFacts, PipeRests DEF WorkerInv, Stays
<1> QED BY <1>10, <1>11 DEF WorkerInv

(* A run is over.                                                          *)
LEMMA Leaves ==
  ASSUME WorkerInv, NEW p \in Worker!Runners, at[p] # "idle", NEW c \in Calls, c = of[p],
         NEW outcome \in {"done", "failed"}, Worker!Leave(p, outcome)
  PROVE  /\ InRuns(at)' /\ at'[p] = "idle" /\ \A q \in Worker!Runners \ {p} : at'[q] = at[q]
         /\ InRuns(of)' /\ of'[p] = None /\ \A q \in Worker!Runners \ {p} : of'[q] = of[q]
         /\ InRuns(tx)' /\ tx'[p] = None /\ \A q \in Worker!Runners \ {p} : tx'[q] = tx[q]
         /\ InCalls(workerPc)' /\ \A d \in Calls \ {c} : workerPc'[d] = workerPc[d]
         /\ \/ workerPc'[c] = workerPc[c]
            \/ /\ p = c /\ p \notin Slots /\ workerPc[c] = "submitted" /\ update[c].via = "submit"
               /\ workerPc'[c] = outcome
<1>1. InRuns(at) /\ InRuns(of) /\ InRuns(tx) /\ InCalls(workerPc)
  BY JobFacts
<1>2. /\ InRuns(at)' /\ at'[p] = "idle" /\ \A q \in Worker!Runners \ {p} : at'[q] = at[q]
      /\ InRuns(of)' /\ of'[p] = None /\ \A q \in Worker!Runners \ {p} : of'[q] = of[q]
      /\ InRuns(tx)' /\ tx'[p] = None /\ \A q \in Worker!Runners \ {p} : tx'[q] = tx[q]
  BY <1>1 DEF Worker!Leave, InRuns
<1>3. CASE p \in Slots
  BY <1>1, <1>2, <1>3 DEF Worker!Leave, InCalls
<1>4. CASE p \notin Slots
  <2>1. p = c /\ workerPc[c] = "submitted" /\ update[c].via = "submit"
    BY <1>4, RunFacts, JobFacts DEF PlaceOK
  <2>2. workerPc' = [workerPc EXCEPT ![c] = outcome]
    BY <1>4, <2>1 DEF Worker!Leave, Worker!Goto
  <2> QED BY <1>1, <1>2, <1>4, <2>1, <2>2 DEF InCalls
<1> QED BY <1>3, <1>4

LEMMA FinishesKeep ==
  ASSUME WorkerInv, NEW p \in Worker!Runners, Worker!Finish(p)
  PROVE  WorkerInv'
<1>1. at[p] = "finish" /\ at[p] # "idle" /\ Worker!Leave(p, "done")
  BY DEF Worker!Finish
<1>2. PICK c \in Calls : c = of[p] /\ c # None
  BY <1>1, RunFacts
<1>3. /\ InRuns(at)' /\ at'[p] = "idle" /\ \A q \in Worker!Runners \ {p} : at'[q] = at[q]
      /\ InRuns(of)' /\ of'[p] = None /\ \A q \in Worker!Runners \ {p} : of'[q] = of[q]
      /\ InRuns(tx)' /\ tx'[p] = None /\ \A q \in Worker!Runners \ {p} : tx'[q] = tx[q]
      /\ InCalls(workerPc)' /\ \A d \in Calls \ {c} : workerPc'[d] = workerPc[d]
      /\ \/ workerPc'[c] = workerPc[c]
         \/ /\ p = c /\ p \notin Slots /\ workerPc[c] = "submitted" /\ update[c].via = "submit"
            /\ workerPc'[c] = "done"
  BY <1>1, <1>2, Leaves
<1>4. /\ UNCHANGED <<update, adapted, processed, snaps, checks, announced>>
      /\ UNCHANGED <<attempts, stalls, sent, proofs, workerFaults>>
  BY DEF Worker!Finish, Worker!HoldsLock, Worker!inputs, Worker!rows, Worker!bull, Worker!chain
<1>5. /\ InCalls(job)' /\ InCalls(lock)' /\ \A d \in Calls \ {c} : job'[d] = job[d] /\ lock'[d] = lock[d]
      /\ \/ lock[c] = p /\ job[c] = "active" /\ job'[c] = "completed" /\ lock'[c] = None
         \/ lock[c] # p /\ job'[c] = job[c] /\ lock'[c] = lock[c]
  <2>1. InCalls(job) /\ InCalls(lock)
    BY <1>2, JobFacts
  <2>2. p # None
    BY WorkerAssumption DEF Worker!Runners
  <2>3. CASE lock[c] = p
    <3>1. job[c] = "active"
      BY <2>2, <2>3, JobFacts DEF LockOK
    <3> QED BY <1>2, <2>1, <2>3, <3>1 DEF Worker!Finish, Worker!HoldsLock, InCalls
  <2>4. CASE lock[c] # p
    BY <1>2, <2>1, <2>4 DEF Worker!Finish, Worker!HoldsLock, Worker!bull, InCalls
  <2> QED BY <2>3, <2>4
<1>6. InCalls(attempts)' /\ InCalls(stalls)' /\ InCalls(sent)'
  BY <1>2, <1>4, JobFacts DEF InCalls
<1>7. OneRun(p, c)
  BY <1>2, <1>3, <1>4, <1>5, <1>6, JobFacts DEF OneRun, QueueTypes, CountOK
<1>8. RunOK(p)'
  BY <1>3 DEF RunOK
<1>9. CountOK(c)'
  <2>1. PICK n : n = Cardinality(Submitting(c))
    OBVIOUS
  <2>2. PICK m : m = Cardinality(Submitting(c))'
    OBVIOUS
  <2>3. n \in Nat /\ m \in Nat /\ m = n
    BY <1>1, <1>3, <1>7, <2>1, <2>2, SubmittingMoves
  <2>4. UnderWay(c)' = UnderWay(c) /\ UnderWay(c) \in Nat
    BY <1>3, <1>4, <1>5 DEF UnderWay
  <2>5. CountOK(c)
    BY JobFacts
  <2> QED BY <1>4, <1>5, <2>1, <2>2, <2>3, <2>4, <2>5 DEF CountOK
<1>10. LockOK(c)'
  BY <1>3, <1>5, JobFacts DEF LockOK, Worker!Runners
<1>11. CompletedOK(c)'
  <2>1. <<c, tx[p]>> \in proofs
    BY <1>1, <1>2, RunFacts DEF RunOK
  <2> QED BY <1>4, <1>5, <2>1, JobFacts DEF CompletedOK
<1>12. QueueInv'
  BY <1>4, <1>7, <1>8, <1>9, <1>10, <1>11, OtherRunsKeep DEF JobOK
<1>13. PipeInv'
  <2>1. \A d \in Calls : job'[d] \in JobStates /\ (job'[d] = "none" <=> job[d] = "none")
    BY <1>5, JobFacts DEF PlaceOK, JobStates
  <2> QED BY <1>2, <1>3, <1>4, <1>5, <2>1, JobFacts, PipeRests DEF WorkerInv, Stays
<1> QED BY <1>12, <1>13 DEF WorkerInv

(* A run that throws: what it has sent, if it has, it sent once.           *)
LEMMA ThrowKeeps ==
  ASSUME WorkerInv, NEW p \in Worker!Runners, at[p] # "idle", Worker!Throw(p),
         NEW c \in Calls, c = of[p],
         UNCHANGED <<update, adapted, processed, snaps, checks, announced, proofs>>,
         workerFaults' \in Nat, workerFaults' >= workerFaults,
         InCalls(sent)', \A d \in Calls \ {c} : sent'[d] = sent[d],
         sent'[c] = sent[c] \/ (at[p] = "submit" /\ sent'[c] = sent[c] + 1)
  PROVE  WorkerInv'
<1>1. Worker!Leave(p, "failed") /\ p # None
  BY WorkerAssumption DEF Worker!Throw, Worker!Runners
<1>2. c # None
  BY WorkerAssumption
<1>3. /\ InRuns(at)' /\ at'[p] = "idle" /\ \A q \in Worker!Runners \ {p} : at'[q] = at[q]
      /\ InRuns(of)' /\ of'[p] = None /\ \A q \in Worker!Runners \ {p} : of'[q] = of[q]
      /\ InRuns(tx)' /\ tx'[p] = None /\ \A q \in Worker!Runners \ {p} : tx'[q] = tx[q]
      /\ InCalls(workerPc)' /\ \A d \in Calls \ {c} : workerPc'[d] = workerPc[d]
      /\ \/ workerPc'[c] = workerPc[c]
         \/ /\ p = c /\ p \notin Slots /\ workerPc[c] = "submitted" /\ update[c].via = "submit"
            /\ workerPc'[c] = "failed"
  BY <1>1, Leaves
<1>4. InCalls(job) /\ InCalls(lock) /\ InCalls(attempts) /\ InCalls(stalls)
  BY JobFacts
<1>5. /\ InCalls(job)' /\ InCalls(lock)' /\ InCalls(attempts)' /\ InCalls(stalls)'
      /\ \A d \in Calls \ {c} : /\ job'[d] = job[d] /\ lock'[d] = lock[d]
                                /\ attempts'[d] = attempts[d] /\ stalls'[d] = stalls[d]
      /\ stalls'[c] = stalls[c]
      /\ \/ /\ lock[c] = p /\ job[c] = "active" /\ lock'[c] = None
            /\ attempts'[c] = attempts[c] + 1
            /\ job'[c] = IF attempts[c] + 1 < MaxAttempts THEN "wait" ELSE "failed"
         \/ lock[c] # p /\ job'[c] = job[c] /\ lock'[c] = lock[c] /\ attempts'[c] = attempts[c]
  <2>1. CASE lock[c] = p
    <3>1. job[c] = "active"
      BY <1>1, <2>1, JobFacts DEF LockOK
    <3> QED BY <1>4, <2>1, <3>1 DEF Worker!Throw, Worker!HoldsLock, Worker!AttemptsLeft, InCalls
  <2>2. CASE lock[c] # p
    BY <1>4, <2>2 DEF Worker!Throw, Worker!HoldsLock, Worker!bull, InCalls
  <2> QED BY <2>1, <2>2
<1>6. sent[c] \in Nat /\ sent'[c] \in Nat /\ sent'[c] >= sent[c]
  BY JobFacts DEF CountOK
<1>7. OneRun(p, c)
  BY <1>3, <1>5, <1>6 DEF OneRun, QueueTypes
<1>8. RunOK(p)'
  BY <1>3 DEF RunOK
<1>9. CountOK(c)'
  <2>1. PICK n : n = Cardinality(Submitting(c))
    OBVIOUS
  <2>2. PICK m : m = Cardinality(Submitting(c))'
    OBVIOUS
  <2>3. /\ n \in Nat /\ m \in Nat
        /\ at[p] = "submit" => m = n - 1
        /\ at[p] # "submit" => m = n
    BY <1>3, <1>7, <2>1, <2>2, SubmittingMoves
  <2>4. sent'[c] + m <= sent[c] + n
    BY <1>6, <2>3
  <2>5. CountOK(c)
    BY JobFacts
  <2>6. CASE lock[c] # p
    <3>1. UnderWay(c)' = UnderWay(c) /\ UnderWay(c) \in Nat
      BY <1>3, <1>5, <2>6 DEF UnderWay
    <3> QED BY <1>5, <1>6, <2>1, <2>2, <2>3, <2>4, <2>5, <2>6, <3>1 DEF CountOK
  <2>7. CASE lock[c] = p
    <3>1. UnderWay(c) = 1 /\ UnderWay(c)' = 0
      BY <1>5, <2>7, JobFacts DEF UnderWay, StoredOK
    <3>2. /\ attempts[c] \in Nat /\ stalls[c] \in Nat /\ attempts[c] < MaxAttempts
          /\ stalls[c] <= MaxStalledCount /\ sent[c] + n <= attempts[c] + stalls[c] + 1
      BY <1>5, <2>1, <2>5, <2>7, <3>1 DEF CountOK
    <3>3. /\ attempts'[c] = attempts[c] + 1 /\ stalls'[c] = stalls[c]
          /\ job'[c] = IF attempts[c] + 1 < MaxAttempts THEN "wait" ELSE "failed"
      BY <1>5, <2>7
    <3> QED BY <1>6, <2>2, <2>3, <2>4, <3>1, <3>2, <3>3, WorkerAssumption DEF CountOK
  <2> QED BY <2>6, <2>7
<1>10. LockOK(c)' /\ CompletedOK(c)'
  BY <1>3, <1>5, JobFacts DEF LockOK, CompletedOK, Worker!Runners
<1>11. QueueInv'
  BY <1>7, <1>8, <1>9, <1>10, OtherRunsKeep DEF JobOK
<1>12. PipeInv'
  <2>1. \A d \in Calls : job'[d] \in JobStates /\ (job'[d] = "none" <=> job[d] = "none")
    BY <1>5, JobFacts DEF PlaceOK, JobStates
  <2> QED BY <1>3, <1>5, <2>1, PipeRests DEF WorkerInv, Stays
<1> QED BY <1>11, <1>12 DEF WorkerInv

LEMMA SubmitFailsKeeps ==
  ASSUME WorkerInv, NEW p \in Worker!Runners, Worker!SubmitFails(p)
  PROVE  WorkerInv'
<1>1. /\ at[p] = "submit" /\ at[p] # "idle" /\ Worker!Throw(p) /\ workerFaults' = workerFaults + 1
      /\ UNCHANGED <<update, adapted, processed, snaps, checks, announced, proofs>>
      /\ sent' \in {sent, [sent EXCEPT ![of[p]] = @ + 1]}
  BY DEF Worker!SubmitFails, Worker!Fault, Worker!inputs, Worker!rows
<1>2. PICK c \in Calls : c = of[p]
  BY <1>1, RunFacts
<1>3. /\ InCalls(sent)' /\ (\A d \in Calls \ {c} : sent'[d] = sent[d])
      /\ sent'[c] = sent[c] \/ sent'[c] = sent[c] + 1
  <2>1. InCalls(sent)
    BY <1>2, JobFacts
  <2> QED BY <1>1, <1>2, <2>1 DEF InCalls
<1>4. workerFaults' \in Nat /\ workerFaults' >= workerFaults
  BY <1>1, <1>2, JobFacts
<1> QED BY <1>1, <1>2, <1>3, <1>4, ThrowKeeps

(* What was sent stays sent.                                               *)
LEMMA ProofFailsKeeps ==
  ASSUME WorkerInv, NEW p \in Worker!Runners, Worker!InsertProofFails(p)
  PROVE  WorkerInv'
<1>1. /\ at[p] # "idle" /\ Worker!Throw(p) /\ workerFaults' \in {workerFaults, workerFaults + 1}
      /\ UNCHANGED <<update, adapted, processed, snaps, checks, announced, proofs, sent>>
  BY DEF Worker!InsertProofFails, Worker!Fault, Worker!inputs, Worker!rows, Worker!chain
<1>2. PICK c \in Calls : c = of[p]
  BY <1>1, RunFacts
<1>3. InCalls(sent)' /\ workerFaults' \in Nat /\ workerFaults' >= workerFaults
  BY <1>1, <1>2, JobFacts DEF InCalls
<1> QED BY <1>1, <1>2, <1>3, ThrowKeeps

(* A lock lapses, or a job without one is found stalled.                   *)
LEMMA LoseLockKeeps ==
  ASSUME WorkerInv, NEW c \in Calls, Worker!LoseLock(c)
  PROVE  WorkerInv'
<1>1. /\ lock' = [lock EXCEPT ![c] = None] /\ workerFaults' = workerFaults + 1
      /\ UNCHANGED <<update, adapted, workerPc, processed, snaps, checks, announced>>
      /\ UNCHANGED <<job, attempts, stalls, at, of, tx, sent, proofs>>
  BY DEF Worker!LoseLock, Worker!Fault, Worker!inputs, Worker!rows, Worker!runs, Worker!chain
<1>2. /\ InCalls(lock)' /\ lock'[c] = None /\ (\A d \in Calls \ {c} : lock'[d] = lock[d])
      /\ InCalls(attempts)' /\ InCalls(stalls)' /\ InCalls(sent)' /\ InCalls(workerPc)' /\ InCalls(job)'
      /\ InRuns(at)' /\ InRuns(of)' /\ InRuns(tx)' /\ workerFaults \in Nat
  BY <1>1, JobFacts DEF InCalls, InRuns
<1>3. None \notin Worker!Runners
  BY WorkerAssumption DEF Worker!Runners
<1>4. OneRun(None, c)
  BY <1>1, <1>2, <1>3, JobFacts DEF OneRun, QueueTypes, CountOK
<1>5. CountOK(c)'
  <2>1. Submitting(c)' = Submitting(c) /\ UnderWay(c)' = UnderWay(c)
    BY <1>1 DEF Submitting, UnderWay
  <2> QED BY <1>1, <2>1, JobFacts DEF CountOK
<1>6. LockOK(c)' /\ CompletedOK(c)'
  BY <1>1, <1>2, JobFacts DEF LockOK, CompletedOK
<1>7. QueueInv'
  BY <1>1, <1>3, <1>4, <1>5, <1>6, OtherRunsKeep DEF JobOK
<1>8. PipeInv'
  <2>1. \A d \in Calls : job'[d] \in JobStates /\ (job'[d] = "none" <=> job[d] = "none")
    BY <1>1, JobFacts DEF PlaceOK
  <2> QED BY <1>1, <1>2, <2>1, PipeRests DEF WorkerInv, Stays
<1> QED BY <1>7, <1>8 DEF WorkerInv

LEMMA RecoverKeeps ==
  ASSUME WorkerInv, NEW c \in Calls, Worker!RecoverStalled(c)
  PROVE  WorkerInv'
<1>1. /\ job[c] = "active" /\ lock[c] = None /\ stalls' = [stalls EXCEPT ![c] = @ + 1]
      /\ job' = [job EXCEPT ![c] = IF stalls[c] < MaxStalledCount THEN "wait" ELSE "failed"]
      /\ UNCHANGED <<update, adapted, workerPc, processed, snaps, checks, announced>>
      /\ UNCHANGED <<lock, attempts, at, of, tx, sent, proofs, workerFaults>>
  BY DEF Worker!RecoverStalled, Worker!inputs, Worker!rows, Worker!runs, Worker!chain
<1>2. /\ InCalls(stalls)' /\ stalls'[c] = stalls[c] + 1 /\ (\A d \in Calls \ {c} : stalls'[d] = stalls[d])
      /\ InCalls(job)' /\ job'[c] = (IF stalls[c] < MaxStalledCount THEN "wait" ELSE "failed")
      /\ (\A d \in Calls \ {c} : job'[d] = job[d])
      /\ InCalls(attempts)' /\ InCalls(lock)' /\ InCalls(sent)' /\ InCalls(workerPc)'
      /\ InRuns(at)' /\ InRuns(of)' /\ InRuns(tx)' /\ workerFaults \in Nat
  BY <1>1, JobFacts DEF InCalls, InRuns
<1>3. None \notin Worker!Runners
  BY WorkerAssumption DEF Worker!Runners
<1>4. OneRun(None, c)
  BY <1>1, <1>2, <1>3, JobFacts DEF OneRun, QueueTypes, CountOK
<1>5. CountOK(c)'
  <2>1. PICK n : n = Cardinality(Submitting(c))
    OBVIOUS
  <2>2. n \in Nat /\ n = Cardinality(Submitting(c)')
    BY <1>1, <2>1, SubmittingCounts DEF Submitting
  <2>3. UnderWay(c) = 1 /\ UnderWay(c)' = 0
    BY <1>1, <1>2, JobFacts DEF UnderWay, StoredOK
  <2>4. /\ attempts[c] \in Nat /\ stalls[c] \in Nat /\ sent[c] \in Nat /\ attempts[c] < MaxAttempts
        /\ stalls[c] <= MaxStalledCount /\ sent[c] + n <= attempts[c] + stalls[c] + 1
    BY <1>1, <2>1, <2>3, JobFacts DEF CountOK
  <2> QED BY <1>1, <1>2, <2>2, <2>3, <2>4, WorkerAssumption DEF CountOK
<1>6. LockOK(c)' /\ CompletedOK(c)'
  BY <1>1, <1>2 DEF LockOK, CompletedOK
<1>7. QueueInv'
  BY <1>1, <1>3, <1>4, <1>5, <1>6, OtherRunsKeep DEF JobOK
<1>8. PipeInv'
  <2>1. \A d \in Calls : job'[d] \in JobStates /\ (job'[d] = "none" <=> job[d] = "none")
    BY <1>1, <1>2, JobFacts DEF PlaceOK, JobStates
  <2> QED BY <1>1, <1>2, <2>1, PipeRests DEF WorkerInv, Stays
<1> QED BY <1>7, <1>8 DEF WorkerInv

(* The slots die with the worker, the requests of the route do not.        *)
LEMMA CrashQueues ==
  ASSUME WorkerInv, Worker!Crash
  PROVE  QueueInv'
<1>1. /\ UNCHANGED <<update, job, attempts, stalls, sent, proofs>> /\ lock' = [c \in Calls |-> None]
      /\ at' = [p \in Worker!Runners |-> IF p \in Slots THEN "idle" ELSE at[p]]
      /\ of' = [p \in Worker!Runners |-> IF p \in Slots THEN None ELSE of[p]]
      /\ tx' = [p \in Worker!Runners |-> IF p \in Slots THEN None ELSE tx[p]]
      /\ \A c \in Calls : workerPc'[c] = workerPc[c] \/ update[c].via = "stream"
  BY DEF Worker!Crash, Worker!Via, Worker!inputs, Worker!chain
<1>2. QueueTypes' /\ ProofsOK'
  <2>1. InCalls(lock)' /\ InRuns(at)' /\ InRuns(of)' /\ InRuns(tx)'
    BY <1>1 DEF InCalls, InRuns
  <2>2. InCalls(attempts)' /\ InCalls(stalls)' /\ InCalls(sent)'
    BY <1>1 DEF WorkerInv, QueueInv, QueueTypes, InCalls
  <2> QED BY <1>1, <2>1, <2>2 DEF WorkerInv, QueueInv, QueueTypes, ProofsOK
<1>3. ASSUME NEW p \in Worker!Runners PROVE RunOK(p)'
  <2>1. RunOK(p)
    BY DEF WorkerInv, QueueInv
  <2>2. CASE p \in Slots
    BY <1>1, <2>2 DEF RunOK
  <2>3. CASE p \notin Slots
    <3>1. at'[p] = at[p] /\ of'[p] = of[p] /\ tx'[p] = tx[p]
      BY <1>1, <2>3
    <3>2. at[p] # "idle" => workerPc'[p] = "submitted"
      <4>1. at[p] # "idle" => p \in Calls /\ workerPc[p] = "submitted"
        BY <2>1, <2>3 DEF RunOK
      <4> QED BY <1>1, <4>1, JobFacts DEF PlaceOK
    <3> QED BY <1>1, <2>1, <2>3, <3>1, <3>2 DEF RunOK
  <2> QED BY <2>2, <2>3
<1>4. ASSUME NEW c \in Calls PROVE JobOK(c)'
  <2>1. UnderWay(c)' = UnderWay(c) /\ UnderWay(c) \in Nat
    BY <1>1 DEF UnderWay
  <2>2. PICK n : n = Cardinality(Submitting(c))
    OBVIOUS
  <2>3. PICK m : m = Cardinality(Submitting(c)')
    OBVIOUS
  <2>4. n \in Nat /\ m \in Nat /\ m <= n
    <3>1. Submitting(c)' \subseteq Submitting(c)
      BY <1>1 DEF Submitting
    <3>2. IsFiniteSet(Submitting(c)) /\ n \in Nat
      BY <2>2, SubmittingCounts
    <3>3. IsFiniteSet(Submitting(c)') /\ m <= n
      BY <2>2, <2>3, <3>1, <3>2, FS_Subset
    <3> QED BY <2>3, <3>2, <3>3, FS_CardinalityType
  <2>5. CountOK(c)
    BY JobFacts
  <2>6. CountOK(c)'
    BY <1>1, <2>1, <2>2, <2>3, <2>4, <2>5 DEF CountOK
  <2>7. LockOK(c)' /\ CompletedOK(c)'
    BY <1>1, JobFacts DEF LockOK, CompletedOK
  <2> QED BY <2>6, <2>7 DEF JobOK
<1> QED BY <1>2, <1>3, <1>4 DEF QueueInv

LEMMA WorkerKeeps == WorkerInv /\ [Worker!Next]_workerVars => WorkerInv'
<1> SUFFICES ASSUME WorkerInv, [Worker!Next]_workerVars PROVE WorkerInv'
  OBVIOUS
<1>1. CASE UNCHANGED workerVars
  <2>1. PipeTypes'
    BY <1>1 DEF workerVars, WorkerInv, PipeInv, PipeTypes, InCalls
  <2>2. \A c \in Calls : CallOK(c)'
    BY <1>1 DEF workerVars, WorkerInv, PipeInv, CallOK, PlaceOK, StoredOK
  <2>3. SeenOK'
    BY <1>1 DEF workerVars, WorkerInv, PipeInv, SeenOK, Seen, Traced, Adapted
  <2>4. QueueInv'
    BY <1>1, QueueRests DEF workerVars
  <2> QED BY <2>1, <2>2, <2>3, <2>4 DEF WorkerInv, PipeInv
<1>2. CASE Worker!Crash
  BY <1>2, CrashKeeps, CrashQueues DEF WorkerInv
<1>3. ASSUME NEW c \in Calls, Worker!Pipeline(c) PROVE WorkerInv'
  BY <1>3, PipelineKeeps, PipelineQueues DEF WorkerInv
<1>4. ASSUME NEW c \in Calls, Worker!Queue(c) PROVE WorkerInv'
  BY <1>4, SubmitRouteKeeps, LoseLockKeeps, RecoverKeeps, TakeKeeps DEF Worker!Queue
<1>5. ASSUME NEW p \in Worker!Runners, Worker!Submission(p) PROVE WorkerInv'
  BY <1>5, SubmitKeeps, SubmitFailsKeeps, ProofKeeps, ProofFailsKeeps, FinishesKeep
     DEF Worker!Submission
<1> QED BY <1>1, <1>2, <1>3, <1>4, <1>5 DEF Worker!Next

-----------------------------------------------------------------------------
LEMMA WorkerTyped == WorkerInv => Worker!TypeOK
<1> SUFFICES ASSUME WorkerInv PROVE Worker!TypeOK
  OBVIOUS
<1>1. Len(processed) <= CacheSize
  BY DEF WorkerInv, PipeInv, PipeTypes
<1>2. \A c \in Calls : PlaceOK(c) /\ LockOK(c)
  BY JobFacts
<1>3. \A p \in Worker!Runners : RunOK(p)
  BY DEF WorkerInv, QueueInv
<1> QED BY <1>1, <1>2, <1>3
        DEF PlaceOK, LockOK, RunOK, Stations, JobStates,
            Worker!TypeOK, Worker!Handling, Worker!Inserting, Worker!Finished

LEMMA WorkerCauses == WorkerInv => LeftOutForCause
<1> SUFFICES ASSUME WorkerInv, Adapted, workerFaults = 0,
                    NEW c \in Calls, update[c].via = "stream"
             PROVE  /\ workerPc[c] = "skipped" =>
                         \E d \in Calls : /\ update[d].via = "stream" /\ update[d].odds = update[c].odds
                                          /\ d \in checks \/ workerPc[d] \in {"load", "snapshot", "check"}
                                             \/ workerPc[d] = "ignored"
                    /\ workerPc[c] = "done" /\ update[c].flagged => c \in checks /\ job[c] # "none"
  BY DEF LeftOutForCause, Worker!LeftOutForCause, Worker!Via, Worker!Recorded, Worker!AtWork,
         Worker!Inserting, Adapted
<1>1. workerPc[c] = "skipped" => Seen(update[c].odds)
  BY DEF WorkerInv, PipeInv, SeenOK
<1>2. workerPc[c] = "done" /\ update[c].flagged => c \in checks /\ job[c] # "none"
  BY JobFacts DEF StoredOK
<1> QED BY <1>1, <1>2 DEF Seen, Traced

LEMMA WorkerSends == WorkerInv => ProofsFollowSubmissions
<1> SUFFICES ASSUME WorkerInv PROVE ProofsFollowSubmissions
  OBVIOUS
<1>1. ASSUME NEW c \in Calls
      PROVE  /\ job[c] # "none" => c \in (snaps \cap checks) \cap announced /\ update[c].flagged
             /\ job[c] = "completed" => \E row \in proofs : row[1] = c
             /\ sent[c] <= IF update[c].via = "submit" THEN 1 ELSE MaxAttempts + MaxStalledCount
  <2>1. job[c] # "none" => /\ c \in (snaps \cap checks) \cap announced /\ update[c].flagged
                           /\ update[c].via = "stream"
    BY JobFacts DEF StoredOK
  <2>2. job[c] = "completed" => \E row \in proofs : row[1] = c
    BY JobFacts DEF CompletedOK
  <2>3. PICK n \in Nat : n = Cardinality(Submitting(c))
    BY SubmittingCounts
  <2>4. /\ attempts[c] \in Nat /\ stalls[c] \in Nat /\ sent[c] \in Nat
        /\ sent[c] + n <= attempts[c] + stalls[c] + UnderWay(c)
        /\ job[c] = "none" => attempts[c] = 0 /\ stalls[c] = 0
        /\ job[c] # "failed" => attempts[c] < MaxAttempts /\ stalls[c] <= MaxStalledCount
        /\ attempts[c] + stalls[c] <= MaxAttempts + MaxStalledCount
    BY <2>3, JobFacts DEF CountOK
  <2>5. UnderWay(c) \in {0, 1} /\ (job[c] = "failed" => UnderWay(c) = 0)
    BY <2>1 DEF UnderWay
  <2>6. update[c].via = "submit" => sent[c] <= 1
    BY <2>1, <2>4, <2>5
  <2>7. sent[c] <= MaxAttempts + MaxStalledCount
    BY <2>4, <2>5, WorkerAssumption
  <2> QED BY <2>1, <2>2, <2>6, <2>7
<1>2. \A row \in proofs : row[2] \in 0 .. sent[row[1]]
  BY DEF WorkerInv, QueueInv, ProofsOK
<1> QED BY <1>1, <1>2 DEF ProofsFollowSubmissions, Worker!ProofsFollowSubmissions, Worker!Via

-----------------------------------------------------------------------------
(* The migrations.                                                         *)
Knows ==
  \A p \in Processes :
    /\ pc[p] \in {"apply", "journal", "migrated"} =>
         \A i \in 1 .. next[p] - 1 : Files[i] \in journal
    /\ pc[p] = "journal" => next[p] <= Len(Files) /\ made[Name(p)] > 0

MadeOK == made \in [Names -> Nat] /\ faults \in Nat

MigrationsInv == TypeOK /\ MadeOK /\ Knows /\ JournalFollowsTables

(* A file of the list has a name.                                          *)
LEMMA NameOfFile ==
  ASSUME NEW i \in 1 .. Len(Files)
  PROVE  i \in DOMAIN Files /\ Files[i] \in Names
  BY MigrationsAssumption DEF Names

(* Every name belongs to some place of the list.                           *)
LEMMA PlaceOfName ==
  ASSUME NEW f \in Names
  PROVE  \E i \in 1 .. Len(Files) : Files[i] = f
  BY MigrationsAssumption DEF Names

(* Before anything runs, nothing is made and nothing is in the journal.    *)
LEMMA MigrationsInitially == Init => MigrationsInv
<1> SUFFICES ASSUME Init PROVE MigrationsInv
  OBVIOUS
<1>1. TypeOK
  <2>1. Len(Files) \in Nat
    BY MigrationsAssumption
  <2> QED BY <2>1 DEF Init, TypeOK
<1>2. MadeOK /\ Knows /\ JournalFollowsTables
  BY DEF Init, MadeOK, Knows, JournalFollowsTables
<1> QED BY <1>1, <1>2 DEF MigrationsInv

(* A step that changes neither the journal nor the tables, and moves one   *)
(* process p to a place where it knows nothing.                            *)
LEMMA QuietKeeps ==
  ASSUME MigrationsInv, NEW p \in Processes, NEW label \in {"read", "failed"},
         pc' = [pc EXCEPT ![p] = label], pc[p] # "journal" \/ faults' > 0,
         faults' \in Nat, faults' >= faults, UNCHANGED <<next, applied, journal, made>>
  PROVE  MigrationsInv'
<1> USE DEF MigrationsInv, TypeOK
<1>1. /\ pc'[p] = label
      /\ \A q \in Processes \ {p} : pc'[q] = pc[q]
      /\ pc' \in [Processes -> {"stopped", "read", "apply", "journal", "migrated", "failed"}]
  OBVIOUS
<1>2. TypeOK'
  BY <1>1
<1>3. MadeOK'
  BY DEF MadeOK
<1>4. Knows'
  <2> SUFFICES ASSUME NEW q \in Processes
               PROVE  /\ pc'[q] \in {"apply", "journal", "migrated"} =>
                           \A i \in 1 .. next[q] - 1 : Files[i] \in journal
                      /\ pc'[q] = "journal" => next[q] <= Len(Files) /\ made[Name(q)] > 0
    BY DEF Knows, Name
  <2> QED BY <1>1 DEF Knows
<1>5. JournalFollowsTables'
  <2>1. \A q \in Processes : pc'[q] = "migrated" => pc[q] = "migrated"
    BY <1>1
  <2>2. ASSUME NEW f \in Names \ journal, made[f] > 0
        PROVE  faults' > 0 \/ \E q \in Processes : pc'[q] = "journal" /\ Name(q)' = f
    <3>1. CASE faults > 0
      BY <3>1 DEF MadeOK
    <3>2. CASE faults = 0
      <4>1. PICK q \in Processes : pc[q] = "journal" /\ Name(q) = f
        BY <3>2, <2>2 DEF JournalFollowsTables
      <4>2. CASE q = p
        BY <4>1, <4>2
      <4>3. CASE q # p
        BY <4>1, <4>3, <1>1 DEF Name
      <4> QED BY <4>2, <4>3
    <3> QED BY <3>1, <3>2 DEF MadeOK
  <2> QED BY <2>1, <2>2 DEF JournalFollowsTables, MadeOK
<1> QED BY <1>2, <1>3, <1>4, <1>5

(* A process that starts, dies, or finds a failing query.                  *)
LEMMA StartKeeps ==
  ASSUME MigrationsInv, NEW p \in Processes, Start(p)
  PROVE  MigrationsInv'
<1>1. faults' \in Nat /\ faults' >= faults /\ pc[p] # "journal"
  BY DEF Start, MigrationsInv, MadeOK
<1>2. pc' = [pc EXCEPT ![p] = "read"] /\ UNCHANGED <<next, applied, journal, made>>
  BY DEF Start
<1> QED BY <1>1, <1>2, QuietKeeps

LEMMA FaultKeeps ==
  ASSUME MigrationsInv, NEW p \in Processes, Fault(p)
  PROVE  MigrationsInv'
<1>1. faults' \in Nat /\ faults' >= faults /\ faults' > 0
  BY DEF Fault, MigrationsInv, MadeOK
<1>2. pc' = [pc EXCEPT ![p] = "failed"] /\ UNCHANGED <<next, applied, journal, made>>
  BY DEF Fault
<1> QED BY <1>1, <1>2, QuietKeeps

(* A process that reads the journal begins at the first file.              *)
LEMMA ReadJournalKeeps ==
  ASSUME MigrationsInv, NEW p \in Processes, ReadJournal(p)
  PROVE  MigrationsInv'
<1> USE DEF MigrationsInv, TypeOK, ReadJournal
<1>1. Len(Files) \in Nat
  BY MigrationsAssumption
<1>2. /\ pc'[p] = "apply" /\ next'[p] = 1
      /\ \A q \in Processes \ {p} : pc'[q] = pc[q] /\ next'[q] = next[q]
  OBVIOUS
<1>3. TypeOK'
  BY <1>1
<1>4. MadeOK' /\ Knows'
  <2> SUFFICES ASSUME NEW q \in Processes
               PROVE  /\ pc'[q] \in {"apply", "journal", "migrated"} =>
                           \A i \in 1 .. next'[q] - 1 : Files[i] \in journal
                      /\ pc'[q] = "journal" => next'[q] <= Len(Files) /\ made[Files[next'[q]]] > 0
    BY DEF MadeOK, Knows, Name
  <2> QED BY <1>2 DEF Knows, Name
<1>5. JournalFollowsTables'
  <2>1. \A q \in Processes : pc'[q] = "migrated" => pc[q] = "migrated"
    BY <1>2
  <2>2. \A q \in Processes : pc[q] = "journal" => pc'[q] = "journal" /\ Name(q)' = Name(q)
    BY <1>2 DEF Name
  <2> QED BY <2>1, <2>2 DEF JournalFollowsTables
<1> QED BY <1>3, <1>4, <1>5

(* A file that is passed over is in the journal.                           *)
LEMMA SkipKeeps ==
  ASSUME MigrationsInv, NEW p \in Processes, Skip(p)
  PROVE  MigrationsInv'
<1> USE DEF MigrationsInv, TypeOK, Skip
<1>1. Len(Files) \in Nat /\ next[p] \in 1 .. Len(Files) /\ Files[next[p]] \in journal
  BY MigrationsAssumption DEF Name
<1>2. /\ pc[p] = "apply" /\ next'[p] = next[p] + 1
      /\ \A q \in Processes \ {p} : next'[q] = next[q]
  OBVIOUS
<1>3. TypeOK'
  BY <1>1, <1>2
<1>4. MadeOK' /\ Knows'
  <2> SUFFICES ASSUME NEW q \in Processes
               PROVE  /\ pc[q] \in {"apply", "journal", "migrated"} =>
                           \A i \in 1 .. next'[q] - 1 : Files[i] \in journal
                      /\ pc[q] = "journal" => next'[q] <= Len(Files) /\ made[Files[next'[q]]] > 0
    BY DEF MadeOK, Knows, Name
  <2>1. CASE q = p
    <3>1. \A i \in 1 .. next[p] - 1 : Files[i] \in journal
      BY <1>2 DEF Knows
    <3> QED BY <3>1, <2>1, <1>1, <1>2
  <2>2. CASE q # p
    BY <2>2, <1>2 DEF Knows, Name
  <2> QED BY <2>1, <2>2
<1>5. JournalFollowsTables'
  <2>1. \A q \in Processes : pc[q] = "journal" => Name(q)' = Name(q)
    BY <1>2 DEF Name
  <2> QED BY <2>1 DEF JournalFollowsTables
<1> QED BY <1>3, <1>4, <1>5

(* The statements of a file take effect, or its table is there already.    *)
LEMMA ApplyKeeps ==
  ASSUME MigrationsInv, NEW p \in Processes, Apply(p)
  PROVE  MigrationsInv'
<1> DEFINE f == Name(p)
<1>1. pc[p] = "apply" /\ next[p] \in 1 .. Len(Files) /\ f = Files[next[p]] /\ f \in Names
  BY NameOfFile, MigrationsAssumption DEF Apply, MigrationsInv, TypeOK, Name
<1>2. CASE made[f] = 0 \/ f \in Repeatable
  <2>1. /\ made' = [made EXCEPT ![f] = @ + 1] /\ pc' = [pc EXCEPT ![p] = "journal"]
        /\ UNCHANGED <<next, applied, journal, faults>>
    BY <1>2 DEF Apply
  <2>2. /\ made' \in [Names -> Nat] /\ made'[f] = made[f] + 1 /\ made[f] \in Nat
        /\ \A g \in Names \ {f} : made'[g] = made[g]
    BY <2>1, <1>1 DEF MigrationsInv, MadeOK
  <2>3. pc'[p] = "journal" /\ \A q \in Processes \ {p} : pc'[q] = pc[q]
    BY <2>1 DEF MigrationsInv, TypeOK
  <2>4. \A g \in Names : made[g] > 0 => made'[g] > 0
    BY <2>2 DEF MigrationsInv, MadeOK
  <2>5. TypeOK' /\ MadeOK'
    BY <2>1, <2>2 DEF MigrationsInv, TypeOK, MadeOK
  <2>6. Knows'
    <3> SUFFICES ASSUME NEW q \in Processes
                 PROVE  /\ pc'[q] \in {"apply", "journal", "migrated"} =>
                             \A i \in 1 .. next[q] - 1 : Files[i] \in journal
                        /\ pc'[q] = "journal" => next[q] <= Len(Files) /\ made'[Files[next[q]]] > 0
      BY <2>1 DEF Knows, Name
    <3>1. CASE q = p
      BY <3>1, <2>2, <2>3, <1>1 DEF MigrationsInv, Knows
    <3>2. CASE q # p
      <4>1. pc'[q] = pc[q]
        BY <3>2, <2>3
      <4>2. ASSUME pc[q] = "journal" PROVE next[q] <= Len(Files) /\ made'[Files[next[q]]] > 0
        <5>1. next[q] \in 1 .. Len(Files) /\ made[Files[next[q]]] > 0
          BY <4>2, MigrationsAssumption DEF MigrationsInv, Knows, TypeOK, Name
        <5> QED BY <5>1, <2>4, NameOfFile
      <4> QED BY <4>1, <4>2 DEF MigrationsInv, Knows
    <3> QED BY <3>1, <3>2
  <2>7. JournalFollowsTables'
    <3>1. \A g \in journal : made'[g] > 0
      BY <2>4 DEF MigrationsInv, TypeOK, JournalFollowsTables
    <3>2. \A g \in Names \ Repeatable : made'[g] <= 1
      BY <1>2, <2>2 DEF MigrationsInv, JournalFollowsTables
    <3>3. \A q \in Processes : pc'[q] = "migrated" => Names \subseteq journal
      BY <2>3 DEF MigrationsInv, JournalFollowsTables
    <3>4. ASSUME NEW g \in Names \ journal, made'[g] > 0
          PROVE  faults > 0 \/ \E q \in Processes : pc'[q] = "journal" /\ Name(q) = g
      <4>1. CASE g = f
        BY <4>1, <2>3
      <4>2. CASE g # f
        <5>1. made[g] > 0
          BY <3>4, <4>2, <2>2
        <5> QED BY <5>1, <2>3, <1>1 DEF MigrationsInv, JournalFollowsTables
      <4> QED BY <4>1, <4>2
    <3> QED BY <3>1, <3>2, <3>3, <3>4, <2>1 DEF JournalFollowsTables, Name
  <2> QED BY <2>5, <2>6, <2>7 DEF MigrationsInv
<1>3. CASE ~(made[f] = 0 \/ f \in Repeatable)
  BY <1>1, <1>3, QuietKeeps DEF Apply, MigrationsInv, MadeOK
<1> QED BY <1>2, <1>3

(* The name goes into the journal unless another process wrote it first.   *)
LEMMA JournalKeeps ==
  ASSUME MigrationsInv, NEW p \in Processes, Journal(p)
  PROVE  MigrationsInv'
<1> DEFINE f == Name(p)
<1>1. /\ pc[p] = "journal" /\ next[p] \in 1 .. Len(Files)
      /\ f = Files[next[p]] /\ f \in Names /\ made[f] > 0
  BY NameOfFile, MigrationsAssumption DEF Journal, MigrationsInv, TypeOK, Knows, Name
<1>2. CASE f \in journal
  <2>1. /\ pc'[p] = "failed" /\ \A q \in Processes \ {p} : pc'[q] = pc[q]
        /\ pc' \in [Processes -> {"stopped", "read", "apply", "journal", "migrated", "failed"}]
        /\ UNCHANGED <<next, applied, journal, made, faults>>
    BY <1>2 DEF Journal, MigrationsInv, TypeOK
  <2>2. TypeOK' /\ MadeOK'
    BY <2>1 DEF MigrationsInv, TypeOK, MadeOK
  <2>3. Knows'
    BY <2>1 DEF MigrationsInv, Knows, Name
  <2>4. JournalFollowsTables'
    <3>1. ASSUME NEW g \in Names \ journal, made[g] > 0
          PROVE  faults > 0 \/ \E q \in Processes : pc'[q] = "journal" /\ Name(q) = g
      BY <3>1, <2>1, <1>2 DEF MigrationsInv, JournalFollowsTables
    <3> QED BY <3>1, <2>1 DEF MigrationsInv, JournalFollowsTables, Name
  <2> QED BY <2>2, <2>3, <2>4 DEF MigrationsInv
<1>3. CASE f \notin journal
  <2>1. /\ journal' = journal \cup {f} /\ UNCHANGED <<applied, made, faults>>
        /\ next' = [next EXCEPT ![p] = @ + 1] /\ pc' = [pc EXCEPT ![p] = "apply"]
    BY <1>3 DEF Journal
  <2>2. /\ pc'[p] = "apply" /\ next'[p] = next[p] + 1
        /\ \A q \in Processes \ {p} : pc'[q] = pc[q] /\ next'[q] = next[q]
    BY <2>1 DEF MigrationsInv, TypeOK
  <2>3. Len(Files) \in Nat
    BY MigrationsAssumption
  <2>4. TypeOK' /\ MadeOK'
    BY <2>1, <2>3, <1>1 DEF MigrationsInv, TypeOK, MadeOK
  <2>5. Knows'
    <3> SUFFICES ASSUME NEW q \in Processes
                 PROVE  /\ pc'[q] \in {"apply", "journal", "migrated"} =>
                             \A i \in 1 .. next'[q] - 1 : Files[i] \in journal'
                        /\ pc'[q] = "journal" => next'[q] <= Len(Files) /\ made[Files[next'[q]]] > 0
      BY <2>1 DEF Knows, Name
    <3>1. CASE q = p
      <4>1. \A i \in 1 .. next[p] - 1 : Files[i] \in journal
        BY <1>1 DEF MigrationsInv, Knows
      <4> QED BY <4>1, <3>1, <1>1, <2>1, <2>2
    <3>2. CASE q # p
      BY <3>2, <2>1, <2>2 DEF MigrationsInv, Knows, Name
    <3> QED BY <3>1, <3>2
  <2>6. JournalFollowsTables'
    <3>1. \A g \in journal' : made[g] > 0
      BY <1>1, <2>1 DEF MigrationsInv, JournalFollowsTables
    <3>2. \A q \in Processes : pc'[q] = "migrated" => Names \subseteq journal'
      BY <2>1, <2>2 DEF MigrationsInv, JournalFollowsTables
    <3>3. ASSUME NEW g \in Names \ journal', made[g] > 0
          PROVE  faults > 0 \/ \E q \in Processes : pc'[q] = "journal" /\ Name(q)' = g
      <4>1. g \in Names \ journal /\ g # f
        BY <2>1
      <4>2. CASE faults > 0
        BY <4>2
      <4>3. ASSUME NEW q \in Processes, pc[q] = "journal", Name(q) = g
            PROVE  pc'[q] = "journal" /\ Name(q)' = g
        <5>1. q # p
          BY <4>1, <4>3
        <5> QED BY <5>1, <4>3, <2>2 DEF Name
      <4> QED BY <4>1, <4>2, <4>3, <3>3 DEF MigrationsInv, JournalFollowsTables
    <3> QED BY <3>1, <3>2, <3>3, <2>1 DEF MigrationsInv, JournalFollowsTables
  <2> QED BY <2>4, <2>5, <2>6 DEF MigrationsInv
<1> QED BY <1>2, <1>3

(* Past its last file a process has seen every name in the journal.        *)
LEMMA FinishKeeps ==
  ASSUME MigrationsInv, NEW p \in Processes, Finish(p)
  PROVE  MigrationsInv'
<1> USE DEF MigrationsInv
<1>1. /\ pc[p] = "apply" /\ pc'[p] = "migrated" /\ \A q \in Processes \ {p} : pc'[q] = pc[q]
      /\ pc' \in [Processes -> {"stopped", "read", "apply", "journal", "migrated", "failed"}]
      /\ UNCHANGED <<next, applied, journal, made, faults>>
  BY DEF Finish, TypeOK
<1>2. Names \subseteq journal
  <2>1. \A i \in 1 .. Len(Files) : Files[i] \in journal
    <3>1. next[p] > Len(Files) /\ next[p] \in Nat /\ Len(Files) \in Nat
      BY MigrationsAssumption DEF Finish, TypeOK
    <3> QED BY <3>1, <1>1 DEF Knows
  <2> QED BY <2>1, PlaceOfName
<1>3. TypeOK' /\ MadeOK'
  BY <1>1 DEF TypeOK, MadeOK
<1>4. Knows'
  BY <1>1 DEF Knows, Name
<1>5. JournalFollowsTables'
  BY <1>1, <1>2 DEF JournalFollowsTables, Name
<1> QED BY <1>3, <1>4, <1>5

(* Every step keeps the invariant.                                         *)
LEMMA MigrationsKeep == MigrationsInv /\ [Next]_vars => MigrationsInv'
<1> SUFFICES ASSUME MigrationsInv, [Next]_vars PROVE MigrationsInv'
  OBVIOUS
<1>1. ASSUME NEW p \in Processes, Start(p) PROVE MigrationsInv'
  BY <1>1, StartKeeps
<1>2. ASSUME NEW p \in Processes, ReadJournal(p) PROVE MigrationsInv'
  BY <1>2, ReadJournalKeeps
<1>3. ASSUME NEW p \in Processes, Skip(p) PROVE MigrationsInv'
  BY <1>3, SkipKeeps
<1>4. ASSUME NEW p \in Processes, Apply(p) PROVE MigrationsInv'
  BY <1>4, ApplyKeeps
<1>5. ASSUME NEW p \in Processes, Journal(p) PROVE MigrationsInv'
  BY <1>5, JournalKeeps
<1>6. ASSUME NEW p \in Processes, Finish(p) PROVE MigrationsInv'
  BY <1>6, FinishKeeps
<1>7. ASSUME NEW p \in Processes, Fault(p) PROVE MigrationsInv'
  BY <1>7, FaultKeeps
<1>8. CASE UNCHANGED vars
  BY <1>8 DEF vars, MigrationsInv, TypeOK, MadeOK, Knows, JournalFollowsTables, Name
<1> QED BY <1>1, <1>2, <1>3, <1>4, <1>5, <1>6, <1>7, <1>8 DEF Next

(* The migrations are type-correct, and what a process believes applied is *)
(* in the journal.                                                         *)
THEOREM TypeCorrect == Spec => []TypeOK
<1>1. Spec => []MigrationsInv
  BY MigrationsInitially, MigrationsKeep, PTL DEF Spec
<1>2. MigrationsInv => TypeOK
  BY DEF MigrationsInv
<1> QED BY <1>1, <1>2, PTL

(* The journal and the tables drift apart only through a fault, for any    *)
(* number of processes that run the migrations together.                   *)
THEOREM JournalFollows == Spec => []JournalFollowsTables
<1>1. Spec => []MigrationsInv
  BY MigrationsInitially, MigrationsKeep, PTL DEF Spec
<1>2. MigrationsInv => JournalFollowsTables
  BY DEF MigrationsInv
<1> QED BY <1>1, <1>2, PTL

-----------------------------------------------------------------------------
(* The parts of WebApp take their own steps or stutter.                    *)
LEMMA WebStep ==
  /\ WebInit => Rate!Init /\ Worker!Init /\ Init
  /\ [WebNext]_webVars => [Rate!Next]_rateVars /\ [Worker!Next]_workerVars /\ [Next]_vars
BY DEF WebInit, WebNext, webVars

LEMMA WebInvariant == WebSpec => []RateInv /\ []WorkerInv /\ []MigrationsInv
<1>1. WebInit => RateInv /\ WorkerInv /\ MigrationsInv
  BY WebStep, RateInitially, WorkerInitially, MigrationsInitially
<1>2. RateInv /\ [WebNext]_webVars => RateInv'
  BY WebStep, RateKeeps
<1>3. WorkerInv /\ [WebNext]_webVars => WorkerInv'
  BY WebStep, WorkerKeeps
<1>4. MigrationsInv /\ [WebNext]_webVars => MigrationsInv'
  BY WebStep, MigrationsKeep
<1> QED BY <1>1, <1>2, <1>3, <1>4, PTL DEF WebSpec

(* Every part keeps its types.                                             *)
THEOREM WebTypes == WebSpec => []WebTypeOK
<1>1. ApiInv /\ FeedInv /\ RateInv /\ WorkerInv /\ MigrationsInv => WebTypeOK
  BY ApiTyped, FeedTyped, RateTyped, WorkerTyped DEF WebTypeOK, MigrationsInv
<1> QED BY <1>1, ReadsInvariant, WebInvariant, PTL

(* In the length of one window a client gets at most twice the limit       *)
(* through, however its requests fall and whenever the store is swept.     *)
THEOREM LimitHolds == WebSpec => []AtMostTwiceTheLimit
BY WebInvariant, RateBounds, PTL

(* An update of the stream is left out, or out of the queue, for a cause   *)
(* the code has, however many calls the worker's Set has forgotten.        *)
THEOREM NothingLeftOut == WebSpec => []LeftOutForCause
BY WebInvariant, WorkerCauses, PTL

(* Jobs are of recorded flagged checks, rows of proof_log of transactions  *)
(* sent, and however often locks lapse and the worker dies, a check is sent*)
(* at most once per attempt and once per tolerated stall.                  *)
THEOREM ProofsFollow == WebSpec => []ProofsFollowSubmissions
BY WebInvariant, WorkerSends, PTL

(* The journal and the tables drift apart only through a fault, next to    *)
(* whatever else runs.                                                     *)
THEOREM JournalFollowsBeside == WebSpec => []JournalFollowsTables
<1>1. MigrationsInv => JournalFollowsTables
  BY DEF MigrationsInv
<1> QED BY <1>1, WebInvariant, PTL
=============================================================================
