------------------------------ MODULE RateLimit ------------------------------
(***************************************************************************)
(* checkRateLimit of the web application: a fixed window per client key,   *)
(* kept in the memory of one process, with a timer that forgets windows    *)
(* that are over.                                                          *)
(***************************************************************************)
EXTENDS Integers, Functions

CONSTANTS
  Keys,         \* "rl:" and the client's address
  MaxRequests,  \* API_RATE_LIMIT_MAX
  WindowMs,     \* API_RATE_LIMIT_WINDOW_MS
  MaxTime,      \* bound: milliseconds
  MaxPerMs,     \* bound: requests of a key in one millisecond
  None

VARIABLES
  now,
  store,    \* per key: count and resetAt of its window, or None
  asked,    \* history: requests of each key at each moment
  allowed   \* history: how many of them went through

vars == <<now, store, asked, allowed>>

Times == 0 .. MaxTime

Init ==
  /\ now = 0
  /\ store = [k \in Keys |-> None]
  /\ asked = [k \in Keys |-> [t \in Times |-> 0]]
  /\ allowed = [k \in Keys |-> [t \in Times |-> 0]]

OverMutant(k) == store[k] # None /\ now > store[k].resetAt - 2
Over(k) == store[k] # None /\ now > store[k].resetAt

OpenWindow(k) ==
  /\ store[k] = None \/ Over(k)
  /\ store' = [store EXCEPT ![k] = [count |-> 1, resetAt |-> now + WindowMs]]
  /\ allowed' = [allowed EXCEPT ![k][now] = @ + 1]

(* A refused request is counted as well, and does not move the window.     *)
CountInWindow(k) ==
  /\ store[k] # None /\ ~Over(k)
  /\ store' = [store EXCEPT ![k].count = @ + 1]
  /\ allowed' = IF store[k].count + 1 > MaxRequests THEN allowed
                ELSE [allowed EXCEPT ![k][now] = @ + 1]

Request(k) ==
  /\ asked[k][now] < MaxPerMs
  /\ OpenWindow(k) \/ CountInWindow(k)
  /\ asked' = [asked EXCEPT ![k][now] = @ + 1]
  /\ UNCHANGED now

(* The interval timer: every window that is over is forgotten.             *)
Cleanup ==
  /\ \E k \in Keys : Over(k)
  /\ store' = [k \in Keys |-> IF Over(k) THEN None ELSE store[k]]
  /\ UNCHANGED <<now, asked, allowed>>

Tick == now < MaxTime /\ now' = now + 1 /\ UNCHANGED <<store, asked, allowed>>

Next == Tick \/ Cleanup \/ \E k \in Keys : Request(k)

Spec == Init /\ [][Next]_vars

-----------------------------------------------------------------------------
TypeOK ==
  /\ now \in Times
  /\ \A k \in Keys : store[k] # None =>
       /\ store[k].resetAt \in WindowMs .. now + WindowMs
       /\ store[k].count > 0

AllowedIn(k, interval) == SumFunctionOnSet(allowed[k], interval \cap Times)

(* Wherever a window's length of time is laid, no more than twice the      *)
(* limit goes through in it: windows are fixed, so a client may use up one *)
(* at its end and the next at its beginning, but never a third; and the    *)
(* timer that forgets windows opens none early.  A client that kept away   *)
(* for a whole window is let in.                                           *)
AtMostTwiceTheLimit ==
  \A k \in Keys :
    /\ \A t \in Times : AllowedIn(k, t .. t + WindowMs) <= 2 * MaxRequests
    /\ asked[k][now] > 0 /\ (\A t \in (now - WindowMs - 1 .. now - 1) \cap Times : asked[k][t] = 0)
         => allowed[k][now] > 0
=============================================================================
