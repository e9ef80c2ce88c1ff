----------------------------- MODULE MCWebApp -----------------------------
(* Small instances of the parts of WebApp.                                 *)
EXTENDS WebApp, TLC

CONSTANTS f1, f2, r1, r2, m1, m2, c1, c2, c3, s1, s2

MCFiles      == <<m1, m2>>
MCRepeatable == {m2}
MCFixtures   == {f1, f2}
MCCalls      == {c1, c2, c3}
MCSlots      == {s1, s2}

(* Smaller than the limits of the code, in the same order, and each within *)
(* reach of the rows the bounds allow.                                     *)
MCLimits == [checksOf |-> 2, snapsOf |-> 1, rows |-> 1]

(* Each kind of request alone, and a pair for each shared cache key.       *)
Question(s, k, w) == [server |-> s, kind |-> k, of |-> f1, filter |-> w]
Uncached == {Question(s, k, "all") : s \in {"backend", "web"}, k \in {"oracle", "match"}}
       \cup {Question(s, "list", w) : s \in {"backend", "web"}, w \in {"all", "flagged", "consistent"}}
MCScenarios == {(r1 :> q) : q \in Uncached}
       \cup {(r1 :> Question("backend", k, "all")) @@ (r2 :> Question("web", k, "all")) :
               k \in {"overview", "health"}}

(* Equal odds of two fixtures, a market no covering set covers, an update  *)
(* without markets, and what the routes are sent.                          *)
Update(v, f, o, flagged, covered) ==
  [via |-> v, fixture |-> f, odds |-> o, flagged |-> flagged, covered |-> covered]
MCUpdates == <<Update("stream", f1, 1, TRUE, TRUE), Update("stream", f2, 1, TRUE, TRUE),
            Update("stream", f1, 2, FALSE, TRUE), Update("stream", f1, 3, TRUE, FALSE),
            Update("stream", f1, None, FALSE, FALSE),
            Update("webhook", f1, 1, TRUE, TRUE), Update("webhook", f1, 1, TRUE, FALSE),
            Update("check", f1, 1, TRUE, TRUE), Update("submit", f1, 1, TRUE, TRUE)>>

(* Three updates of the stream, at most two of them flagged; or two and a  *)
(* request, one of the three flagged.  Calls differ in nothing else, so    *)
(* each choice of three comes in one order.                                *)
Load(t) == (c1 :> MCUpdates[t[1]]) @@ (c2 :> MCUpdates[t[2]]) @@ (c3 :> MCUpdates[t[3]])
MCLoads ==
  LET Requests(l) == {c \in MCCalls : l[c].via # "stream"}
  IN  {l \in {Load(t) : t \in {u \in [1 .. 3 -> DOMAIN MCUpdates] : u[1] < u[2] /\ u[2] < u[3]}} :
         /\ Cardinality(Requests(l)) <= 1
         /\ Cardinality({c \in MCCalls : l[c].flagged}) <= 2 - Cardinality(Requests(l))}

(* The tables of the migrations; those of the checks adapted; all of them. *)
MCMigrated == {{}}
MCSchemas  == {{}, {"odds_snapshots", "consistency_checks"},
               {"odds_snapshots", "consistency_checks", "proof_log"}}

Symmetry == Permutations(MCSlots)
=============================================================================
