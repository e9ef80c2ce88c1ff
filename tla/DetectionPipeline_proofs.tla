---------------------- MODULE DetectionPipeline_proofs ----------------------
(***************************************************************************)
(* The safety properties of the detection pipeline for any fixtures,       *)
(* market sets, calls and faults.                                          *)
(*                                                                         *)
(* One invariant per question, each on top of the one before:              *)
(*   TypeOK       the variables' types                                     *)
(*   RecordedInv  what a call has stored by the await it stands at         *)
(*   ClaimInv     a key between its claim and its row has one holder       *)
(*   LedgerInv    a row's job is added once                                *)
(*   AccountInv   who owes the check of a key                              *)
(*   ExaminedInv  what a call has passed in its loop is claimed            *)
(* ClaimInv, LedgerInv and ExaminedInv need that no dedup key expires.     *)
(***************************************************************************)
EXTENDS DetectionPipeline, TLAPS

(* Whatever an update quotes, the loop visits places of the two constants, *)
(* and the key it builds there is a key.                                   *)
LEMMA PlacesAndKeys ==
  ASSUME NEW u \in Updates, NEW i \in Available(u)
  PROVE  i \in Places /\ KeyAt(u, i) \in Keys
<1> USE PipelineAssumption
<1>1. /\ SetsToCheck(u) \in Seq(MarketSets)
      /\ Len(SetsToCheck(u)) <= Len(SingleOutcomeSets \o CoveringSets)
  BY DEF SetsToCheck
<1>2. i \in 1 .. Len(SetsToCheck(u))
  BY <1>1 DEF Available
<1>3. SetsToCheck(u)[i] \in MarketSets
  BY <1>1, <1>2
<1>4. Len(SingleOutcomeSets \o CoveringSets) \in Nat
  OBVIOUS
<1>5. u.fixture \in Fixtures /\ u.hash \in Hashes
  OBVIOUS
<1>6. i \in Places
  BY <1>1, <1>2, <1>4 DEF Places
<1>7. KeyAt(u, i) \in Keys
  BY <1>3, <1>5 DEF KeyAt, Keys
<1> QED BY <1>6, <1>7

(* The loop moves to an available place or past its end, and moves no      *)
(* other call.                                                             *)
LEMMA NextSetMoves ==
  ASSUME NEW d \in Deliveries, NEW u \in Updates, NEW i, NextSet(d, u, i),
         pc \in [Deliveries -> PCs], pos \in [Deliveries -> Nat]
  PROVE  /\ pc' \in [Deliveries -> PCs]
         /\ pos' \in [Deliveries -> Nat]
         /\ \A e \in Deliveries \ {d} : pc'[e] = pc[e] /\ pos'[e] = pos[e]
         /\ \/ pc'[d] = "cache" /\ pos' = pos
            \/ pc'[d] = "claim" /\ pos'[d] \in Available(u)
<1>1. \A j \in Available(u) : j \in Nat
  BY PlacesAndKeys DEF Places
<1> QED BY <1>1 DEF NextSet, PCs, Awaits
-----------------------------------------------------------------------------
(* Type correctness *)

(* The initial state is well typed. *)
LEMMA TypeInit == Init => TypeOK
  BY PipelineAssumption DEF Init, TypeOK, PCs, Awaits

(* A step of one call that moves its program counter within the iteration. *)
LEMMA TypeGoto ==
  ASSUME TypeOK, NEW d \in Deliveries, NEW l \in PCs \ {"idle", "claim"}, Goto(d, l),
         pc[d] \in Awaits,
         l \in {"snapshot", "check", "log", "publish", "latest", "add"} => pc[d] # "cache"
  PROVE  /\ pc' \in [Deliveries -> PCs]
         /\ upd' \in [Deliveries -> Updates \cup {None}]
         /\ pos' \in [Deliveries -> Nat]
         /\ \A e \in Deliveries :
              /\ pc'[e] # "idle" => upd'[e] \in Updates
              /\ pc'[e] \in Awaits \ {"cache"} => pos'[e] \in Available(upd'[e])
  BY DEF TypeOK, Goto, PCs, Awaits

(* Moving past a place, the call stays at an available one or leaves the   *)
(* loop.                                                                   *)
LEMMA TypeNextSet ==
  ASSUME TypeOK, NEW d \in Deliveries, pc[d] \in Awaits,
         NextSet(d, upd[d], pos[d]), upd' = upd
  PROVE  /\ pc' \in [Deliveries -> PCs]
         /\ pos' \in [Deliveries -> Nat]
         /\ \A e \in Deliveries :
              /\ pc'[e] # "idle" => upd'[e] \in Updates
              /\ pc'[e] \in Awaits \ {"cache"} => pos'[e] \in Available(upd'[e])
<1>1. upd[d] \in Updates
  BY DEF TypeOK, Awaits
<1> QED BY <1>1, NextSetMoves DEF TypeOK

(* Every step keeps the types, action by action. *)
LEMMA TypeNext == TypeOK /\ [Next]_vars => TypeOK'
<1> SUFFICES ASSUME TypeOK, [Next]_vars PROVE TypeOK'
  OBVIOUS
<1> DEFINE Calls == /\ pc \in [Deliveries -> PCs]
                    /\ upd \in [Deliveries -> Updates \cup {None}]
                    /\ pos \in [Deliveries -> Nat]
                    /\ \A d \in Deliveries :
                         /\ pc[d] # "idle" => upd[d] \in Updates
                         /\ pc[d] \in Awaits \ {"cache"} => pos[d] \in Available(upd[d])
<1>1. ASSUME NEW d \in Deliveries, pc[d] \in Awaits \ {"cache"}
      PROVE  Key(d) \in Keys /\ Id(d) \in Ids
  BY <1>1, PlacesAndKeys DEF TypeOK, Key, Id, Ids, Awaits
<1>2. ASSUME NEW d \in Deliveries, NEW u \in Updates, Receive(d, u) PROVE TypeOK'
  <2>1. /\ pc' \in [Deliveries -> PCs]
        /\ pos' \in [Deliveries -> Nat]
        /\ \A e \in Deliveries \ {d} : pc'[e] = pc[e] /\ pos'[e] = pos[e]
        /\ \/ pc'[d] = "cache"
           \/ pc'[d] = "claim" /\ pos'[d] \in Available(u)
    BY <1>2, NextSetMoves DEF Receive, TypeOK
  <2>2. upd' = [upd EXCEPT ![d] = u] /\ upd \in [Deliveries -> Updates \cup {None}]
    BY <1>2 DEF Receive, TypeOK
  <2>3. Calls'
    BY <2>1, <2>2 DEF TypeOK
  <2> QED BY <1>2, <2>3 DEF TypeOK, Receive, redisVars, tableVars, queueVars, bounds
<1>3. ASSUME NEW d \in Deliveries, Claim(d) PROVE TypeOK'
  BY <1>1, <1>3, TypeGoto DEF Claim, TypeOK, tableVars, queueVars, bounds, PCs, Awaits
<1>4. ASSUME NEW d \in Deliveries, Skip(d) PROVE TypeOK'
  BY <1>4, TypeNextSet DEF Skip, TypeOK, redisVars, tableVars, queueVars, bounds, Awaits
<1>4a. ASSUME NEW d \in Deliveries, ClaimResent(d) PROVE TypeOK'
  BY <1>1, <1>4a, TypeNextSet DEF ClaimResent, TypeOK, tableVars, bounds, Awaits
<1>5. ASSUME NEW d \in Deliveries, InsertSnapshot(d) \/ UnknownFixture(d) PROVE TypeOK'
  BY <1>1, <1>5, TypeGoto
  DEF InsertSnapshot, UnknownFixture, TypeOK, redisVars, tableVars, queueVars, bounds, PCs, Awaits
<1>6. ASSUME NEW d \in Deliveries, InsertCheck(d) \/ InsertProof(d) PROVE TypeOK'
  BY <1>1, <1>6, TypeGoto
  DEF InsertCheck, InsertProof, TypeOK, redisVars, queueVars, bounds, PCs, Awaits
<1>7. ASSUME NEW d \in Deliveries, Publish(d) \/ SetLatest(d) PROVE TypeOK'
  BY <1>1, <1>7, TypeGoto
  DEF Publish, SetLatest, TypeOK, tableVars, queueVars, bounds, PCs, Awaits
<1>8. ASSUME NEW d \in Deliveries, QueueAdd(d) PROVE TypeOK'
  BY <1>1, <1>8, TypeNextSet DEF QueueAdd, TypeOK, redisVars, tableVars, bounds, Awaits
<1>9. ASSUME NEW d \in Deliveries, SetOdds(d) PROVE TypeOK'
  BY <1>9, PipelineAssumption, TypeGoto DEF SetOdds, TypeOK, tableVars, queueVars, bounds, PCs, Awaits
<1>10. ASSUME NEW d \in Deliveries, Abort(d) PROVE TypeOK'
  BY <1>10, TypeGoto
  DEF Abort, Running, TypeOK, redisVars, tableVars, queueVars, bounds, PCs, Awaits
<1>11. ASSUME NEW id \in adding, JobAdded(id) PROVE TypeOK'
  BY <1>11 DEF JobAdded, TypeOK, redisVars, tableVars, callVars, bounds
<1>12. ASSUME NEW calls, Crash(calls) PROVE TypeOK'
  <2>1. /\ adding' \subseteq adding /\ lost' \subseteq lost \cup adding
        /\ crashes' \in Nat
    BY <1>12 DEF Crash, TypeOK
  <2>2. /\ pc' \in [Deliveries -> PCs]
        /\ \A d \in Deliveries : pc'[d] = pc[d] \/ (pc[d] \in Awaits /\ pc'[d] = "aborted")
    <3>1. pc' = [d \in Deliveries |->
                   IF d \in calls /\ pc[d] \in Awaits THEN "aborted" ELSE pc[d]]
      BY <1>12 DEF Crash, Running
    <3>2. pc \in [Deliveries -> PCs] /\ "aborted" \in PCs
      BY DEF TypeOK, PCs
    <3> QED BY <3>1, <3>2
  <2>3. Calls'
    BY <1>12, <2>2 DEF Crash, TypeOK, Awaits
  <2> QED BY <1>12, <2>1, <2>3 DEF Crash, TypeOK, redisVars, tableVars
<1>13. ASSUME NEW k \in dedup, ExpireKey(k) PROVE TypeOK'
  BY <1>13 DEF ExpireKey, TypeOK, tableVars, queueVars, callVars
<1>14. ASSUME NEW f \in Fixtures, SyncFixture(f) PROVE TypeOK'
  BY <1>14 DEF SyncFixture, TypeOK, redisVars, queueVars, callVars, bounds
<1>15. CASE UNCHANGED vars
  BY <1>15 DEF vars, redisVars, tableVars, queueVars, callVars, bounds, TypeOK
<1> QED BY <1>2, <1>3, <1>4, <1>5, <1>6, <1>7, <1>8, <1>9, <1>10, <1>11, <1>12,
           <1>13, <1>14, <1>15, <1>4a
        DEF Next, Step

(* Every variable keeps to its type, for any fixtures, market sets, calls  *)
(* and numbers of crashes and expiries.                                    *)
THEOREM TypeCorrect == Spec => []TypeOK
  BY TypeInit, TypeNext, PTL DEF Spec

-----------------------------------------------------------------------------
(* What a step does to one call, and to the sets of rows and jobs.  The    *)
(* invariants below are proved from these two lemmas instead of from the   *)
(* actions one by one.                                                     *)

Stays(d) == pc'[d] = pc[d] /\ pos'[d] = pos[d] /\ upd'[d] = upd[d]

Works(d) ==
  \/ Claim(d) \/ InsertSnapshot(d) \/ InsertCheck(d) \/ InsertProof(d)
  \/ Publish(d) \/ SetLatest(d)

Moves(d) ==
  /\ pc'[d] # "idle" \/ pc[d] = "idle"
  /\ upd'[d] = upd[d] \/ pc[d] = "idle"
  /\ \/ Stays(d)
     \/ Works(d)
     \/ /\ pc'[d] \in {"claim", "cache"}
        /\ Skip(d) \/ ClaimResent(d) \/ QueueAdd(d) \/ \E u \in Updates : Receive(d, u)
     \/ pc'[d] = "done" /\ pc[d] = "cache"
     \/ pc'[d] = "aborted" /\ pc[d] \in Awaits /\ pos'[d] = pos[d]

(* Every step moves every call in one of these ways, most calls not at all. *)
LEMMA CallSteps ==
  ASSUME TypeOK, [Next]_vars
  PROVE  \A d \in Deliveries : Moves(d)
<1>1. ASSUME NEW d \in Deliveries, NEW l \in PCs, Goto(d, l)
      PROVE  /\ pc'[d] = l /\ pos'[d] = pos[d] /\ upd'[d] = upd[d]
             /\ \A e \in Deliveries \ {d} : Stays(e)
  BY <1>1 DEF Goto, TypeOK, Stays
<1>2. ASSUME NEW d \in Deliveries, pc[d] \in Awaits,
             NextSet(d, upd[d], pos[d]), upd' = upd
      PROVE  /\ pc'[d] \in {"claim", "cache"}
             /\ \A e \in Deliveries \ {d} : Stays(e)
  <2>1. upd[d] \in Updates
    BY <1>2 DEF TypeOK, Awaits
  <2> QED BY <1>2, <2>1, NextSetMoves DEF TypeOK, Stays
<1>3. ASSUME NEW d \in Deliveries, NEW u \in Updates, Receive(d, u)
      PROVE  \A e \in Deliveries : Moves(e)
  <2>1. /\ pc'[d] \in {"claim", "cache"}
        /\ \A e \in Deliveries \ {d} : pc'[e] = pc[e] /\ pos'[e] = pos[e]
    BY <1>3, NextSetMoves DEF TypeOK, Receive
  <2>2. \A e \in Deliveries \ {d} : Stays(e)
    BY <1>3, <2>1 DEF Receive, TypeOK, Stays
  <2> QED BY <1>3, <2>1, <2>2 DEF Receive, Moves, Stays
<1>4. ASSUME NEW d \in Deliveries, Works(d) PROVE \A e \in Deliveries : Moves(e)
  <2>1. PICK l \in Awaits : Goto(d, l)
    BY <1>4 DEF Works, Claim, InsertSnapshot, InsertCheck, InsertProof, Publish, SetLatest, Awaits
  <2>2. pc'[d] = l /\ upd'[d] = upd[d] /\ \A e \in Deliveries \ {d} : Stays(e)
    BY <1>1, <2>1 DEF PCs
  <2> QED BY <1>4, <2>2 DEF Moves, Stays, Awaits
<1>5. ASSUME NEW d \in Deliveries, Skip(d) \/ ClaimResent(d) \/ QueueAdd(d)
      PROVE  \A e \in Deliveries : Moves(e)
  BY <1>2, <1>5 DEF Skip, ClaimResent, QueueAdd, Moves, Stays, Awaits
<1>6. ASSUME NEW d \in Deliveries, UnknownFixture(d) \/ SetOdds(d) \/ Abort(d)
      PROVE  \A e \in Deliveries : Moves(e)
  <2>1. /\ pc[d] \in Awaits
        /\ Goto(d, "aborted") \/ (pc[d] = "cache" /\ Goto(d, "done"))
    BY <1>6 DEF UnknownFixture, SetOdds, Abort, Running, Awaits
  <2> QED BY <1>1, <2>1 DEF Moves, Stays, PCs, Awaits
<1>7. ASSUME NEW calls, Crash(calls) PROVE \A e \in Deliveries : Moves(e)
  <2>1. /\ pc' = [d \in Deliveries |->
                   IF d \in calls /\ pc[d] \in Awaits THEN "aborted" ELSE pc[d]]
        /\ upd' = upd /\ pos' = pos
    BY <1>7 DEF Crash, Running
  <2>2. \A e \in Deliveries : pc'[e] = pc[e] \/ (pc'[e] = "aborted" /\ pc[e] \in Awaits)
    BY <2>1
  <2> QED BY <2>1, <2>2 DEF Moves, Stays, Awaits
<1>8. ASSUME UNCHANGED callVars PROVE \A e \in Deliveries : Moves(e)
  BY <1>8 DEF callVars, Moves, Stays
<1> QED
  BY <1>3, <1>4, <1>5, <1>6, <1>7, <1>8
  DEF Next, Step, Works, JobAdded, ExpireKey, SyncFixture, vars

(* Rows and jobs only grow, each set by one action; the queue.add calls    *)
(* under way and the jobs together gain a check only from QueueAdd.        *)
LEMMA SetSteps ==
  ASSUME TypeOK, [Next]_vars
  PROVE  /\ snapshots \subseteq snapshots' /\ logged \subseteq logged'
         /\ jobs \subseteq jobs' /\ lost \subseteq lost'
         /\ checks' = checks \/ \E d \in Deliveries : InsertCheck(d)
         /\ published' = published \/ \E d \in Deliveries : Publish(d)
         /\ adding' \cup jobs' \subseteq adding \cup jobs \/ \E d \in Deliveries : QueueAdd(d)
         /\ adding \cup jobs \cup lost \subseteq adding' \cup jobs' \cup lost'
         /\ dropped \subseteq dropped'
         /\ latest' = latest \/ \E d \in Deliveries : SetLatest(d)
<1>1. ASSUME NEW d \in Deliveries, NEW u \in Updates, Receive(d, u)
      PROVE  UNCHANGED <<redisVars, tableVars, queueVars>>
  BY <1>1 DEF Receive
<1>2. ASSUME NEW d \in Deliveries, Claim(d) PROVE UNCHANGED <<published, latest, tableVars, queueVars>>
  BY <1>2 DEF Claim
<1>3. ASSUME NEW d \in Deliveries, InsertSnapshot(d)
      PROVE  snapshots \subseteq snapshots' /\ UNCHANGED <<redisVars, checks, logged, queueVars>>
  BY <1>3 DEF InsertSnapshot
<1>4. ASSUME NEW d \in Deliveries, InsertCheck(d)
      PROVE  UNCHANGED <<redisVars, snapshots, logged, queueVars>>
  BY <1>4 DEF InsertCheck
<1>5. ASSUME NEW d \in Deliveries, InsertProof(d)
      PROVE  logged \subseteq logged' /\ UNCHANGED <<redisVars, snapshots, checks, queueVars>>
  BY <1>5 DEF InsertProof
<1>6. ASSUME NEW d \in Deliveries, Publish(d) PROVE UNCHANGED <<latest, tableVars, queueVars>>
  BY <1>6 DEF Publish
<1>7. ASSUME NEW d \in Deliveries, SetLatest(d) PROVE UNCHANGED <<published, tableVars, queueVars>>
  BY <1>7 DEF SetLatest
<1>8. ASSUME NEW d \in Deliveries, QueueAdd(d)
      PROVE  adding \subseteq adding' /\ UNCHANGED <<redisVars, tableVars, jobs, lost, dropped>>
  BY <1>8 DEF QueueAdd
<1>9. ASSUME NEW d \in Deliveries, Skip(d) \/ UnknownFixture(d) \/ SetOdds(d) \/ Abort(d)
      PROVE  UNCHANGED <<published, latest, tableVars, queueVars>>
  BY <1>9 DEF Skip, UnknownFixture, SetOdds, Abort, redisVars
<1>10. ASSUME NEW id \in adding, JobAdded(id)
       PROVE  /\ jobs' = jobs \cup {id} /\ adding' = adding \ {id} /\ lost' = lost
              /\ UNCHANGED <<redisVars, tableVars, dropped>>
  BY <1>10 DEF JobAdded
<1>11. ASSUME NEW calls, Crash(calls)
       PROVE  /\ adding' \subseteq adding /\ jobs' = jobs
              /\ lost' = lost \cup (adding \ adding')
              /\ UNCHANGED <<redisVars, tableVars, dropped>>
  BY <1>11 DEF Crash
<1>12. ASSUME NEW k \in dedup, ExpireKey(k)
       PROVE  UNCHANGED <<published, latest, tableVars, queueVars>>
  BY <1>12 DEF ExpireKey
<1>13. ASSUME NEW f \in Fixtures, SyncFixture(f)
       PROVE  UNCHANGED <<redisVars, snapshots, checks, logged, queueVars>>
  BY <1>13 DEF SyncFixture
<1>9a. ASSUME NEW d \in Deliveries, ClaimResent(d)
       PROVE  dropped \subseteq dropped' /\ UNCHANGED <<published, latest, tableVars, adding, jobs, lost>>
  BY <1>9a DEF ClaimResent
<1> USE DEF redisVars, tableVars, queueVars
<1>14. CASE \E d \in Deliveries : Step(d)
  BY <1>14, <1>2, <1>3, <1>4, <1>5, <1>6, <1>7, <1>8, <1>9 DEF Step
<1>15. CASE \E d \in Deliveries : (\E u \in Updates : Receive(d, u)) \/ ClaimResent(d) \/ Abort(d)
  BY <1>15, <1>1, <1>9, <1>9a
<1>16. CASE UNCHANGED vars
  BY <1>16 DEF vars
<1> QED BY <1>10, <1>11, <1>12, <1>13, <1>14, <1>15, <1>16 DEF Next

-----------------------------------------------------------------------------
(* Jobs are recorded: what a call has stored by the await it stands at.    *)

Progress(d) ==
  /\ pc[d] \in {"check", "log", "publish", "latest", "add"} => Key(d) \in snapshots
  /\ pc[d] \in {"log", "publish", "latest", "add"} => Id(d) \in checks
  /\ pc[d] \in {"publish", "latest", "add"} /\ Key(d) \in Flagged => Id(d) \in logged
  /\ pc[d] \in {"latest", "add"} => Id(d) \in published

(* A row belongs to a call that started, at a place of that call's update: *)
(* its key never changes again.                                            *)
RowsOwned ==
  /\ published \subseteq checks
  /\ \A id \in checks : pc[id[1]] # "idle" /\ id[2] \in Available(upd[id[1]])

RecordedInv ==
  /\ TypeOK /\ RowsOwned /\ JobIsRecorded /\ LatestIsPublished
  /\ \A d \in Deliveries : Progress(d)

(* At the start nothing is stored and no call has begun. *)
LEMMA RecordedInit == Init => RecordedInv
<1> SUFFICES ASSUME Init PROVE RecordedInv
  OBVIOUS
<1>1. TypeOK
  BY TypeInit
<1>2. RowsOwned /\ JobIsRecorded /\ LatestIsPublished
  BY DEF Init, RowsOwned, JobIsRecorded, LatestIsPublished
<1>3. \A d \in Deliveries : Progress(d)
  BY DEF Init, Progress
<1> QED BY <1>1, <1>2, <1>3 DEF RecordedInv

(* The key of a row that exists survives every step. *)
LEMMA KeysStay ==
  ASSUME RecordedInv, [Next]_vars, NEW id \in checks
  PROVE  /\ KeyOf(id)' = KeyOf(id)
         /\ id[1] \in Deliveries /\ upd'[id[1]] = upd[id[1]] /\ pc'[id[1]] # "idle"
<1>1. id[1] \in Deliveries
  BY DEF RecordedInv, TypeOK, Ids
<1>2. upd'[id[1]] = upd[id[1]] /\ pc'[id[1]] # "idle"
  BY <1>1, CallSteps DEF RecordedInv, RowsOwned, Moves
<1> QED BY <1>1, <1>2 DEF KeyOf, KeyAt, SetsToCheck

(* A call keeps what it has stored, and stores before it moves on. *)
LEMMA ProgressNext ==
  ASSUME RecordedInv, [Next]_vars, NEW d \in Deliveries
  PROVE  Progress(d)'
<1> USE DEF RecordedInv, Progress
<1>1. /\ snapshots \subseteq snapshots' /\ checks \subseteq checks'
      /\ logged \subseteq logged' /\ published \subseteq published'
  BY SetSteps DEF InsertCheck, Publish
<1>2. CASE Stays(d)
  BY <1>1, <1>2 DEF Stays, Key, Id, KeyAt, SetsToCheck
<1>3. CASE pc'[d] \in {"claim", "cache", "done", "aborted"}
  BY <1>3
<1>4. CASE Works(d)
  <2>1. pc[d] \in Awaits /\ Key(d)' = Key(d) /\ Id(d)' = Id(d)
    BY <1>4 DEF Works, Claim, InsertSnapshot, InsertCheck, InsertProof, Publish, SetLatest,
                Goto, Awaits, Key, Id, KeyAt, SetsToCheck
  <2>2. CASE Claim(d)
    BY <2>2 DEF Claim, Goto, TypeOK
  <2>3. CASE InsertSnapshot(d)
    BY <2>1, <2>3 DEF InsertSnapshot, Goto, TypeOK
  <2>4. CASE InsertCheck(d)
    BY <1>1, <2>1, <2>4 DEF InsertCheck, Goto, TypeOK
  <2>5. CASE InsertProof(d)
    BY <1>1, <2>1, <2>5 DEF InsertProof, Goto, TypeOK
  <2>6. CASE Publish(d)
    BY <1>1, <2>1, <2>6 DEF Publish, Goto, TypeOK
  <2>7. CASE SetLatest(d)
    BY <1>1, <2>1, <2>7 DEF SetLatest, Goto, TypeOK
  <2> QED BY <1>4, <2>2, <2>3, <2>4, <2>5, <2>6, <2>7 DEF Works
<1> QED BY <1>2, <1>3, <1>4, CallSteps DEF Moves

(* Every step keeps the rows, the jobs and proof:latest consistent. *)
LEMMA RecordedNext == RecordedInv /\ [Next]_vars => RecordedInv'
<1> SUFFICES ASSUME RecordedInv, [Next]_vars PROVE RecordedInv'
  OBVIOUS
<1>1. TypeOK'
  BY TypeNext DEF RecordedInv
<1>2. /\ snapshots \subseteq snapshots' /\ checks \subseteq checks'
      /\ logged \subseteq logged' /\ published \subseteq published'
  BY SetSteps DEF RecordedInv, InsertCheck, Publish
<1>3. ASSUME NEW d \in Deliveries, InsertCheck(d) \/ Publish(d) \/ SetLatest(d) \/ QueueAdd(d)
      PROVE  /\ KeyOf(Id(d)) = Key(d) /\ upd' = upd
             /\ pc[d] # "idle" /\ Id(d)[1] = d /\ pos[d] \in Available(upd[d])
  BY <1>3 DEF InsertCheck, Publish, SetLatest, QueueAdd, Goto, RecordedInv, TypeOK, Awaits,
              KeyOf, Key, Id
<1>4. RowsOwned'
  <2>1. ASSUME NEW id \in checks
        PROVE  pc'[id[1]] # "idle" /\ id[2] \in Available(upd[id[1]])'
    <3>1. /\ upd'[id[1]] = upd[id[1]] /\ pc'[id[1]] # "idle"
          /\ id[2] \in Available(upd[id[1]])
      BY KeysStay DEF RecordedInv, RowsOwned
    <3> QED BY <3>1 DEF Available, SetsToCheck
  <2>2. ASSUME NEW d \in Deliveries, InsertCheck(d)
        PROVE  /\ checks' = checks \cup {Id(d)} /\ published' = published
               /\ pc'[d] # "idle" /\ pos[d] \in Available(upd[d])'
    <3>1. pc'[d] # "idle"
      BY <1>3, <2>2, CallSteps DEF RecordedInv, Moves
    <3>2. Available(upd[d])' = Available(upd[d])
      BY <1>3, <2>2 DEF Available, SetsToCheck
    <3> QED BY <1>3, <2>2, <3>1, <3>2 DEF InsertCheck, redisVars
  <2>3. published' \subseteq checks'
    <3>1. ASSUME NEW d \in Deliveries, Publish(d)
          PROVE  published' = published \cup {Id(d)} /\ Id(d) \in checks
      BY <3>1 DEF Publish, RecordedInv, Progress
    <3> QED BY <1>2, <3>1, SetSteps DEF RecordedInv, RowsOwned
  <2>4. ASSUME NEW d \in Deliveries, InsertCheck(d)
        PROVE  \A id \in checks' : pc'[id[1]] # "idle" /\ id[2] \in Available(upd[id[1]])'
    BY <2>1, <2>2, <2>4 DEF Id
  <2> QED BY <2>1, <2>3, <2>4, SetSteps DEF RecordedInv, RowsOwned
<1>5. JobIsRecorded'
  <2>1. ASSUME NEW id \in adding \cup jobs
        PROVE  /\ id \in checks' /\ id \in published' /\ KeyOf(id)' \in snapshots'
               /\ KeyOf(id)' \in Flagged => id \in logged'
    BY <1>2, KeysStay DEF RecordedInv, JobIsRecorded
  <2>2. ASSUME NEW d \in Deliveries, QueueAdd(d)
        PROVE  /\ adding' \cup jobs' = adding \cup jobs \cup {Id(d)}
               /\ Id(d) \in checks /\ Id(d) \in published /\ KeyOf(Id(d)) \in snapshots
               /\ KeyOf(Id(d)) \in Flagged => Id(d) \in logged
    BY <1>3, <2>2 DEF QueueAdd, RecordedInv, Progress
  <2>3. ASSUME NEW d \in Deliveries, QueueAdd(d) PROVE JobIsRecorded'
    <3>1. PICK id \in checks : id = Id(d)
      BY <2>2, <2>3
    <3>2. /\ id \in checks' /\ id \in published' /\ KeyOf(id)' \in snapshots'
          /\ KeyOf(id)' \in Flagged => id \in logged'
      BY <1>2, <2>2, <2>3, <3>1, KeysStay
    <3> QED BY <2>1, <2>2, <2>3, <3>1, <3>2 DEF JobIsRecorded
  <2> QED BY <2>1, <2>3, SetSteps DEF RecordedInv, JobIsRecorded
<1>6. LatestIsPublished'
  <2>1. ASSUME NEW f \in Fixtures, latest[f] # None
        PROVE  latest[f] \in published' /\ upd'[latest[f][1]].fixture = f
    BY <1>2, <2>1, KeysStay DEF RecordedInv, RowsOwned, LatestIsPublished
  <2>2. ASSUME NEW d \in Deliveries, SetLatest(d)
        PROVE  /\ latest' = [latest EXCEPT ![upd[d].fixture] = Id(d)]
               /\ Id(d) \in published /\ upd' = upd /\ Id(d)[1] = d
    BY <1>3, <2>2 DEF SetLatest, RecordedInv, Progress
  <2>3. latest \in [Fixtures -> Ids \cup {None}]
    BY DEF RecordedInv, TypeOK
  <2> QED BY <1>2, <2>1, <2>2, <2>3, SetSteps DEF RecordedInv, LatestIsPublished
<1>7. \A d \in Deliveries : Progress(d)'
  BY ProgressNext
<1> QED BY <1>1, <1>4, <1>5, <1>6, <1>7 DEF RecordedInv

(* The invariant of the rows holds in every reachable state. *)
LEMMA RecordedHolds == Spec => []RecordedInv
  BY RecordedInit, RecordedNext, PTL DEF Spec

(* Whatever interleaves, fails or expires, a job in the queue names a      *)
(* check that is stored with all its rows and announced.                   *)
THEOREM JobsRecorded == Spec => []JobIsRecorded
  BY RecordedHolds, PTL DEF RecordedInv

(* proof:latest:<fixture> shows only announced checks of that fixture. *)
THEOREM LatestPublished == Spec => []LatestIsPublished
  BY RecordedHolds, PTL DEF RecordedInv

-----------------------------------------------------------------------------
(* One check per snapshot, as long as no dedup key expires.  A key has one *)
(* holder: between its claim and its row no other call stands there and no *)
(* row has it; afterwards the row keeps every other call out, through the  *)
(* dedup key.                                                              *)

Holds(d) == pc[d] \in {"snapshot", "check"}

Sole(d) ==
  /\ Key(d) \in dedup
  /\ \A id \in checks : KeyOf(id) # Key(d)
  /\ \A e \in Deliveries : Holds(e) /\ Key(e) = Key(d) => e = d

ClaimInv ==
  /\ RecordedInv /\ OneCheckPerSnapshot
  /\ \A id \in checks : KeyOf(id) \in dedup
  /\ \A d \in Deliveries : Holds(d) => Sole(d)

(* At the start no key is claimed. *)
LEMMA ClaimInit == Init => ClaimInv
  BY RecordedInit DEF Init, ClaimInv, OneCheckPerSnapshot, Holds

(* Without expiries only a claim changes the dedup keys, and it adds one. *)
LEMMA DedupSteps ==
  ASSUME MaxExpiries = 0, TypeOK, [Next]_vars
  PROVE  dedup' = dedup \/ \E d \in Deliveries : Claim(d) \/ ClaimResent(d)
<1>1. ASSUME NEW k \in dedup, ExpireKey(k) PROVE FALSE
  BY <1>1 DEF ExpireKey, TypeOK
<1> QED
  BY <1>1
  DEF Next, Step, Receive, Skip, InsertSnapshot, UnknownFixture, InsertCheck, InsertProof,
      Publish, SetLatest, QueueAdd, SetOdds, Abort, JobAdded, Crash, SyncFixture,
      vars, redisVars

(* Only the call that claims can come to hold a key. *)
LEMMA HoldSteps ==
  ASSUME RecordedInv, [Next]_vars, NEW d \in Deliveries, Holds(d)'
  PROVE  /\ Key(d)' = Key(d)
         /\ Holds(d) \/ Claim(d)
<1>1. Stays(d) \/ Works(d)
  BY CallSteps DEF RecordedInv, Moves, Holds
<1>2. CASE Stays(d)
  BY <1>2 DEF Stays, Holds, Key, KeyAt, SetsToCheck
<1>3. CASE Works(d)
  BY <1>3 DEF Works, Claim, InsertSnapshot, InsertCheck, InsertProof, Publish, SetLatest,
              Goto, Holds, Key, KeyAt, SetsToCheck, RecordedInv, TypeOK
<1> QED BY <1>1, <1>2, <1>3

(* Every step keeps the keys' sole holders. *)
LEMMA ClaimNext ==
  ASSUME MaxExpiries = 0, ClaimInv, [Next]_vars
  PROVE  ClaimInv'
<1>1. RecordedInv /\ RecordedInv'
  BY RecordedNext DEF ClaimInv
<1>2. TypeOK
  BY <1>1 DEF RecordedInv
<1>3. dedup \subseteq dedup'
  BY <1>2, DedupSteps DEF Claim, ClaimResent
<1>4. ASSUME NEW id \in checks PROVE KeyOf(id)' = KeyOf(id) /\ KeyOf(id)' \in dedup'
  BY <1>1, <1>3, KeysStay DEF ClaimInv
<1>5. ASSUME NEW d \in Deliveries, Claim(d) PROVE ClaimInv'
  <2>1. /\ checks' = checks /\ dedup' = dedup \cup {Key(d)} /\ Key(d) \notin dedup
        /\ pc' = [pc EXCEPT ![d] = "snapshot"] /\ upd' = upd /\ pos' = pos
    BY <1>5 DEF Claim, SetNX, Goto, tableVars
  <2>2. \A e \in Deliveries : Key(e)' = Key(e)
    BY <2>1 DEF Key, KeyAt, SetsToCheck
  <2>3. \A e \in Deliveries : Holds(e)' => Holds(e) \/ e = d
    BY <1>2, <2>1 DEF Holds, TypeOK
  <2>4. ASSUME NEW e \in Deliveries, Holds(e)' PROVE Sole(e)'
    BY <1>4, <2>1, <2>2, <2>3, <2>4 DEF ClaimInv, Sole
  <2> QED BY <1>1, <1>4, <2>1, <2>4 DEF ClaimInv, OneCheckPerSnapshot
<1>6. ASSUME NEW d \in Deliveries, InsertCheck(d) PROVE ClaimInv'
  <2>1. /\ checks' = checks \cup {Id(d)} /\ dedup' = dedup /\ upd' = upd /\ pos' = pos
        /\ Holds(d) /\ ~Holds(d)' /\ \A e \in Deliveries \ {d} : Holds(e)' => Holds(e)
    BY <1>2, <1>6 DEF InsertCheck, Goto, redisVars, Holds, TypeOK
  <2>2. PICK new : new = Id(d)
    OBVIOUS
  <2>3. \A e \in Deliveries : Key(e)' = Key(e)
    BY <2>1 DEF Key, KeyAt, SetsToCheck
  <2>4. KeyOf(new)' = Key(d) /\ \A id \in checks : KeyOf(id)' # Key(d)
    BY <1>4, <2>1, <2>2 DEF KeyOf, Key, Id, KeyAt, SetsToCheck, ClaimInv, Sole
  <2>5. ASSUME NEW e \in Deliveries, Holds(e)' PROVE Sole(e)'
    <3>1. e # d /\ Holds(e) /\ Key(e)' # Key(d)
      BY <2>1, <2>3, <2>5 DEF ClaimInv, Sole
    <3>2. \A id \in checks' : KeyOf(id)' # Key(e)'
      BY <1>4, <2>1, <2>2, <2>3, <2>4, <3>1 DEF ClaimInv, Sole
    <3> QED BY <2>1, <2>3, <3>1, <3>2 DEF ClaimInv, Sole
  <2>6. \A id \in checks' : KeyOf(id)' \in dedup'
    BY <1>4, <2>1, <2>2, <2>4 DEF ClaimInv, Sole
  <2>7. OneCheckPerSnapshot'
    BY <1>4, <2>1, <2>2, <2>4 DEF ClaimInv, OneCheckPerSnapshot
  <2> QED BY <1>1, <2>5, <2>6, <2>7 DEF ClaimInv
<1>7. ASSUME checks' = checks, ~\E d \in Deliveries : Claim(d)
      PROVE  ClaimInv'
  <2>1. ASSUME NEW d \in Deliveries, Holds(d)' PROVE Holds(d) /\ Key(d)' = Key(d)
    BY <1>1, <1>7, <2>1, HoldSteps
  <2>2. ASSUME NEW d \in Deliveries, Holds(d)' PROVE Sole(d)'
    BY <1>3, <1>4, <1>7, <2>1, <2>2 DEF ClaimInv, Sole
  <2> QED BY <1>1, <1>4, <1>7, <2>2 DEF ClaimInv, OneCheckPerSnapshot
<1> QED BY <1>2, <1>5, <1>6, <1>7, SetSteps

(* The invariant of the claims holds in every reachable state. *)
LEMMA ClaimHolds ==
  ASSUME MaxExpiries = 0
  PROVE  Spec => []ClaimInv
<1>1. ClaimInv /\ [Next]_vars => ClaimInv'
  BY ClaimNext
<1> QED BY <1>1, ClaimInit, PTL DEF Spec

(* If no key outlives its 24 hours, one (fixture, market set, hash) never  *)
(* gets a second check, for any number of interleaved, failing and         *)
(* restarted calls.  MCDetectionTTL shows that the assumption is needed.   *)
THEOREM OneCheck ==
  ASSUME MaxExpiries = 0
  PROVE  Spec => []OneCheckPerSnapshot
  BY ClaimHolds, PTL DEF ClaimInv

-----------------------------------------------------------------------------
(* The pipeline implements CheckLedger, under the same assumption.  Beyond *)
(* ClaimInv the job of a row must not be added twice: a check is either on *)
(* its way to the queue or in it, and in neither before QueueAdd.          *)

LedgerInv ==
  /\ ClaimInv
  /\ adding \cap jobs = {}
  /\ \A d \in Deliveries :
       pc[d] \in {"log", "publish", "latest", "add"} => Id(d) \notin adding \cup jobs

(* At the start nothing is on its way to the queue. *)
LEMMA LedgerInit == Init => LedgerInv
  BY ClaimInit DEF Init, LedgerInv

(* Every step keeps checks on their way and jobs apart. *)
LEMMA LedgerNext ==
  ASSUME MaxExpiries = 0, LedgerInv, [Next]_vars
  PROVE  LedgerInv'
<1>1. ClaimInv /\ ClaimInv' /\ RecordedInv /\ TypeOK
  BY ClaimNext DEF LedgerInv, ClaimInv, RecordedInv
<1>2. CASE \E d \in Deliveries : QueueAdd(d)
  <2>1. PICK d \in Deliveries : QueueAdd(d)
    BY <1>2
  <2>2. /\ adding' = adding \cup {Id(d)} /\ jobs' = jobs
        /\ pc[d] = "add" /\ pc'[d] \in {"claim", "cache"}
        /\ \A e \in Deliveries \ {d} : pc'[e] = pc[e] /\ pos'[e] = pos[e]
    <3>1. pc[d] = "add" /\ upd[d] \in Updates
      BY <1>1, <2>1 DEF QueueAdd, TypeOK, Awaits
    <3> QED BY <1>1, <2>1, <3>1, NextSetMoves DEF QueueAdd, TypeOK
  <2>3. \A e \in Deliveries \ {d} : Id(e)' = Id(e) /\ Id(e) # Id(d)
    BY <2>2 DEF Id
  <2> QED BY <1>1, <2>2, <2>3 DEF LedgerInv
<1>3. CASE ~\E d \in Deliveries : QueueAdd(d)
  <2>1. adding' \cup jobs' \subseteq adding \cup jobs
    BY <1>1, <1>3, SetSteps
  <2>2. adding' \cap jobs' = {}
    <3>1. \/ UNCHANGED <<adding, jobs>>
          \/ \E id \in adding : adding' = adding \ {id} /\ jobs' = jobs \cup {id}
          \/ adding' \subseteq adding /\ jobs' = jobs
      BY <1>3 DEF Next, Step, Receive, Claim, ClaimResent, Skip, InsertSnapshot, UnknownFixture, InsertCheck,
                  InsertProof, Publish, SetLatest, SetOdds, Abort, JobAdded, Crash, ExpireKey,
                  SyncFixture, vars, queueVars
    <3> QED BY <3>1 DEF LedgerInv
  <2>3. ASSUME NEW d \in Deliveries, pc'[d] \in {"log", "publish", "latest", "add"}
        PROVE  Id(d)' = Id(d) /\ Id(d) \notin adding \cup jobs
    <3>1. CASE Stays(d)
      BY <2>3, <3>1 DEF Stays, Id, LedgerInv
    <3>2. CASE InsertCheck(d)
      <4>1. Id(d) \notin checks /\ Id(d)' = Id(d)
        BY <1>1, <3>2 DEF InsertCheck, Goto, ClaimInv, Holds, Sole, KeyOf, Key, Id
      <4> QED BY <1>1, <4>1 DEF RecordedInv, JobIsRecorded
    <3>3. CASE InsertProof(d) \/ Publish(d) \/ SetLatest(d)
      BY <3>3 DEF InsertProof, Publish, SetLatest, Goto, Id, LedgerInv
    <3>4. CASE Claim(d) \/ InsertSnapshot(d)
      BY <1>1, <2>3, <3>4 DEF Claim, InsertSnapshot, Goto, TypeOK
    <3> QED BY <1>1, <2>3, <3>1, <3>2, <3>3, <3>4, CallSteps DEF Moves, Works
  <2> QED BY <1>1, <2>1, <2>2, <2>3 DEF LedgerInv
<1> QED BY <1>2, <1>3

(* A step of the pipeline is a step of the ledger, or none. *)
LEMMA LedgerStep ==
  ASSUME MaxExpiries = 0, LedgerInv, [Next]_vars
  PROVE  [Ledger!Next]_(Ledger!vars)
<1>1. ClaimInv /\ RecordedInv /\ TypeOK
  BY DEF LedgerInv, ClaimInv, RecordedInv
<1>2. \A id \in checks : KeyOf(id)' = KeyOf(id) /\ KeyOf(id) \in Keys
  BY <1>1, KeysStay DEF ClaimInv, TypeOK
<1>3. jobs \subseteq checks /\ adding \subseteq checks
  BY <1>1 DEF RecordedInv, JobIsRecorded
<1>4. (checks' = checks => [k \in Keys |-> Of(checks, k)]' = [k \in Keys |-> Of(checks, k)])
  BY <1>2 DEF Of
<1>5. (jobs' = jobs => [k \in Keys |-> Of(jobs, k)]' = [k \in Keys |-> Of(jobs, k)])
  BY <1>2, <1>3 DEF Of
<1>6. ASSUME NEW d \in Deliveries, Claim(d) \/ ClaimResent(d) PROVE Ledger!Next
  <2>1. Key(d) \in Keys
    BY <1>1, <1>6, PlacesAndKeys DEF Claim, ClaimResent, TypeOK, Key, Awaits
  <2>2. PICK k \in Keys : k = Key(d)
    BY <2>1
  <2>3. k \notin dedup /\ dedup' = dedup \cup {k} /\ checks' = checks /\ jobs' = jobs
    BY <1>6, <2>2 DEF Claim, ClaimResent, SetNX, tableVars, queueVars
  <2>4. Ledger!Claim(k)
    BY <1>4, <1>5, <2>3 DEF Ledger!Claim
  <2> QED BY <2>4 DEF Ledger!Next
<1>7. ASSUME NEW d \in Deliveries, InsertCheck(d) PROVE Ledger!Next
  <2>1. Key(d) \in Keys /\ Id(d) \in Ids
    BY <1>1, <1>7, PlacesAndKeys DEF InsertCheck, TypeOK, Key, Id, Ids, Awaits
  <2>2. PICK k \in Keys, r \in Ids : k = Key(d) /\ r = Id(d)
    BY <2>1
  <2>3. /\ checks' = checks \cup {r} /\ dedup' = dedup /\ jobs' = jobs
        /\ k \in dedup /\ \A id \in checks : KeyOf(id) # k
    BY <1>1, <1>7, <2>2 DEF InsertCheck, redisVars, queueVars, ClaimInv, Holds, Sole
  <2>4. KeyOf(r)' = k
    BY <1>7, <2>2 DEF InsertCheck, Goto, KeyOf, Key, Id, KeyAt, SetsToCheck
  <2>5. /\ Of(checks, k) = {}
        /\ [j \in Keys |-> Of(checks, j)]' = [[j \in Keys |-> Of(checks, j)] EXCEPT ![k] = {r}]
    <3>1. Of(checks, k) = {} /\ Of(checks, k)' = {r}
      BY <1>2, <2>3, <2>4 DEF Of
    <3>2. \A j \in Keys \ {k} : Of(checks, j)' = Of(checks, j)
      BY <1>2, <2>3, <2>4 DEF Of
    <3> QED BY <3>1, <3>2
  <2>6. Ledger!Record(k, r)
    BY <1>5, <2>3, <2>5 DEF Ledger!Record
  <2> QED BY <2>6 DEF Ledger!Next
<1>8. ASSUME NEW id \in adding, JobAdded(id) PROVE Ledger!Next
  <2>1. /\ id \in checks /\ id \notin jobs /\ jobs' = jobs \cup {id}
        /\ dedup' = dedup /\ checks' = checks
    BY <1>3, <1>8 DEF JobAdded, LedgerInv, redisVars, tableVars
  <2>2. PICK k \in Keys : k = KeyOf(id)
    BY <1>2, <2>1
  <2>3. Of(checks, k) = {id} /\ Of(jobs, k) = {} /\ Of(jobs, k)' = {id}
    BY <1>1, <1>2, <1>3, <2>1, <2>2 DEF Of, ClaimInv, OneCheckPerSnapshot
  <2>4. \A j \in Keys \ {k} : Of(jobs, j)' = Of(jobs, j)
    BY <1>2, <1>3, <2>1, <2>2 DEF Of
  <2>5. [j \in Keys |-> Of(jobs, j)]' =
          [[j \in Keys |-> Of(jobs, j)] EXCEPT ![k] = Of(checks, k)]
    BY <2>3, <2>4
  <2>6. Ledger!Queue(k)
    BY <1>4, <2>1, <2>3, <2>5 DEF Ledger!Queue
  <2> QED BY <2>6 DEF Ledger!Next
<1>9. CASE UNCHANGED <<dedup, checks, jobs>>
  BY <1>4, <1>5, <1>9 DEF Ledger!vars
<1>10. \/ UNCHANGED <<dedup, checks, jobs>>
       \/ \E d \in Deliveries : Claim(d) \/ ClaimResent(d) \/ InsertCheck(d)
       \/ \E id \in adding : JobAdded(id)
  <2>1. ASSUME NEW k \in dedup, ExpireKey(k) PROVE FALSE
    BY <1>1, <2>1 DEF ExpireKey, TypeOK
  <2> QED
    BY <2>1
    DEF Next, Step, Receive, Skip, InsertSnapshot, UnknownFixture, InsertProof, Publish,
        SetLatest, QueueAdd, SetOdds, Abort, Crash, SyncFixture,
        vars, redisVars, tableVars, queueVars
<1> QED BY <1>6, <1>7, <1>8, <1>9, <1>10

(* Every behaviour of the pipeline is one of the ledger: whatever happens  *)
(* to its calls, a snapshot's check is claimed, recorded and queued at     *)
(* most once, in that order and for good.                                  *)
THEOREM LedgerImplemented ==
  ASSUME MaxExpiries = 0
  PROVE  Spec => ImplementsLedger
<1>1. Init => Ledger!Init
  BY DEF Init, Ledger!Init, Of
<1>2. LedgerInv /\ [Next]_vars => LedgerInv'
  BY LedgerNext
<1>3. LedgerInv /\ [Next]_vars => [Ledger!Next]_(Ledger!vars)
  BY LedgerStep
<1> QED BY <1>1, <1>2, <1>3, LedgerInit, PTL DEF Spec, ImplementsLedger, Ledger!Spec

-----------------------------------------------------------------------------
(* Who owes the check of a dedup key.  Keys may expire here: that removes  *)
(* the debt with the key.                                                  *)

AccountInv ==
  /\ TypeOK /\ ClaimAccounted
  /\ \A d \in Deliveries : pc[d] = "idle" => upd[d] = None

(* At the start there is no key to account for. *)
LEMMA AccountInit == Init => AccountInv
  BY TypeInit DEF Init, AccountInv, ClaimAccounted

(* Every step keeps a debtor for every key. *)
LEMMA AccountNext == AccountInv /\ [Next]_vars => AccountInv'
<1> SUFFICES ASSUME AccountInv, [Next]_vars PROVE AccountInv'
  OBVIOUS
<1>1. TypeOK /\ TypeOK' /\ \A d \in Deliveries : Moves(d)
  BY TypeNext, CallSteps DEF AccountInv
<1>2. ASSUME NEW d \in Deliveries, pc'[d] = "idle" PROVE upd'[d] = None
  <2>1. Stays(d)
    BY <1>1, <1>2 DEF Moves, Works, Claim, InsertSnapshot, InsertCheck, InsertProof, Publish,
                      SetLatest, Goto, TypeOK
  <2> QED BY <1>2, <2>1 DEF Stays, AccountInv
<1>3. dedup' \subseteq dedup \/ \E d \in Deliveries : Claim(d) \/ ClaimResent(d)
  BY DEF Next, Step, Receive, Skip, InsertSnapshot, UnknownFixture, InsertCheck, InsertProof,
         Publish, SetLatest, QueueAdd, SetOdds, Abort, JobAdded, Crash, ExpireKey, SyncFixture,
         vars, redisVars
<1> DEFINE Owes(k, d, i) ==
      /\ upd[d] # None /\ i \in Available(upd[d]) /\ KeyAt(upd[d], i) = k
      /\ \/ <<d, i>> \in adding \cup jobs \cup lost \cup dropped
         \/ pos[d] = i /\ pc[d] \in (Awaits \ {"claim", "cache"}) \cup {"aborted"}
<1>4. ASSUME NEW k, NEW d \in Deliveries, NEW i, Owes(k, d, i) PROVE Owes(k, d, i)'
  <2>1. upd'[d] = upd[d]
    BY <1>1, <1>4 DEF Moves, AccountInv
  <2>2. i \in Available(upd[d])' /\ KeyAt(upd[d], i)' = k
    BY <1>4, <2>1 DEF Available, KeyAt, SetsToCheck
  <2>3. CASE <<d, i>> \in adding \cup jobs \cup lost \cup dropped
    BY <1>1, <1>4, <2>1, <2>2, <2>3, SetSteps
  <2>4. CASE pos[d] = i /\ pc[d] \in (Awaits \ {"claim", "cache"}) \cup {"aborted"}
    <3>1. CASE QueueAdd(d)
      BY <1>1, <1>4, <2>1, <2>2, <2>4, <3>1 DEF QueueAdd, Id
    <3>2. CASE Works(d)
      <4>1. pos'[d] = i /\ pc'[d] \in Awaits \ {"claim", "cache"}
        BY <1>1, <2>4, <3>2 DEF Works, Claim, InsertSnapshot, InsertCheck, InsertProof, Publish,
                                SetLatest, Goto, TypeOK, Awaits
      <4> QED BY <1>4, <2>1, <2>2, <4>1
    <3>3. CASE ~QueueAdd(d) /\ ~Works(d)
      <4>1. pos'[d] = i /\ pc'[d] \in (Awaits \ {"claim", "cache"}) \cup {"aborted"}
        BY <1>1, <2>4, <3>3 DEF Moves, Stays, Skip, ClaimResent, Receive, Awaits
      <4> QED BY <1>4, <2>1, <2>2, <4>1
    <3> QED BY <3>1, <3>2, <3>3
  <2> QED BY <1>4, <2>3, <2>4
<1>5. \A k \in dedup : \E d \in Deliveries : \E i : Owes(k, d, i)
  BY DEF AccountInv, ClaimAccounted
<1>6. ASSUME NEW k \in dedup', k \notin dedup
      PROVE  \E d \in Deliveries : \E i : Owes(k, d, i)'
  <2>1. PICK d \in Deliveries : (Claim(d) \/ ClaimResent(d)) /\ k = Key(d)
    BY <1>3, <1>6 DEF Claim, ClaimResent
  <2>2. PICK i : i = pos[d]
    OBVIOUS
  <2>3. /\ upd' = upd
        /\ upd[d] # None /\ i \in Available(upd[d]) /\ KeyAt(upd[d], i) = k
    BY <1>1, <2>1, <2>2, PipelineAssumption DEF Claim, ClaimResent, Goto, TypeOK, Key, Awaits
  <2>5. \/ pos'[d] = i /\ pc'[d] = "snapshot"
        \/ <<d, i>> \in dropped'
    BY <1>1, <2>1, <2>2 DEF Claim, ClaimResent, Goto, TypeOK, Id
  <2>4. Owes(k, d, i)'
    BY <2>3, <2>5 DEF Available, KeyAt, SetsToCheck, Awaits
  <2> QED BY <2>4
<1>7. ClaimAccounted'
  BY <1>4, <1>5, <1>6, ZenonT(60) DEF ClaimAccounted
<1> QED BY <1>1, <1>2, <1>7 DEF AccountInv

(* A dedup key always has one debtor or a job: a check is missing for good *)
(* only if the call that claimed it failed at that very place.             *)
THEOREM Accounted == Spec => []ClaimAccounted
  BY AccountInit, AccountNext, PTL DEF Spec, AccountInv

-----------------------------------------------------------------------------
(* A call leaves no available market set of its update behind unclaimed.   *)

Passed(d, i) ==
  \/ pc[d] \in {"cache", "done"}
  \/ pc[d] \in Awaits /\ i < pos[d]
  \/ pc[d] \in Awaits \ {"claim"} /\ i = pos[d]

ExaminedInv ==
  /\ TypeOK
  /\ \A d \in Deliveries : \A i \in Available(upd[d]) :
       Passed(d, i) => KeyAt(upd[d], i) \in dedup

(* The loop passes over unavailable places only. *)
LEMMA NextSetSkipsNone ==
  ASSUME NEW d \in Deliveries, NEW u \in Updates, NEW i \in Nat, NextSet(d, u, i),
         pc \in [Deliveries -> PCs], pos \in [Deliveries -> Nat],
         NEW j \in Available(u), pc'[d] = "cache" \/ j < pos'[d]
  PROVE  j <= i
<1>1. \A k \in Available(u) : k \in Nat
  BY PlacesAndKeys DEF Places
<1> QED BY <1>1 DEF NextSet

(* Every step keeps what lies behind a call claimed. *)
LEMMA ExaminedNext ==
  ASSUME MaxExpiries = 0, ExaminedInv, [Next]_vars
  PROVE  ExaminedInv'
<1>1. TypeOK /\ TypeOK' /\ dedup \subseteq dedup'
  BY TypeNext, DedupSteps DEF ExaminedInv, Claim, ClaimResent
<1>2. ASSUME NEW d \in Deliveries, NEW i \in Available(upd'[d]), Passed(d, i)'
      PROVE  KeyAt(upd'[d], i) \in dedup'
  <2>1. upd'[d] \in Updates /\ pc'[d] # "idle"
    BY <1>1, <1>2 DEF Passed, TypeOK, Awaits
  <2>2. i \in Nat
    BY <2>1, PlacesAndKeys DEF Places
  <2>3. CASE upd'[d] = upd[d] /\ Passed(d, i)
    BY <1>1, <1>2, <2>3 DEF ExaminedInv
  <2>4. CASE Works(d)
    <3>1. upd' = upd /\ pos' = pos /\ pc[d] \in Awaits \ {"cache"} /\ pc'[d] \in Awaits \ {"cache"}
      BY <1>1, <2>4 DEF Works, Claim, InsertSnapshot, InsertCheck, InsertProof, Publish,
                        SetLatest, Goto, TypeOK, Awaits
    <3>2. CASE i = pos[d] /\ Claim(d)
      BY <3>1, <3>2 DEF Claim, Key
    <3>3. CASE i = pos[d] /\ ~Claim(d)
      <4>1. pc[d] # "claim"
        BY <2>4, <3>3 DEF Works, InsertSnapshot, InsertCheck, InsertProof, Publish, SetLatest
      <4> QED BY <2>3, <3>1, <3>3, <4>1 DEF Passed
    <3>4. CASE i # pos[d]
      BY <1>2, <2>3, <3>1, <3>4 DEF Passed, Awaits
    <3> QED BY <3>2, <3>3, <3>4
  <2>5. CASE \E u \in Updates : Receive(d, u)
    <3>1. PICK u \in Updates : Receive(d, u)
      BY <2>5
    <3>2. upd'[d] = u /\ NextSet(d, u, 0) /\ pc'[d] \in {"claim", "cache"}
      BY <1>1, <3>1, NextSetMoves DEF Receive, TypeOK
    <3>3. i <= 0 /\ i >= 1
      <4>1. i \in Available(u) /\ (pc'[d] = "cache" \/ i < pos'[d])
        BY <1>2, <3>2 DEF Passed
      <4>2. i <= 0
        BY <1>1, <3>2, <4>1, NextSetSkipsNone DEF TypeOK
      <4>3. i \in Places
        BY <4>1, PlacesAndKeys
      <4> QED BY <4>2, <4>3 DEF Places
    <3> QED BY <2>2, <3>3
  <2>6. CASE Skip(d) \/ ClaimResent(d) \/ QueueAdd(d)
    <3>1. /\ upd' = upd /\ NextSet(d, upd[d], pos[d]) /\ pc'[d] \in {"claim", "cache"}
          /\ pc[d] \in Awaits \ {"cache"} /\ upd[d] \in Updates /\ pos[d] \in Nat
      BY <1>1, <2>6, NextSetMoves DEF Skip, ClaimResent, QueueAdd, TypeOK, Awaits
    <3>2. i <= pos[d]
      BY <1>1, <1>2, <3>1, NextSetSkipsNone DEF Passed, TypeOK
    <3>3. KeyAt(upd[d], pos[d]) \in dedup'
      BY <1>1, <2>6 DEF Skip, SetNX, Key, ClaimResent, QueueAdd, ExaminedInv, Passed, TypeOK, Awaits
    <3>4. i < pos[d] => Passed(d, i)
      BY <3>1 DEF Passed
    <3> QED BY <1>1, <2>2, <2>3, <3>1, <3>2, <3>3, <3>4
  <2>7. CASE pc'[d] = "done" /\ pc[d] = "cache" /\ upd'[d] = upd[d]
    BY <2>3, <2>7 DEF Passed
  <2>8. CASE Stays(d)
    BY <1>2, <2>3, <2>8 DEF Stays, Passed
  <2>9. CASE pc'[d] = "aborted"
    BY <1>2, <2>9 DEF Passed, Awaits
  <2> QED
    BY <1>1, <2>4, <2>5, <2>6, <2>7, <2>8, <2>9, CallSteps DEF Moves
<1>3. \A d \in Deliveries : Available(upd[d])' = Available(upd'[d])
  BY DEF Available, SetsToCheck
<1>4. \A d \in Deliveries : \A i : KeyAt(upd[d], i)' = KeyAt(upd'[d], i)
  BY DEF KeyAt, SetsToCheck
<1> QED BY <1>1, <1>2, <1>3, <1>4 DEF ExaminedInv

(* A call that ran to its end has seen every covering set it could check   *)
(* claimed, by itself or by another call.                                  *)
THEOREM FinishedComplete ==
  ASSUME MaxExpiries = 0
  PROVE  Spec => []FinishedIsComplete
<1>1. Init => ExaminedInv
  BY TypeInit DEF Init, ExaminedInv, Passed, Awaits
<1>2. ExaminedInv /\ [Next]_vars => ExaminedInv'
  BY ExaminedNext
<1>3. ExaminedInv => FinishedIsComplete
  <2> SUFFICES ASSUME ExaminedInv,
                      NEW d \in Deliveries, pc[d] = "done",
                      NEW j \in DOMAIN CoveringSets, CoveringSets[j] \subseteq upd[d].types
               PROVE  <<upd[d].fixture, CoveringSets[j], upd[d].hash>> \in dedup
    BY DEF FinishedIsComplete, Listed
  <2>1. PICK i \in DOMAIN SetsToCheck(upd[d]) : SetsToCheck(upd[d])[i] = CoveringSets[j]
    <3>1. CASE "match_winner" \in upd[d].types
      <4>1. Len(SingleOutcomeSets) + j \in DOMAIN (SingleOutcomeSets \o CoveringSets)
        BY PipelineAssumption
      <4>2. (SingleOutcomeSets \o CoveringSets)[Len(SingleOutcomeSets) + j] = CoveringSets[j]
        BY PipelineAssumption
      <4> QED BY <3>1, <4>1, <4>2 DEF SetsToCheck
    <3>2. CASE "match_winner" \notin upd[d].types
      BY <3>2 DEF SetsToCheck
    <3> QED BY <3>1, <3>2
  <2>2. i \in Available(upd[d])
    BY <2>1 DEF Available
  <2>3. KeyAt(upd[d], i) \in dedup
    BY <2>2 DEF ExaminedInv, Passed
  <2> QED BY <2>1, <2>3 DEF KeyAt
<1> QED BY <1>1, <1>2, <1>3, PTL DEF Spec
=============================================================================
