----------------------------- MODULE Migrations -----------------------------
(***************************************************************************)
(* runMigrations, in the backend and, with another directory of files, in  *)
(* the web application: the server, the replay command and db:migrate may  *)
(* run it at the same time on one database.  The statements of a file go   *)
(* to Postgres in one query and take effect together or not at all; the    *)
(* journal row is another query.                                           *)
(***************************************************************************)
EXTENDS Naturals, Sequences

CONSTANTS
  Processes,   \* which run the migrations
  Files,       \* the names of the migration files, in order
  Repeatable,  \* those written with IF NOT EXISTS throughout
  MaxFaults    \* bound: deaths and queries that fail for a reason of their own

Names == {Files[i] : i \in DOMAIN Files}

ASSUME MigrationsAssumption ==
  /\ Files \in Seq(Names)
  /\ MaxFaults \in Nat

VARIABLES
  pc, next, applied,  \* per process: where it is, which file, what it read
  journal,            \* the names in _migrations
  made,               \* how often each file's statements took effect
  faults

vars == <<pc, next, applied, journal, made, faults>>

Init ==
  /\ pc = [p \in Processes |-> "stopped"] /\ next = [p \in Processes |-> 1]
  /\ applied = [p \in Processes |-> {}]
  /\ journal = {} /\ made = [f \in Names |-> 0]
  /\ faults = 0

Name(p) == Files[next[p]]

(* CREATE TABLE IF NOT EXISTS _migrations, and the names it holds.         *)
Start(p) ==
  /\ pc[p] \in {"stopped", "failed", "migrated"}
  /\ pc' = [pc EXCEPT ![p] = "read"]
  /\ UNCHANGED <<next, applied, journal, made, faults>>

ReadJournal(p) ==
  /\ pc[p] = "read"
  /\ applied' = [applied EXCEPT ![p] = journal]
  /\ next' = [next EXCEPT ![p] = 1]
  /\ pc' = [pc EXCEPT ![p] = "apply"]
  /\ UNCHANGED <<journal, made, faults>>

Skip(p) ==
  /\ pc[p] = "apply" /\ next[p] <= Len(Files) /\ Name(p) \in applied[p]
  /\ next' = [next EXCEPT ![p] = @ + 1]
  /\ UNCHANGED <<pc, applied, journal, made, faults>>

ApplyMutant(p) ==
  /\ pc[p] = "apply" /\ next[p] <= Len(Files) /\ Name(p) \notin applied[p]
  /\ pc' = [pc EXCEPT ![p] = "journal"]
  /\ made' = [made EXCEPT ![Name(p)] = @ + 1]
  /\ UNCHANGED <<next, applied, journal, faults>>

(* CREATE TABLE fails when the table is there.                             *)
Apply(p) ==
  /\ pc[p] = "apply" /\ next[p] <= Len(Files) /\ Name(p) \notin applied[p]
  /\ IF made[Name(p)] = 0 \/ Name(p) \in Repeatable
       THEN /\ made' = [made EXCEPT ![Name(p)] = @ + 1]
            /\ pc' = [pc EXCEPT ![p] = "journal"]
       ELSE /\ pc' = [pc EXCEPT ![p] = "failed"] /\ UNCHANGED made
  /\ UNCHANGED <<next, applied, journal, faults>>

(* name is UNIQUE.                                                         *)
Journal(p) ==
  /\ pc[p] = "journal"
  /\ IF Name(p) \in journal
       THEN pc' = [pc EXCEPT ![p] = "failed"] /\ UNCHANGED <<journal, next>>
       ELSE /\ journal' = journal \cup {Name(p)}
            /\ next' = [next EXCEPT ![p] = @ + 1]
            /\ pc' = [pc EXCEPT ![p] = "apply"]
  /\ UNCHANGED <<applied, made, faults>>

Finish(p) ==
  /\ pc[p] = "apply" /\ next[p] > Len(Files)
  /\ pc' = [pc EXCEPT ![p] = "migrated"]
  /\ UNCHANGED <<next, applied, journal, made, faults>>

(* The process dies or its query fails; it may be started again.           *)
Fault(p) ==
  /\ pc[p] \in {"read", "apply", "journal"} /\ faults < MaxFaults
  /\ pc' = [pc EXCEPT ![p] = "failed"]
  /\ faults' = faults + 1
  /\ UNCHANGED <<next, applied, journal, made>>

Next ==
  \E p \in Processes :
    Start(p) \/ ReadJournal(p) \/ Skip(p) \/ Apply(p) \/ Journal(p) \/ Finish(p) \/ Fault(p)

Spec == Init /\ [][Next]_vars

-----------------------------------------------------------------------------
TypeOK ==
  /\ pc \in [Processes -> {"stopped", "read", "apply", "journal", "migrated", "failed"}]
  /\ next \in [Processes -> 1 .. Len(Files) + 1]
  /\ journal \subseteq Names
  /\ \A p \in Processes : applied[p] \subseteq journal

(* The journal and the tables drift apart in one way only.  A name in the  *)
(* journal has its tables, a process that got through has all of them, and *)
(* no plain CREATE TABLE ran twice, whoever races.  Tables without their   *)
(* name, which make every later start fail, are left only by a death or a  *)
(* failed query between the two.                                           *)
JournalFollowsTables ==
  /\ \A f \in journal : made[f] > 0
  /\ \A f \in Names \ Repeatable : made[f] <= 1
  /\ \A p \in Processes : pc[p] = "migrated" => Names \subseteq journal
  /\ \A f \in Names \ journal : made[f] > 0 =>
       faults > 0 \/ \E p \in Processes : pc[p] = "journal" /\ Name(p) = f
=============================================================================
