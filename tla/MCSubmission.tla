---------------------------- MODULE MCSubmission ----------------------------
(* Two slots and two jobs, one of them flagged.  The code gives the config *)
(* account the role 2; 1 is the role submit_check asks for, taken along so *)
(* that what the worker does after a send is checked too.                  *)
EXTENDS SubmissionWorker

CONSTANTS j1, j2, s1, s2

MCJobs     == {j1, j2}
MCSlots    == {s1, s2}
MCFlagged  == {j1}
BothModes  == BOOLEAN
LiveMode   == {TRUE}
CodeRole   == {2}
BothRoles  == {1, 2}
=============================================================================
