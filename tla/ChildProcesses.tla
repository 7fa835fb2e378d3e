------------------------------ MODULE ChildProcesses ------------------------------
(***************************************************************************)
(* The record a controller of a Sirius job keeps of the child processes it *)
(* runs, one at a time (class Processes of amd_smoke.py): the sequence of  *)
(* their outcomes.  A child that was stopped, at its own deadline, at the  *)
(* deadline of the controller or because a signal arrived, is recorded as  *)
(* timed out whatever its exit status is.                                  *)
(***************************************************************************)
EXTENDS Sequences, SequencesExt

\* Exit 0 and a usable output, exit 0 and an output its reader refuses,
\* another exit status, never started (no exit status), stopped.
Outcome == {"ok", "bad", "failed", "unlaunched", "timeout"}

ExitZero(o) == o \in {"ok", "bad"}

\* self.stopped: nothing is started after a failure or a stop.
MayRun(records) == \A i \in DOMAIN records : ExitZero(records[i])

AnyTimedOut(records) == Contains(records, "timeout")

AllUsable(records) == \A i \in DOMAIN records : records[i] = "ok"
=================================================================================
