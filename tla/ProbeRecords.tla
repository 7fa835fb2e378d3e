---------------------------- MODULE ProbeRecords ----------------------------
(***************************************************************************)
(* The records of the Sirius probe ledger (jobs/sirius/remote.py): what an *)
(* approval and an execution are, which records Store.validate accepts,    *)
(* and what Store.recover makes of an interrupted one.                     *)
(*                                                                         *)
(* An approval is abstracted to its transport.  An execution keeps every   *)
(* field the code branches on; identifiers, argv, clock times, exit codes  *)
(* and reasons are left out.  The two counters remote_commands_confirmed   *)
(* and logical_sessions_confirmed always move together and are one field.  *)
(* A digest is abstracted to the amount of output it covers.               *)
(***************************************************************************)
EXTENDS Naturals

CONSTANTS Approvals,    \* approval identifiers
          Executions,   \* execution identifiers
          Null,         \* None of the source, and "no record"
          MaxOutput     \* bound on the output a client writes, for TLC

ASSUME NullAssumption ==
    Null \notin Approvals \cup Executions \cup Nat
ASSUME OutputAssumption == MaxOutput \in Nat

Transports == {"direct", "control-master"}

\* Statuses of an execution (remote.py, Store.validate); "absent" is a key
\* the executions map does not have.
Unresolved == {"RESERVED", "RUNNING", "UNKNOWN", "MASTER_LOST"}
Confirmed == {"COMPLETE", "REMOTE_FAILED"}
Pending == {"RESERVED", "RUNNING"}
DirectStatuses == Pending \cup Confirmed
                    \cup {"UNKNOWN", "CONNECTION_STOP", "LAUNCH_FAILED"}
MasterStatuses == Pending \cup Confirmed
                    \cup {"UNKNOWN", "MASTER_UNAVAILABLE", "MASTER_LOST", "LOCAL_STOP"}
Statuses == DirectStatuses \cup MasterStatuses \cup {"absent"}

Execution ==
    [approval: Approvals \cup {Null},
     status: Statuses,
     ssh_calls: {0, 1, 2, Null},
     local_check_calls: {0, 1, Null},
     logical_session_calls: {0, 1, Null},
     remote_command_attempts: {0, 1},
     confirmed: {0, 1, Null},
     master_alive: BOOLEAN,
     completion_proof: BOOLEAN,
     output: Nat \cup {Null}]

NoExecution ==
    [approval |-> Null, status |-> "absent", ssh_calls |-> Null,
     local_check_calls |-> 0, logical_session_calls |-> 0,
     remote_command_attempts |-> 0, confirmed |-> 0, master_alive |-> FALSE,
     completion_proof |-> FALSE, output |-> Null]

Ledger ==
    [approvals: [Approvals -> Transports \cup {"absent"}],
     executions: [Executions -> Execution]]

EmptyLedger ==
    [approvals |-> [a \in Approvals |-> "absent"],
     executions |-> [e \in Executions |-> NoExecution]]

Recorded(l) == {e \in Executions : l.executions[e].status # "absent"}

\* The record a probe reserves before any client starts.
Reservation(a, transport) ==
    [NoExecution EXCEPT !.approval = a,
                        !.status = "RESERVED",
                        !.ssh_calls = IF transport = "direct" THEN Null ELSE 0]

\* ssh_calls of a control-master record: the two observations, or unknown.
Observed(checks, sessions) ==
    CASE checks = Null \/ sessions = Null -> Null
      [] checks = 0 /\ sessions = 0 -> 0
      [] checks = 1 /\ sessions = 1 -> 2
      [] OTHER -> 1

-----------------------------------------------------------------------------
(* What Store.validate requires of one record.                             *)

ExpectedCalls(status) ==
    CASE status = "RESERVED" -> {Null}
      [] status = "UNKNOWN" -> {Null, 1}
      [] status = "LAUNCH_FAILED" -> {0}
      [] OTHER -> {1}

ValidDirect(r) ==
    /\ r.status \in DirectStatuses
    /\ r.ssh_calls \in ExpectedCalls(r.status)

ValidMaster(r) ==
    /\ r.status \in MasterStatuses
    /\ r.ssh_calls = Observed(r.local_check_calls, r.logical_session_calls)
    /\ r.master_alive => r.local_check_calls = 1
    /\ r.remote_command_attempts = 1 => r.master_alive
    /\ r.logical_session_calls = 0 \/ r.remote_command_attempts = 1
    /\ IF r.status \in Confirmed
         THEN /\ r.local_check_calls = 1
              /\ r.logical_session_calls = 1
              /\ r.confirmed = 1
         ELSE r.confirmed = IF r.logical_session_calls = 0 THEN 0 ELSE Null
    /\ r.status \in {"MASTER_UNAVAILABLE", "LOCAL_STOP"} => r.logical_session_calls = 0
    /\ r.status = "MASTER_UNAVAILABLE" => ~r.master_alive
    /\ r.status = "MASTER_LOST" => r.master_alive
    /\ r.local_check_calls = Null => r.status \in {"RESERVED", "UNKNOWN"}
    /\ r.logical_session_calls = Null => r.status \in {"RUNNING", "UNKNOWN"}

ValidExecution(l, e) ==
    LET r == l.executions[e]
    IN  /\ r.approval \in Approvals
        /\ IF l.approvals[r.approval] = "control-master" THEN ValidMaster(r)
                                                         ELSE ValidDirect(r)
        /\ l.approvals[r.approval] # "absent"
        /\ r.completion_proof = (r.status \in Confirmed)

\* Each approval pays for one connection or one logical session.
WithinBudget(l) ==
    \A e, f \in Recorded(l) :
        l.executions[e].approval = l.executions[f].approval => e = f

\* The evidence of a decided execution is the output on disk.
EvidenceIntact(l, output) ==
    \A e \in Recorded(l) :
        l.executions[e].status \notin Pending => l.executions[e].output = output[e]

RecordsValid(l) ==
    /\ \A e \in Recorded(l) : ValidExecution(l, e)
    /\ WithinBudget(l)

\* The answer of a master recorded as alive is in the check logs.
AliveProven(l, checked) ==
    \A e \in Recorded(l) : l.executions[e].master_alive => e \in checked

ValidLedger(l, logs, output, checked) ==
    /\ logs = Recorded(l)
    /\ RecordsValid(l)
    /\ EvidenceIntact(l, output)
    /\ AliveProven(l, checked)

-----------------------------------------------------------------------------
(* Store.recover: an interrupted execution becomes UNKNOWN, with the       *)
(* output that is on disk now as its evidence.                             *)

\* Mutant: a spawn that was not observed is counted as none.
RecoverExecutionZero(l, e, output) ==
    LET r == l.executions[e]
    IN  IF r.status \notin Pending THEN r
        ELSE [r EXCEPT !.status = "UNKNOWN",
                       !.ssh_calls = IF l.approvals[r.approval] = "direct" /\ @ # 1 THEN 0 ELSE @,
                       !.output = output[e]]

\* Mutant: a lost master is interrupted work too.
RecoverExecutionLost(l, e, output) ==
    LET r == l.executions[e]
    IN  IF r.status \notin Unresolved THEN r
        ELSE [r EXCEPT !.status = "UNKNOWN", !.output = output[e]]

RecoverExecution(l, e, output) ==
    LET r == l.executions[e]
    IN  IF r.status \notin Pending THEN r
        ELSE [r EXCEPT !.status = "UNKNOWN",
                       !.completion_proof = FALSE,
                       !.ssh_calls =
                           IF l.approvals[r.approval] = "direct" /\ @ # 1 THEN Null ELSE @,
                       !.output = output[e]]

Recover(l, output) ==
    [l EXCEPT !.executions = [e \in Executions |-> RecoverExecution(l, e, output)]]

\* Mutant: only interrupted executions stop the next probe.
NoneUnresolvedPending(l) == \A e \in Executions : l.executions[e].status \notin Pending

\* The check of approve and probe: an undecided outcome stops both.
NoneUnresolved(l) == \A e \in Executions : l.executions[e].status \notin Unresolved

\* Mutant: the budget is not checked.
UnspentAlways(l, a) == TRUE

\* A probe spends its approval: no execution may have used it before.
Unspent(l, a) == \A e \in Executions : l.executions[e].approval # a
=============================================================================
