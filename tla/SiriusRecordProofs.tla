-------------------------- MODULE SiriusRecordProofs --------------------------
(***************************************************************************)
(* Proofs about what SiriusLedger leaves on disk, for any number of         *)
(* invocations, approvals and executions: the records count every session  *)
(* that was started, a decided outcome is what the remote command did, two *)
(* sessions overlap only across a recorded connection stop, nothing        *)
(* decided is rewritten, and the ledger implements ProbeBudget.            *)
(*                                                                         *)
(* These rest on Inductive of SiriusLedgerProofs (who may write, and from  *)
(* which copy).  Sound adds what a record says at each step of a probe: a  *)
(* crash or a failed save leaves on disk any record the probe has had in   *)
(* hand so far, so every one of them has to fit what has happened.         *)
(***************************************************************************)
EXTENDS SiriusLedgerProofs

\* What a record says was observed: alive checks, the master's answer, sessions,
\* commands attempted and confirmed, and the ssh clients of all of them.
Counts(r, checks, alive, sessions, attempts, confirmed, ssh) ==
    /\ r.local_check_calls = checks
    /\ r.master_alive = alive
    /\ r.logical_session_calls = sessions
    /\ r.remote_command_attempts = attempts
    /\ r.confirmed = confirmed
    /\ r.ssh_calls = ssh
    /\ ~r.completion_proof

\* The record in hand at each step of a probe over transport t.
Shape(step, t, r) ==
    /\ step \in {"reserve", "launch", "socket", "check-intent"} =>
           /\ r.status = "RESERVED"
           /\ Counts(r, 0, FALSE, 0, 0, 0, IF t = "direct" THEN Null ELSE 0)
    /\ step \in {"running", "wait", "abort"} =>
           r.status = "RUNNING" /\ Counts(r, 0, FALSE, 0, 0, 0, 1)
    /\ step \in {"check-launch", "check-none"} =>
           r.status = "RESERVED" /\ Counts(r, Null, FALSE, 0, 0, 0, Null)
    /\ step \in {"check-running", "check-wait", "check-abort"} =>
           r.status = "RUNNING" /\ Counts(r, 1, r.master_alive, 0, 0, 0, 1)
    /\ step \in {"check-running", "check-wait"} => ~r.master_alive
    /\ step \in {"alive", "recheck", "session-intent"} =>
           r.status = "RUNNING" /\ Counts(r, 1, TRUE, 0, 0, 0, 1)
    /\ step \in {"session-launch", "session-none"} =>
           r.status = "RUNNING" /\ Counts(r, 1, TRUE, Null, 1, Null, Null)
    /\ step \in {"session-running", "session-wait", "session-abort"} =>
           r.status = "RUNNING" /\ Counts(r, 1, TRUE, 1, 1, Null, 2)
    /\ step = "final" => r.status \notin Pending

\* A record that may stand for an execution over transport t with client c and remote
\* command m: Store.validate accepts it, it hides no session, and it is decided by
\* what happened.
Fits(t, r, c, m) ==
    /\ t \in Transports
    /\ IF t = "control-master" THEN ValidMaster(r) ELSE ValidDirect(r)
    /\ r.completion_proof <=> r.status \in Confirmed
    /\ c # "none" =>
          /\ r.status \notin {"LAUNCH_FAILED", "MASTER_UNAVAILABLE", "LOCAL_STOP"}
          /\ IF t = "direct" THEN r.ssh_calls # 0 ELSE r.logical_session_calls # 0
    /\ r.status = "COMPLETE" => m = "exit0"
    /\ r.status = "REMOTE_FAILED" => m = "exitN"
    /\ r.status \notin Pending \cup {"UNKNOWN"} => c # "live"

\* Steps before the session's client can have been started, before the intent of a
\* session can be on disk, after the master's answer is, and after the client is started.
Sessionless == BeforeSession \cup {"check-none", "check-abort", "session-none"}
BeforeIntent == Sessionless \ {"session-launch", "session-none"}
AfterAnswer == {"alive", "recheck", "session-intent", "session-launch", "session-none",
                "session-running", "session-wait", "session-abort"}
Started == {"running", "wait", "abort", "session-running", "session-wait", "session-abort"}

\* A probe may be at this step with record r in hand.
Ready(step, t, r, c, m) ==
    /\ step \in DirectSteps => t = "direct"
    /\ step \in MasterSteps => t = "control-master"
    /\ Shape(step, t, r)
    /\ Fits(t, r, c, m)
    /\ step \in Sessionless => c = "none"
    /\ step \in Started => c # "none"
    /\ step = "final" => c # "live"

\* The answer of the master has been needed.
Attested(step, r) == step \in AfterAnswer \/ r.remote_command_attempts = 1

\* What an invocation that leaves with record r in hand reports hides no session.
Reportable(step, t, r, c) ==
    t # "direct" =>
        /\ step = "return" /\ r.status = "LOCAL_STOP" => c = "none"
        /\ step = "unrecorded" /\ r.logical_session_calls = 0 => c = "none"
        /\ step = "raise" => c = "none"

\* What is on disk of an execution, whoever wrote it.
DiskOK(e) ==
    LET r == ledger.executions[e]
    IN  /\ r.status # "absent" =>
              /\ r.approval \in Approvals
              /\ Fits(ledger.approvals[r.approval], r, client[e], remote[e])
        /\ r.remote_command_attempts = 1 => e \in checked
        /\ r.status \notin Pending \cup {"UNKNOWN", "absent"} => r.output = output[e]
        /\ r.status = "absent" => client[e] = "none"
        /\ client[e] = "none" => remote[e] = "none"

\* One undecided execution, and one execution of each approval.
OneUndecided ==
    \A e, f \in Executions :
        /\ ledger.executions[e].status \in Unresolved /\ ledger.executions[f].status \in Unresolved
              => e = f
        /\ ledger.executions[e].approval = ledger.executions[f].approval
              => e = f \/ ledger.executions[e].approval = Null

\* A probe may be where it is; the record on disk is still pending, and no other
\* execution is undecided or has its approval.
Probing(p) ==
    LET e == cur[p]
        d == ledger.executions[e]
    IN  /\ Ready(pc[p], TransportOf(p), Rec(p), client[e], remote[e])
        /\ Attested(pc[p], Rec(p)) => e \in checked
        /\ IF pc[p] = "reserve" THEN d.status = "absent" ELSE d.status \in Pending
        /\ pc[p] \in {"launch", "session-launch"} => d = Rec(p)
        /\ pc[p] \in BeforeIntent \ {"reserve"} => d.remote_command_attempts # 1
        /\ \A f \in Executions :
              f # e => /\ ledger.executions[f].status \notin Unresolved
                       /\ ledger.executions[f].approval # Rec(p).approval

Leaving(p) ==
    cur[p] # Null => cur[p] \in Executions /\ Reportable(pc[p], TransportOf(p), Rec(p), client[cur[p]])

Sound ==
    /\ \A e \in Executions : DiskOK(e)
    /\ OneUndecided
    /\ \A p \in Procs :
          /\ pc[p] \in ProbeSteps => Probing(p)
          /\ pc[p] \in LeaveSteps => Leaving(p)
          /\ pc[p] \notin ProbeSteps \cup LeaveSteps => cur[p] = Null
-----------------------------------------------------------------------------
(* Lemmas about records.                                                   *)

\* None is not a number.
LEMMA NullFacts == Null # 0 /\ Null # 1 /\ Null # 2 /\ Null \notin Approvals
BY NullAssumption

\* A reservation is the record of its first step.
LEMMA ReservationShape ==
    ASSUME NEW a \in Approvals, NEW t \in Transports
    PROVE  Shape("reserve", t, Reservation(a, t))
BY DEF Shape, Counts, Reservation, NoExecution

\* Every record a probe has in hand before the end fits at its step.
LEMMA ShapeFits ==
    ASSUME NEW t \in Transports, NEW step \in ProbeSteps \ {"final"}, NEW r, Shape(step, t, r),
           step \in DirectSteps => t = "direct", step \in MasterSteps => t = "control-master",
           NEW c, step \in Sessionless => c = "none", NEW m
    PROVE  r.status \in Pending /\ Fits(t, r, c, m)
<1> USE NullFacts
<1>1. CASE t = "direct"
  <2>1. step \in {"reserve", "launch", "running", "wait", "abort"}
    BY <1>1 DEF ProbeSteps, DirectSteps
  <2>2. CASE step \in {"reserve", "launch"}
    <3>1. c = "none" /\ r.status = "RESERVED" /\ Counts(r, 0, FALSE, 0, 0, 0, Null)
      BY <1>1, <2>2 DEF Shape, Sessionless, BeforeSession
    <3>2. QED
      BY <1>1, <3>1 DEF Fits, Counts, ValidDirect, DirectStatuses, Pending, Confirmed, ExpectedCalls
  <2>3. CASE step \in {"running", "wait", "abort"}
    <3>1. r.status = "RUNNING" /\ Counts(r, 0, FALSE, 0, 0, 0, 1)
      BY <2>3 DEF Shape
    <3>2. QED
      BY <1>1, <3>1 DEF Fits, Counts, ValidDirect, DirectStatuses, Pending, Confirmed, ExpectedCalls
  <2>4. QED
    BY <2>1, <2>2, <2>3
<1>2. CASE t = "control-master"
  <2> USE <1>2 DEF Fits, Counts, ValidMaster, MasterStatuses, Pending, Confirmed, Observed
  <2>1. CASE step \in {"reserve", "launch", "socket", "check-intent"}
    <3>1. c = "none" /\ r.status = "RESERVED" /\ Counts(r, 0, FALSE, 0, 0, 0, 0)
      BY <2>1 DEF Shape, Sessionless, BeforeSession
    <3>2. QED
      BY <3>1
  <2>2. CASE step \in {"check-launch", "check-none"}
    <3>1. c = "none" /\ r.status = "RESERVED" /\ Counts(r, Null, FALSE, 0, 0, 0, Null)
      BY <2>2 DEF Shape, Sessionless, BeforeSession
    <3>2. QED
      BY <3>1
  <2>3. CASE step \in {"check-running", "check-wait", "check-abort"}
    <3>1. c = "none" /\ r.status = "RUNNING" /\ Counts(r, 1, r.master_alive, 0, 0, 0, 1)
      BY <2>3 DEF Shape, Sessionless, BeforeSession
    <3>2. QED
      BY <3>1
  <2>4. CASE step \in {"alive", "recheck", "session-intent"}
    <3>1. c = "none" /\ r.status = "RUNNING" /\ Counts(r, 1, TRUE, 0, 0, 0, 1)
      BY <2>4 DEF Shape, Sessionless, BeforeSession
    <3>2. QED
      BY <3>1
  <2>5. CASE step \in {"session-launch", "session-none"}
    <3>1. r.status = "RUNNING" /\ Counts(r, 1, TRUE, Null, 1, Null, Null)
      BY <2>5 DEF Shape
    <3>2. QED
      BY <3>1
  <2>6. CASE step \in {"session-running", "session-wait", "session-abort"}
    <3>1. r.status = "RUNNING" /\ Counts(r, 1, TRUE, 1, 1, Null, 2)
      BY <2>6 DEF Shape
    <3>2. QED
      BY <3>1
  <2>7. step \notin DirectSteps
    BY <1>2
  <2>8. QED
    BY <2>1, <2>2, <2>3, <2>4, <2>5, <2>6, <2>7 DEF ProbeSteps, DirectSteps, MasterSteps
<1>3. QED
  BY <1>1, <1>2 DEF Transports

\* A recovered record still fits, whatever the client and the command went on to do.
LEMMA RecoverFits ==
    ASSUME NEW l \in Ledger, NEW e \in Executions, NEW size \in [Executions -> Nat],
           NEW r \in Execution, r = l.executions[e], r.status # "absent",
           NEW t, t = l.approvals[r.approval], NEW c, NEW m, Fits(t, r, c, m)
    PROVE  /\ Fits(t, RecoverExecution(l, e, size), c, m)
           /\ RecoverExecution(l, e, size).approval = r.approval
           /\ RecoverExecution(l, e, size).remote_command_attempts = r.remote_command_attempts
           /\ RecoverExecution(l, e, size).status =
                  IF r.status \in Pending THEN "UNKNOWN" ELSE r.status
           /\ r.status \notin Pending => RecoverExecution(l, e, size) = r
<1> USE NullFacts
<1>1. CASE r.status \notin Pending
  BY <1>1 DEF RecoverExecution
<1>2. CASE r.status \in Pending
  <2>1. PICK u \in {RecoverExecution(l, e, size)} : TRUE
    OBVIOUS
  <2>2. u = [r EXCEPT !.status = "UNKNOWN", !.completion_proof = FALSE,
                      !.ssh_calls = IF t = "direct" /\ @ # 1 THEN Null ELSE @,
                      !.output = size[e]]
    BY <1>2, <2>1 DEF RecoverExecution
  <2>3. /\ u.status = "UNKNOWN" /\ u.completion_proof = FALSE /\ u.approval = r.approval
        /\ u.ssh_calls = IF t = "direct" /\ r.ssh_calls # 1 THEN Null ELSE r.ssh_calls
        /\ u.local_check_calls = r.local_check_calls
        /\ u.logical_session_calls = r.logical_session_calls
        /\ u.remote_command_attempts = r.remote_command_attempts
        /\ u.confirmed = r.confirmed /\ u.master_alive = r.master_alive
    BY <2>2 DEF Execution
  <2>4. Fits(t, u, c, m)
    <3>1. CASE t = "direct"
      BY <1>2, <2>3, <3>1
         DEF Fits, ValidDirect, DirectStatuses, Pending, Confirmed, ExpectedCalls
    <3>2. CASE t = "control-master"
      BY <1>2, <2>3, <3>2 DEF Fits, ValidMaster, MasterStatuses, Pending, Confirmed
    <3>3. QED
      BY <3>1, <3>2 DEF Fits, Transports
  <2>5. QED
    BY <1>2, <2>1, <2>3, <2>4
<1>3. QED
  BY <1>1, <1>2

-----------------------------------------------------------------------------
(* A step of a probe, whatever it does: it leaves every other execution    *)
(* alone, and on disk is the record it had or the record it has.           *)

\* From step to step, over transport t: e has record r in hand and d on disk, client
\* c and remote command m.
Move(p, e, t, r, d, step, c, m) ==
    /\ pc[p] \in ProbeSteps
    /\ e \in Executions /\ e = cur[p]
    /\ t = TransportOf(p)
    /\ r \in Execution /\ r.approval = Rec(p).approval /\ r.status # "absent"
    /\ d \in {ledger.executions[e], r}
    /\ step \in (ProbeSteps \ {"reserve"}) \cup LeaveSteps
    /\ pc' = [pc EXCEPT ![p] = step]
    /\ mem' = [mem EXCEPT ![p] = Put(p, r)]
    /\ ledger' = [ledger EXCEPT !.executions[e] = d]
    /\ client' = [client EXCEPT ![e] = c]
    /\ remote' = remote /\ m = remote[e]
    /\ \A f \in Executions \ {e} : f \in checked => f \in checked'
    /\ UNCHANGED <<cur, output>>
    /\ d.status # "absent" => Fits(t, d, c, m)
    /\ d.remote_command_attempts = 1 => e \in checked'
    /\ d.status \notin Pending \cup {"UNKNOWN", "absent"} => d.output = output[e]
    /\ d.status = "absent" \/ c = "none" => client[e] = "none" /\ c = "none"
    /\ step \in ProbeSteps =>
           /\ Ready(step, t, r, c, m)
           /\ Attested(step, r) => e \in checked'
           /\ d.status \in Pending
           /\ step \in {"launch", "session-launch"} => d = r
           /\ step \in BeforeIntent => d.remote_command_attempts # 1
    /\ step \in LeaveSteps => Reportable(step, t, r, c)

\* A step of a probe that leaves the ledger alone keeps every record honest.
LEMMA ProbeMove ==
    ASSUME Inductive, Inductive', Sound, NEW p \in Procs,
           NEW e, NEW t, NEW r, NEW d, NEW step, NEW c, NEW m,
           Move(p, e, t, r, d, step, c, m)
    PROVE  Sound'
<1> USE DEF Move
<1> USE StepNames
<1>1. CopyOwn(p) /\ Probing(p) /\ lock = p
  BY DEF Inductive, ProbeCopy, Exclusive, Sound
<1>2. PICK a \in Approvals : a = Rec(p).approval
  BY <1>1 DEF CopyOwn
<1>3. /\ \A q \in Procs \ {p} : pc'[q] = pc[q] /\ pc[q] \notin LockedSteps /\ cur'[q] = Null
      /\ pc'[p] = step /\ cur'[p] = e
  BY <1>1, Alone DEF Inductive, TypeOK, Sound
<1>4. /\ ledger'.approvals = ledger.approvals
      /\ ledger'.executions[e] = d
      /\ \A f \in Executions \ {e} : ledger'.executions[f] = ledger.executions[f]
  BY DEF Inductive, TypeOK, Ledger
<1>5. /\ \A f \in Executions \ {e} : client'[f] = client[f]
      /\ client'[e] = c
  BY DEF Inductive, TypeOK
<1>6. /\ mem'[p].approvals = ledger.approvals
      /\ mem'[p].executions[e] = r
  BY <1>1, PutFacts DEF Inductive, TypeOK, CopyOwn
<1>7. /\ Rec(p)' = r /\ TransportOf(p)' = t /\ t = ledger.approvals[a]
  BY <1>1, <1>2, <1>3, <1>6 DEF Rec, TransportOf, CopyOwn
<1>8. /\ d.status # "absent" => d.approval = a
      /\ d.approval \in {a, ledger.executions[e].approval}
      /\ ledger.executions[e].approval \in {a, Null}
      /\ ledger.executions[e].status \notin Pending => ledger.executions[e].status = "absent"
  BY <1>1, <1>2 DEF CopyOwn, Probing
<1>9. \A f \in Executions \ {e} :
          /\ ledger.executions[f].status \notin Unresolved
          /\ ledger.executions[f].approval # a
  BY <1>1, <1>2 DEF Probing
<1>10. ASSUME NEW f \in Executions PROVE DiskOK(f)'
  <2>1. CASE f = e
    BY <1>2, <1>4, <1>5, <1>7, <1>8, <2>1 DEF DiskOK, Sound
  <2>2. CASE f # e
    BY <1>4, <1>5, <2>2 DEF DiskOK, Sound
  <2>3. QED
    BY <2>1, <2>2
<1>11. OneUndecided'
  BY <1>2, <1>4, <1>8, <1>9 DEF OneUndecided, Sound
<1>12. step \in ProbeSteps => Probing(p)'
  BY <1>2, <1>3, <1>4, <1>5, <1>7, <1>9 DEF Probing
<1>13. step \in LeaveSteps => Leaving(p)'
  BY <1>3, <1>5, <1>7 DEF Leaving
<1>14. QED
  BY <1>3, <1>10, <1>11, <1>12, <1>13 DEF Sound

\* A pending record on disk fits whatever becomes of the client, unless it denies one
\* that was not there before.
LEMMA PendingFits ==
    ASSUME NEW t, NEW d, NEW c, NEW b, NEW m, Fits(t, d, b, m), d.status \in Pending,
           \/ b # "none" \/ c = "none"
           \/ IF t = "direct" THEN d.ssh_calls # 0 ELSE d.logical_session_calls # 0
    PROVE  Fits(t, d, c, m)
BY DEF Fits, Pending

\* Before a client is started the record on disk is one that may be followed by it.
LEMMA LaunchShape ==
    ASSUME Inductive, Sound, NEW p \in Procs, pc[p] \in {"launch", "session-launch"}
    PROVE  IF TransportOf(p) = "direct" THEN Rec(p).ssh_calls # 0
                                        ELSE Rec(p).logical_session_calls # 0
<1>1. pc[p] \in ProbeSteps
  BY DEF ProbeSteps, DirectSteps, MasterSteps
<1>2. PICK t : t = TransportOf(p)
  OBVIOUS
<1>3. PICK r \in Execution : r = Rec(p)
  BY <1>1, OwnRecord
<1>4. /\ Shape(pc[p], t, r)
      /\ pc[p] \in DirectSteps => t = "direct"
      /\ pc[p] \in MasterSteps => t = "control-master"
  BY <1>1, <1>2, <1>3 DEF Sound, Probing, Ready
<1>5. CASE pc[p] = "launch"
  BY <1>2, <1>3, <1>4, <1>5, NullFacts DEF Shape, Counts, DirectSteps
<1>6. CASE pc[p] = "session-launch"
  BY <1>2, <1>3, <1>4, <1>6, NullFacts DEF Shape, Counts, MasterSteps
<1>7. QED
  BY <1>5, <1>6

\* A step that updates the record in hand in memory only, or leaves it as it is: the
\* client is started from a launch only, and the answer of the master is dropped
\* before the intent of a session only.
Updating(p, e, t, r, step, c) ==
    /\ pc[p] \in ProbeSteps \ {"reserve"}
    /\ e \in Executions /\ e = cur[p]
    /\ t = TransportOf(p)
    /\ r \in Execution /\ r.approval = Rec(p).approval /\ r.status # "absent"
    /\ step \in ProbeSteps \ {"reserve", "launch", "session-launch"}
    /\ pc' = [pc EXCEPT ![p] = step]
    /\ mem' = [mem EXCEPT ![p] = Put(p, r)]
    /\ client' = [client EXCEPT ![e] = c]
    /\ UNCHANGED <<ledger, cur, output, remote>>
    /\ c = "none" => client[e] = "none"
    /\ c = "none" \/ client[e] # "none" \/ pc[p] \in {"launch", "session-launch"}
    /\ \A f \in Executions \ {e} : f \in checked => f \in checked'
    /\ e \in checked => e \in checked' \/ pc[p] \in BeforeIntent
    /\ Ready(step, t, r, c, remote[e])
    /\ Attested(step, r) => e \in checked'
    /\ step \in BeforeIntent => pc[p] \in BeforeIntent

\* A step that changes only the record in hand keeps every record honest.
LEMMA MemoryMove ==
    ASSUME Inductive, Inductive', Sound, NEW p \in Procs,
           NEW e, NEW t, NEW r, NEW step, NEW c, Updating(p, e, t, r, step, c)
    PROVE  Sound'
<1> USE DEF Updating
<1> USE StepNames
<1>1. CopyOwn(p) /\ Probing(p) /\ DiskOK(e)
  BY DEF Inductive, ProbeCopy, Sound
<1>2. PICK d, m : d = ledger.executions[e] /\ m = remote[e]
  OBVIOUS
<1>3. /\ d.status \in Pending
      /\ pc[p] \in {"launch", "session-launch"} => d = Rec(p)
      /\ pc[p] \in BeforeIntent => d.remote_command_attempts # 1
  BY <1>1, <1>2 DEF Probing
<1>4. d.status # "absent" /\ ledger.approvals[d.approval] = t
  BY <1>1, <1>2, <1>3 DEF CopyOwn, TransportOf, Pending
<1>5. /\ Fits(t, d, client[e], m)
      /\ d.remote_command_attempts = 1 => e \in checked'
  BY <1>1, <1>2, <1>3, <1>4 DEF DiskOK
<1>6. ledger' = [ledger EXCEPT !.executions[e] = d]
  BY <1>2 DEF Inductive, TypeOK, Ledger
<1>7. Fits(t, d, c, m)
  BY <1>2, <1>3, <1>5, PendingFits, LaunchShape
<1>8. /\ d.status \notin Pending \cup {"UNKNOWN", "absent"} => d.output = output[e]
      /\ d.status = "absent" \/ c = "none" => client[e] = "none" /\ c = "none"
      /\ step \in ProbeSteps =>
             /\ Ready(step, t, r, c, m)
             /\ Attested(step, r) => e \in checked'
             /\ d.status \in Pending
             /\ step \in {"launch", "session-launch"} => d = r
             /\ step \in BeforeIntent => d.remote_command_attempts # 1
      /\ step \in LeaveSteps => Reportable(step, t, r, c)
  BY <1>2, <1>3, <1>4
<1>9. step \in (ProbeSteps \ {"reserve"}) \cup LeaveSteps
  OBVIOUS
<1>10. Move(p, e, t, r, d, step, c, m)
  BY <1>2, <1>5, <1>6, <1>7, <1>8, <1>9 DEF Move
<1>11. QED
  BY <1>10, ProbeMove

\* A step that saves: the record in hand is on disk, or the one that was there.
Saving(p, e, t, r, next, error) ==
    /\ pc[p] \in ProbeSteps
    /\ e \in Executions /\ e = cur[p]
    /\ t = TransportOf(p)
    /\ r \in Execution /\ r.approval = Rec(p).approval /\ r.status # "absent"
    /\ next \in (ProbeSteps \ {"reserve"}) \cup LeaveSteps
    /\ error \in (ProbeSteps \ {"reserve", "launch", "session-launch"}) \cup LeaveSteps
    /\ Save(p, Put(p, r), next, error)
    /\ UNCHANGED <<files, lock, cur, environment>>
    /\ Fits(t, r, client[e], remote[e])
    /\ r.remote_command_attempts = 1 => e \in checked
    /\ r.status \notin Pending \cup {"UNKNOWN"} => r.output = output[e]
    /\ \A step \in {next, error} :
           /\ step \in ProbeSteps =>
                  /\ Ready(step, t, r, client[e], remote[e])
                  /\ Attested(step, r) => e \in checked
                  /\ r.status \in Pending
                  /\ step \in BeforeIntent =>
                         pc[p] \in BeforeIntent /\ r.remote_command_attempts # 1
           /\ step \in LeaveSteps => Reportable(step, t, r, client[e])
    /\ pc[p] = "reserve" => error \in LeaveSteps

\* A step that saves the record in hand, or fails to, keeps every record honest.
LEMMA SaveMove ==
    ASSUME Inductive, Inductive', Sound, NEW p \in Procs,
           NEW e, NEW t, NEW r, NEW next, NEW error, Saving(p, e, t, r, next, error)
    PROVE  Sound'
<1> USE DEF Saving
<1> USE StepNames
<1>1. CopyOwn(p) /\ Probing(p) /\ DiskOK(e)
  BY DEF Inductive, ProbeCopy, Sound
<1>2. /\ ledger' = ledger => ledger' = [ledger EXCEPT !.executions[e] = ledger.executions[e]]
      /\ ledger' = Put(p, r) => ledger' = [ledger EXCEPT !.executions[e] = r]
  <2>1. mem[p] \in Ledger /\ ledger \in Ledger
    BY DEF Inductive, TypeOK
  <2>2. [mem[p].executions EXCEPT ![e] = r] = [ledger.executions EXCEPT ![e] = r]
    BY <1>1, <2>1 DEF Ledger, CopyOwn
  <2>3. Put(p, r) = [ledger EXCEPT !.executions[e] = r]
    BY <1>1, <2>1, <2>2 DEF Ledger, CopyOwn, Put
  <2>4. QED
    BY <2>1, <2>3 DEF Ledger
<1>3. PICK c, m : c = client[e] /\ m = remote[e]
  OBVIOUS
<1>4. /\ mem' = [mem EXCEPT ![p] = Put(p, r)]
      /\ client' = [client EXCEPT ![e] = c]
      /\ UNCHANGED <<output, remote, checked, cur>>
  BY <1>3 DEF Save, files, environment, Inductive, TypeOK
<1> DEFINE o == ledger.executions[e]
<1>5. /\ o.status # "absent" => Fits(t, o, c, m)
      /\ o.remote_command_attempts = 1 => e \in checked'
      /\ o.status \notin Pending \cup {"UNKNOWN", "absent"} => o.output = output[e]
      /\ o.status = "absent" => c = "none"
      /\ pc[p] = "reserve" \/ o.status \in Pending
      /\ pc[p] \in BeforeIntent \ {"reserve"} => o.remote_command_attempts # 1
  BY <1>1, <1>3, <1>4 DEF DiskOK, CopyOwn, Probing, TransportOf
<1>6. ASSUME NEW d \in {ledger.executions[e], r}, NEW step \in {next, error},
             d = r \/ (d = o /\ step = error),
             ledger' = [ledger EXCEPT !.executions[e] = d],
             pc' = [pc EXCEPT ![p] = step]
      PROVE  Sound'
  <2>1. /\ d.status # "absent" => Fits(t, d, c, m)
        /\ d.remote_command_attempts = 1 => e \in checked'
        /\ d.status \notin Pending \cup {"UNKNOWN", "absent"} => d.output = output[e]
        /\ d.status = "absent" \/ c = "none" => client[e] = "none" /\ c = "none"
    BY <1>3, <1>4, <1>5, <1>6
  <2>2. step \in ProbeSteps =>
             /\ Ready(step, t, r, c, m)
             /\ Attested(step, r) => e \in checked'
             /\ d.status \in Pending
             /\ step \in {"launch", "session-launch"} => d = r
             /\ step \in BeforeIntent => d.remote_command_attempts # 1
    BY <1>3, <1>4, <1>5, <1>6
  <2>3. step \in LeaveSteps => Reportable(step, t, r, c)
    BY <1>3
  <2>4. /\ step \in (ProbeSteps \ {"reserve"}) \cup LeaveSteps
        /\ \A f \in Executions \ {e} : f \in checked => f \in checked'
    BY <1>4
  <2> HIDE DEF o
  <2>5. Move(p, e, t, r, d, step, c, m)
    BY <1>3, <1>4, <1>6, <2>1, <2>2, <2>3, <2>4 DEF Move
  <2>6. QED
    BY <2>5, ProbeMove
<1>7. o \in {ledger.executions[e], r} /\ r \in {ledger.executions[e], r}
  OBVIOUS
<1>8. QED
  BY <1>2, <1>6, <1>7 DEF Save, Goto

-----------------------------------------------------------------------------
(* The steps of a probe keep Sound.                                        *)

\* What Sound and Inductive say of a probe, by name: execution e over transport t with
\* record o in hand.
InHand(p, e, t, o) ==
    /\ pc[p] \in ProbeSteps
    /\ e \in Executions /\ e = cur[p]
    /\ t \in Transports /\ t = TransportOf(p)
    /\ o \in Execution /\ o = Rec(p) /\ o.approval \in Approvals /\ o.status # "absent"
    /\ Ready(pc[p], t, o, client[e], remote[e])
    /\ Attested(pc[p], o) => e \in checked
    /\ mem \in [Procs -> Ledger] /\ Put(p, o) = mem[p]
    /\ client \in [Executions -> {"none", "live", "gone", "refused"}]
    /\ client[e] = "none" => remote[e] = "none"

\* What a probe has in hand at any of its steps.
LEMMA Hand ==
    ASSUME Inductive, Sound, NEW p \in Procs, pc[p] \in ProbeSteps
    PROVE  \E e, t, o : InHand(p, e, t, o)
<1>1. CopyOwn(p) /\ Probing(p) /\ DiskOK(cur[p])
  BY DEF Inductive, ProbeCopy, Sound, CopyOwn
<1>2. Rec(p) \in Execution /\ mem \in [Procs -> Ledger]
  BY OwnRecord
<1>3. Put(p, Rec(p)) = mem[p]
  BY <1>1, <1>2 DEF Put, Rec, Ledger, CopyOwn
<1>4. PICK e, t, o : e = cur[p] /\ t = TransportOf(p) /\ o = Rec(p)
  OBVIOUS
<1>5. Ready(pc[p], t, o, client[e], remote[e]) /\ (Attested(pc[p], o) => e \in checked)
  BY <1>1, <1>4 DEF Probing
<1>6. t \in Transports
  BY <1>1, <1>4 DEF Probing, Ready, Fits
<1>7. InHand(p, e, t, o)
  <2>1. client \in [Executions -> {"none", "live", "gone", "refused"}]
    BY DEF Inductive, TypeOK
  <2>2. client[e] = "none" => remote[e] = "none"
    BY <1>1, <1>4 DEF DiskOK
  <2>3. mem \in [Procs -> Ledger] /\ Put(p, o) = mem[p]
    BY <1>2, <1>3, <1>4
  <2>4. /\ e \in Executions
        /\ o \in Execution /\ o.approval \in Approvals /\ o.status # "absent"
    BY <1>1, <1>2, <1>4 DEF CopyOwn
  <2>5. QED
    BY <1>4, <1>5, <1>6, <2>1, <2>2, <2>3, <2>4 DEF InHand
<1>8. QED
  BY <1>7

\* A record with another status says the same otherwise.
LEMMA StatusFacts ==
    ASSUME NEW o \in Execution, NEW s \in Statuses
    PROVE  LET r == [o EXCEPT !.status = s]
           IN  /\ r \in Execution /\ r.status = s /\ r.approval = o.approval
               /\ r.local_check_calls = o.local_check_calls
               /\ r.master_alive = o.master_alive
               /\ r.logical_session_calls = o.logical_session_calls
               /\ r.remote_command_attempts = o.remote_command_attempts
               /\ r.confirmed = o.confirmed
               /\ r.ssh_calls = o.ssh_calls
               /\ r.completion_proof = o.completion_proof
BY DEF Execution

\* A step that updates the record and leaves the client alone.
LEMMA QuietMove ==
    ASSUME Inductive, Inductive', Sound, NEW p \in Procs,
           NEW e, NEW t, NEW o, InHand(p, e, t, o), pc[p] # "reserve",
           NEW r \in Execution, r.approval = o.approval, r.status # "absent",
           NEW step \in ProbeSteps \ {"reserve", "launch", "session-launch"},
           Update(p, r, step), UNCHANGED <<output, cur, client, remote>>,
           \A f \in Executions \ {e} : f \in checked => f \in checked',
           e \in checked => e \in checked' \/ pc[p] \in BeforeIntent,
           Ready(step, t, r, client[e], remote[e]),
           Attested(step, r) => e \in checked',
           step \in BeforeIntent => pc[p] \in BeforeIntent
    PROVE  Sound'
<1>1. PICK c : c = client[e]
  OBVIOUS
<1>2. client' = [client EXCEPT ![e] = c]
  BY <1>1 DEF InHand
<1>3. Updating(p, e, t, r, step, c)
  BY <1>1, <1>2 DEF Updating, InHand, Update, Goto
<1>4. QED
  BY <1>3, MemoryMove

\* A step that only decides.
LEMMA GotoMove ==
    ASSUME Inductive, Inductive', Sound, NEW p \in Procs,
           NEW e, NEW t, NEW o, InHand(p, e, t, o), pc[p] # "reserve",
           NEW step \in ProbeSteps \ {"reserve", "launch", "session-launch"},
           Goto(p, step), UNCHANGED <<mem, ledger>>, UNCHANGED <<files, lock, cur, environment>>,
           Ready(step, t, o, client[e], remote[e]),
           Attested(step, o) => e \in checked,
           step \in BeforeIntent => pc[p] \in BeforeIntent
    PROVE  Sound'
<1>1. Update(p, o, step)
  BY DEF Update, InHand
<1>2. UNCHANGED <<output, cur, client, remote, checked>>
  BY DEF files, environment
<1>3. QED
  BY <1>1, <1>2, QuietMove DEF InHand

\* The end of a control-master probe that opened no session: n checks were answered.
Ending(p, e, t, o, r, n, alive, attempts) ==
    /\ InHand(p, e, t, o)
    /\ t = "control-master" /\ pc[p] \in Sessionless \ {"reserve"}
    /\ r \in Execution /\ r.approval = o.approval
    /\ r.status \in {"MASTER_UNAVAILABLE", "MASTER_LOST", "LOCAL_STOP"}
    /\ n \in {0, 1} /\ alive \in BOOLEAN /\ attempts \in {0, 1}
    /\ Counts(r, n, alive, 0, attempts, 0, n)
    /\ alive => n = 1
    /\ attempts = 1 => alive
    /\ r.status = "MASTER_UNAVAILABLE" => ~alive
    /\ r.status = "MASTER_LOST" => alive
    /\ Update(p, r, "final")
    /\ UNCHANGED <<output, cur, client, remote>>
    /\ \A f \in Executions \ {e} : f \in checked => f \in checked'
    /\ e \in checked => e \in checked' \/ pc[p] \in BeforeIntent
    /\ attempts = 1 => e \in checked'

\* A probe that decides its record and goes on to save it keeps every record honest.
LEMMA Undone ==
    ASSUME Inductive, Inductive', Sound, NEW p \in Procs,
           NEW e, NEW t, NEW o, NEW r, NEW n, NEW alive, NEW attempts,
           Ending(p, e, t, o, r, n, alive, attempts)
    PROVE  Sound'
<1> USE DEF Ending
<1>1. client[e] = "none"
  BY DEF InHand, Ready
<1>2. Fits(t, r, "none", remote[e])
  BY NullFacts DEF Fits, Counts, ValidMaster, MasterStatuses, Pending, Confirmed, Observed, Transports
<1>3. Ready("final", t, r, client[e], remote[e])
  BY <1>1, <1>2 DEF Ready, Shape, Pending, Started, DirectSteps, MasterSteps, Sessionless, BeforeSession
<1>4. Attested("final", r) => e \in checked'
  BY DEF Attested, AfterAnswer, Counts
<1>5. "final" \in ProbeSteps /\ "final" \notin BeforeIntent
  BY DEF ProbeSteps, BeforeIntent, Sessionless, BeforeSession
<1>6. pc[p] # "reserve" /\ r.status # "absent"
  OBVIOUS
<1>7. QED
  BY <1>3, <1>4, <1>5, <1>6, QuietMove

\* The end of a direct probe whose client was started.
LEMMA DirectOver ==
    ASSUME Inductive, Inductive', Sound, NEW p \in Procs,
           NEW e, NEW t, NEW o, InHand(p, e, t, o), pc[p] \in {"running", "wait", "abort"},
           NEW r \in Execution, r.approval = o.approval, r.ssh_calls = o.ssh_calls,
           r.remote_command_attempts = o.remote_command_attempts,
           r.status \in {"UNKNOWN", "CONNECTION_STOP"} \cup Confirmed,
           r.completion_proof <=> r.status \in Confirmed,
           r.status = "COMPLETE" => remote[e] = "exit0",
           r.status = "REMOTE_FAILED" => remote[e] = "exitN",
           NEW c \in {"gone", "refused"}, client' = [client EXCEPT ![e] = c],
           Update(p, r, "final"), UNCHANGED <<output, cur, checked, remote>>
    PROVE  Sound'
<1>1. pc[p] \in ProbeSteps \ {"reserve"} /\ t = "direct" /\ o.ssh_calls = 1
      /\ o.remote_command_attempts = 0
  BY DEF InHand, Ready, Shape, Counts, DirectSteps, ProbeSteps
<1>2. Fits(t, r, c, remote[e])
  BY <1>1, NullFacts DEF Fits, ValidDirect, DirectStatuses, ExpectedCalls, Pending, Confirmed, Transports
<1>3. c # "live" /\ client[e] # "none"
  BY DEF InHand, Ready, Started
<1>4. Ready("final", t, r, c, remote[e])
  BY <1>2, <1>3 DEF Ready, Shape, Pending, Started, Confirmed, DirectSteps, MasterSteps, Sessionless, BeforeSession
<1>5. ~Attested("final", r)
  BY <1>1 DEF Attested, AfterAnswer
<1>6. "final" \in ProbeSteps /\ "final" \notin BeforeIntent
  BY DEF ProbeSteps, BeforeIntent, Sessionless, BeforeSession
<1>7. c # "none"
  OBVIOUS
<1>8. Updating(p, e, t, r, "final", c)
  BY <1>1, <1>3, <1>4, <1>5, <1>6, <1>7 DEF Updating, InHand, Update, Goto, Confirmed
<1>9. QED
  BY <1>8, MemoryMove

\* The same for a control-master session.
LEMMA SessionOver ==
    ASSUME Inductive, Inductive', Sound, NEW p \in Procs,
           NEW e, NEW t, NEW o, InHand(p, e, t, o),
           pc[p] \in {"session-running", "session-wait", "session-abort"},
           NEW r \in Execution, r.approval = o.approval,
           r.status \in {"UNKNOWN", "MASTER_LOST"} \cup Confirmed,
           r.local_check_calls = 1, r.master_alive, r.logical_session_calls = 1,
           r.remote_command_attempts = 1, r.ssh_calls = 2,
           r.confirmed = IF r.status \in Confirmed THEN 1 ELSE Null,
           r.completion_proof <=> r.status \in Confirmed,
           r.status = "COMPLETE" => remote[e] = "exit0",
           r.status = "REMOTE_FAILED" => remote[e] = "exitN",
           NEW c \in {"gone", "refused"}, client' = [client EXCEPT ![e] = c],
           Update(p, r, "final"), UNCHANGED <<output, cur, checked, remote>>
    PROVE  Sound'
<1>1. pc[p] \in ProbeSteps \ {"reserve"} /\ t = "control-master" /\ e \in checked
  BY DEF InHand, Ready, MasterSteps, ProbeSteps, Attested, AfterAnswer
<1>2. Fits(t, r, c, remote[e])
  BY <1>1, NullFacts
     DEF Fits, Counts, ValidMaster, MasterStatuses, Pending, Confirmed, Observed, Transports, Execution
<1>3. c # "live" /\ client[e] # "none"
  BY DEF InHand, Ready, Started
<1>4. Ready("final", t, r, c, remote[e])
  BY <1>2, <1>3 DEF Ready, Shape, Pending, Started, Confirmed, DirectSteps, MasterSteps, Sessionless,
     BeforeSession
<1>6. "final" \in ProbeSteps /\ "final" \notin BeforeIntent
  BY DEF ProbeSteps, BeforeIntent, Sessionless, BeforeSession
<1>7. c # "none"
  OBVIOUS
<1>8. Updating(p, e, t, r, "final", c)
  BY <1>1, <1>3, <1>4, <1>6, <1>7 DEF Updating, InHand, Update, Goto, Confirmed
<1>9. QED
  BY <1>8, MemoryMove

\* What a client that ended, or was killed, leaves behind.
LEMMA ClientGone ==
    ASSUME NEW p, NEW e, NEW t, NEW o, InHand(p, e, t, o), client[e] # "none",
           KillClient(p) \/ \E kind : ClientEnds(p, kind)
    PROVE  \E c \in {"gone", "refused"} :
               client' = [client EXCEPT ![e] = c] /\ UNCHANGED <<remote, launches>>
<1>1. client[e] \in {"live", "gone", "refused"} /\ e = cur[p]
  BY DEF InHand
<1>2. CASE KillClient(p)
  <2>1. PICK c \in {"gone", "refused"} : c = IF client[e] = "live" THEN "gone" ELSE client[e]
    BY <1>1
  <2>2. client' = [client EXCEPT ![e] = c]
    BY <1>1, <1>2, <2>1 DEF KillClient
  <2>3. QED
    BY <1>2, <2>2 DEF KillClient
<1>3. CASE \E kind : ClientEnds(p, kind)
  <2>1. PICK kind : ClientEnds(p, kind)
    BY <1>3
  <2>2. PICK c \in {"gone", "refused"} :
            c = IF kind = "fatal" /\ remote[e] = "none" THEN "refused" ELSE "gone"
    OBVIOUS
  <2>3. client' = [client EXCEPT ![e] = c]
    BY <1>1, <2>1, <2>2 DEF ClientEnds
  <2>4. QED
    BY <2>1, <2>3 DEF ClientEnds
<1>4. QED
  BY <1>2, <1>3

\* The direct probe keeps Sound: its client is started after the reservation is on
\* disk, and what it reports afterwards is what the client and the command did.
LEMMA DirectSound ==
    ASSUME Inductive, Inductive', Sound, NEW p \in Procs, ProbeDirect(p) \/ DirectEnds(p)
    PROVE  Sound'
<1> USE NullFacts DEF ProbeSteps, DirectSteps
<1>0. pc[p] \in DirectSteps
  BY DEF ProbeDirect, LaunchDirect, DirectNotLaunched, SaveRunning, DirectAborts, DirectEnds
<1>1. PICK e, t, o : InHand(p, e, t, o)
  BY <1>0, Hand
<1>2. /\ e \in Executions /\ e = cur[p] /\ o \in Execution /\ o = Rec(p) /\ o.status # "absent"
      /\ t = "direct" /\ Shape(pc[p], t, o) /\ mem[p] = Put(p, o)
      /\ Fits(t, o, client[e], remote[e])
      /\ pc[p] \in Sessionless => client[e] = "none"
      /\ pc[p] \in Started => client[e] # "none"
  BY <1>0, <1>1 DEF InHand, Ready
<1>3. CASE LaunchDirect(p)
  <2> DEFINE r == [o EXCEPT !.status = "RUNNING", !.ssh_calls = 1]
  <2>1. /\ pc[p] = "launch" /\ Update(p, r, "running")
        /\ client' = [client EXCEPT ![e] = "live"]
        /\ UNCHANGED <<checked, output, cur, remote>>
    BY <1>2, <1>3 DEF LaunchDirect, StartClient, files
  <2>2. /\ r \in Execution /\ r.approval = o.approval /\ r.status = "RUNNING"
        /\ Counts(o, 0, FALSE, 0, 0, 0, Null) => Counts(r, 0, FALSE, 0, 0, 0, 1)
    BY <1>2 DEF Execution, Statuses, DirectStatuses, Pending, Counts
  <2> HIDE DEF r
  <2>3. Shape("running", t, r)
    BY <1>2, <2>1, <2>2 DEF Shape
  <2>4. Ready("running", t, r, "live", remote[e])
    BY <1>2, <2>3, ShapeFits
       DEF Ready, MasterSteps, Sessionless, BeforeSession, Started, Transports
  <2>5. ~Attested("running", r) /\ "running" \notin BeforeIntent
    BY <2>3 DEF Attested, AfterAnswer, BeforeIntent, Sessionless, BeforeSession, Shape, Counts
  <2>6. Updating(p, e, t, r, "running", "live")
    BY <1>1, <2>1, <2>2, <2>4, <2>5 DEF Updating, InHand, Update, Goto
  <2>7. QED
    BY <2>6, MemoryMove
<1>4. CASE DirectNotLaunched(p)
  <2> DEFINE r == [o EXCEPT !.status = "LAUNCH_FAILED", !.ssh_calls = 0]
  <2>1. /\ pc[p] = "launch" /\ Update(p, r, "final")
        /\ UNCHANGED <<checked, output, cur, client, remote>>
    BY <1>2, <1>4 DEF DirectNotLaunched, files, environment
  <2>2. /\ r \in Execution /\ r.approval = o.approval /\ r.status = "LAUNCH_FAILED"
        /\ Counts(o, 0, FALSE, 0, 0, 0, Null) => Counts(r, 0, FALSE, 0, 0, 0, 0)
    BY <1>2 DEF Execution, Statuses, DirectStatuses, Pending, Counts
  <2> HIDE DEF r
  <2>3. Counts(r, 0, FALSE, 0, 0, 0, 0) /\ client[e] = "none"
    BY <1>2, <2>1, <2>2 DEF Shape, Sessionless, BeforeSession
  <2>4. Fits(t, r, "none", remote[e])
    BY <1>2, <2>2, <2>3
       DEF Fits, Counts, ValidDirect, DirectStatuses, ExpectedCalls, Pending, Confirmed, Transports
  <2>5. Ready("final", t, r, client[e], remote[e])
    BY <2>2, <2>3, <2>4
       DEF Ready, Shape, Pending, MasterSteps, Sessionless, BeforeSession, Started
  <2>6. ~Attested("final", r) /\ "final" \notin BeforeIntent
    BY <2>3 DEF Attested, AfterAnswer, BeforeIntent, Sessionless, BeforeSession, Counts
  <2>7. pc[p] # "reserve" /\ r.status # "absent"
    BY <2>1, <2>2
  <2>8. QED
    BY <1>1, <2>1, <2>2, <2>5, <2>6, <2>7, QuietMove
<1>5. CASE SaveRunning(p)
  <2>1. /\ pc[p] = "running" /\ Save(p, Put(p, o), "wait", "abort")
        /\ UNCHANGED <<files, lock, cur, environment>>
    BY <1>2, <1>5 DEF SaveRunning
  <2>2. o.status = "RUNNING" /\ o.remote_command_attempts = 0
    BY <1>2, <2>1 DEF Shape, Counts
  <2>3. \A step \in {"wait", "abort"} :
            /\ Ready(step, t, o, client[e], remote[e])
            /\ ~Attested(step, o) /\ step \notin BeforeIntent
    <3> SUFFICES ASSUME NEW step \in {"wait", "abort"}
                 PROVE  /\ Ready(step, t, o, client[e], remote[e])
                        /\ ~Attested(step, o) /\ step \notin BeforeIntent
      OBVIOUS
    <3>1. Shape(step, t, o)
      BY <1>2, <2>1 DEF Shape
    <3>2. Ready(step, t, o, client[e], remote[e])
      BY <1>2, <2>1, <3>1 DEF Ready, MasterSteps, Sessionless, BeforeSession, Started
    <3>3. ~Attested(step, o) /\ step \notin BeforeIntent
      BY <2>2 DEF Attested, AfterAnswer, Sessionless, BeforeSession, BeforeIntent
    <3>4. QED
      BY <3>2, <3>3
  <2>4. Saving(p, e, t, o, "wait", "abort")
    BY <1>1, <1>2, <2>1, <2>2, <2>3 DEF Saving, InHand, Pending, LeaveSteps
  <2>5. QED
    BY <2>4, SaveMove
<1>6. ASSUME NEW s \in {"UNKNOWN", "CONNECTION_STOP"} \cup Confirmed,
             pc[p] \in {"wait", "abort"},
             \/ Update(p, [o EXCEPT !.status = s], "final") /\ s \notin Confirmed
             \/ Update(p, [o EXCEPT !.status = s, !.completion_proof = TRUE], "final")
                /\ s \in Confirmed,
             s = "COMPLETE" => remote[e] = "exit0",
             s = "REMOTE_FAILED" => remote[e] = "exitN",
             KillClient(p) \/ \E kind : ClientEnds(p, kind),
             UNCHANGED <<files, lock, cur>>
      PROVE  Sound'
  <2>1. client[e] # "none" /\ ~o.completion_proof
    BY <1>2, <1>6 DEF Started, Shape, Counts
  <2>2. PICK c \in {"gone", "refused"} :
            client' = [client EXCEPT ![e] = c] /\ UNCHANGED <<remote, launches>>
    BY <1>1, <1>6, <2>1, ClientGone
  <2>3. PICK r : /\ Update(p, r, "final")
                 /\ \/ r = [o EXCEPT !.status = s] /\ s \notin Confirmed
                    \/ r = [o EXCEPT !.status = s, !.completion_proof = TRUE] /\ s \in Confirmed
    <3>1. CASE s \in Confirmed
      <4>1. PICK r : r = [o EXCEPT !.status = s, !.completion_proof = TRUE]
        OBVIOUS
      <4>2. QED
        BY <1>6, <3>1, <4>1
    <3>2. CASE s \notin Confirmed
      <4>1. PICK r : r = [o EXCEPT !.status = s]
        OBVIOUS
      <4>2. QED
        BY <1>6, <3>2, <4>1
    <3>3. QED
      BY <3>1, <3>2
  <2>4. /\ r \in Execution /\ r.approval = o.approval /\ r.ssh_calls = o.ssh_calls
        /\ r.remote_command_attempts = o.remote_command_attempts
        /\ r.status = s
        /\ r.completion_proof <=> s \in Confirmed
    <3>1. s \in Statuses
      BY <1>6 DEF Statuses, DirectStatuses, Confirmed
    <3>2. o \in Execution /\ ~o.completion_proof
      BY <1>2, <2>1
    <3>3. CASE r = [o EXCEPT !.status = s] /\ s \notin Confirmed
      BY <3>1, <3>2, <3>3 DEF Execution
    <3>4. CASE r = [o EXCEPT !.status = s, !.completion_proof = TRUE] /\ s \in Confirmed
      BY <3>1, <3>2, <3>4 DEF Execution
    <3>5. QED
      BY <2>3, <3>3, <3>4
  <2>5. UNCHANGED <<output, cur, checked, remote>>
    BY <1>6, <2>2 DEF files
  <2>6. QED
    <3>1. pc[p] \in {"running", "wait", "abort"} /\ Update(p, r, "final")
      BY <1>6, <2>3
    <3>2. /\ r.status \in {"UNKNOWN", "CONNECTION_STOP"} \cup Confirmed
          /\ r.completion_proof <=> r.status \in Confirmed
          /\ r.status = "COMPLETE" => remote[e] = "exit0"
          /\ r.status = "REMOTE_FAILED" => remote[e] = "exitN"
      BY <1>6, <2>4
    <3>3. QED
      BY <1>1, <2>2, <2>4, <2>5, <3>1, <3>2, DirectOver
<1>7. CASE DirectAborts(p)
  BY <1>2, <1>6, <1>7 DEF DirectAborts, Confirmed
<1>8. CASE DirectEnds(p)
  <2>1. PICK kind \in {"marker", "fatal", "other"} :
            ClientEnds(p, kind) /\ Update(p, DirectOutcome(p, kind), "final")
    BY <1>8 DEF DirectEnds
  <2>2. pc[p] = "wait" /\ UNCHANGED <<files, lock, cur>>
    BY <1>8 DEF DirectEnds
  <2>3. CASE kind = "marker"
    <3>1. PICK s : s = CompletedStatus(p)
      OBVIOUS
    <3>2. /\ Update(p, [o EXCEPT !.status = s, !.completion_proof = TRUE], "final")
          /\ s \in Confirmed
          /\ s = "COMPLETE" => remote[e] = "exit0"
          /\ s = "REMOTE_FAILED" => remote[e] = "exitN"
      BY <1>2, <2>1, <2>3, <3>1
         DEF DirectOutcome, CompletedStatus, Confirmed, ClientEnds, Marker
    <3>3. QED
      BY <1>6, <2>1, <2>2, <3>2
  <2>4. CASE kind \in {"fatal", "other"}
    <3>1. PICK s \in {"UNKNOWN", "CONNECTION_STOP"} :
              Update(p, [o EXCEPT !.status = s], "final")
      BY <1>2, <2>1, <2>4 DEF DirectOutcome
    <3>2. QED
      BY <1>6, <2>1, <2>2, <3>1 DEF Confirmed
  <2>5. QED
    BY <2>3, <2>4
<1>9. QED
  BY <1>3, <1>4, <1>5, <1>7, <1>8 DEF ProbeDirect

\* A control-master step that goes on with the record as it is, updated or not, to a
\* step before the session, or to a step that fits after a save.
LEMMA ReadyNext ==
    ASSUME NEW p, NEW e, NEW t, NEW o, InHand(p, e, t, o), t = "control-master",
           NEW step \in MasterSteps, NEW r, Shape(step, t, r),
           NEW c, step \in Sessionless => c = "none", step \in Started => c # "none"
    PROVE  r.status \in Pending /\ Ready(step, t, r, c, remote[e])
<1>1. step \in ProbeSteps \ {"final"} /\ step \notin DirectSteps
  BY DEF ProbeSteps, MasterSteps, DirectSteps
<1>2. r.status \in Pending /\ Fits(t, r, c, remote[e])
  BY <1>1, ShapeFits DEF Transports
<1>3. QED
  BY <1>1, <1>2 DEF Ready, MasterSteps

\* The steps of a control-master probe up to the answer of the master.
LEMMA CheckSound ==
    ASSUME Inductive, Inductive', Sound, NEW p \in Procs,
           \/ \E socket \in SocketStates : SocketCheck(p, socket)
           \/ CheckIntent(p) \/ CheckLaunch(p) \/ CheckNotLaunched(p) \/ CheckRunning(p)
           \/ CheckFails(p) \/ CheckAborts(p) \/ CheckPasses(p)
    PROVE  Sound'
<1> USE NullFacts
<1>0. pc[p] \in {"socket", "check-intent", "check-launch", "check-none", "check-running",
                 "check-wait", "check-abort"}
  BY DEF SocketCheck, CheckIntent, CheckLaunch, CheckNotLaunched, CheckRunning, CheckFails,
         CheckAborts, CheckPasses
<1>1. PICK e, t, o : InHand(p, e, t, o)
  BY <1>0, Hand DEF ProbeSteps, MasterSteps
<1>2. /\ e \in Executions /\ e = cur[p] /\ o \in Execution /\ o = Rec(p) /\ o.status # "absent"
      /\ t = "control-master" /\ Shape(pc[p], t, o) /\ mem[p] = Put(p, o)
      /\ client[e] = "none" /\ pc[p] \in (BeforeIntent \cap MasterSteps) \ {"reserve"}
      /\ Fits(t, o, client[e], remote[e])
  BY <1>0, <1>1 DEF InHand, Ready, MasterSteps, BeforeIntent, Sessionless, BeforeSession
<1>3. o.status \in Pending /\ o.remote_command_attempts = 0
  BY <1>0, <1>2 DEF Shape, Counts, Pending
<1>4. ASSUME NEW socket \in SocketStates, SocketCheck(p, socket) PROVE Sound'
  <2>1. pc[p] = "socket" /\ UNCHANGED <<files, lock, cur, environment>>
    BY <1>4 DEF SocketCheck
  <2>2. Counts(o, 0, FALSE, 0, 0, 0, 0)
    BY <1>2, <2>1 DEF Shape
  <2>3. ASSUME NEW s \in {"MASTER_UNAVAILABLE", "LOCAL_STOP"},
               Update(p, [o EXCEPT !.status = s], "final")
        PROVE  Sound'
    <3> DEFINE r == [o EXCEPT !.status = s]
    <3>1. r \in Execution /\ r.approval = o.approval /\ r.status = s /\ Counts(r, 0, FALSE, 0, 0, 0, 0)
      BY <1>2, <2>2, StatusFacts DEF Counts, Statuses, MasterStatuses
    <3>2. Update(p, r, "final") /\ UNCHANGED <<output, cur, client, remote, checked>>
      BY <2>1, <2>3 DEF files, environment
    <3> HIDE DEF r
    <3>3. PICK alive \in BOOLEAN : ~alive
      OBVIOUS
    <3>4. Counts(r, 0, alive, 0, 0, 0, 0)
      BY <3>1, <3>3 DEF Counts
    <3>5. Ending(p, e, t, o, r, 0, alive, 0)
      BY <1>1, <1>2, <3>1, <3>2, <3>3, <3>4 DEF Ending, BeforeIntent
    <3>6. QED
      BY <3>5, Undone
  <2>4. CASE Goto(p, "check-intent") /\ UNCHANGED <<mem, ledger>>
    <3>1. Shape("check-intent", t, o)
      BY <1>2, <2>1 DEF Shape
    <3>2. Ready("check-intent", t, o, client[e], remote[e])
      BY <1>1, <1>2, <3>1, ReadyNext DEF MasterSteps, Started
    <3>3. ~Attested("check-intent", o)
      BY <1>3 DEF Attested, AfterAnswer
    <3>4. "check-intent" \in ProbeSteps \ {"reserve", "launch", "session-launch"} /\ pc[p] # "reserve"
      BY <2>1 DEF ProbeSteps, MasterSteps
    <3>5. QED
      BY <1>1, <1>2, <2>1, <2>4, <3>2, <3>3, <3>4, GotoMove
  <2>5. QED
    BY <1>2, <1>4, <2>3, <2>4 DEF SocketCheck, SocketStates
<1>5. CASE CheckIntent(p)
  <2> DEFINE r == [o EXCEPT !.local_check_calls = Null, !.ssh_calls = Null]
  <2>1. /\ pc[p] = "check-intent" /\ Save(p, Put(p, r), "check-launch", "check-none")
        /\ UNCHANGED <<files, lock, cur, environment>>
    BY <1>2, <1>5 DEF CheckIntent
  <2>2. /\ r \in Execution /\ r.approval = o.approval /\ r.status = o.status
        /\ o.status = "RESERVED" /\ Counts(r, Null, FALSE, 0, 0, 0, Null)
    BY <1>2, <2>1 DEF Execution, Counts, Shape
  <2> HIDE DEF r
  <2>3. ASSUME NEW step \in {"check-launch", "check-none"}
        PROVE  Ready(step, t, r, client[e], remote[e]) /\ ~Attested(step, r)
    <3>1. Shape(step, t, r)
      BY <2>2 DEF Shape
    <3>2. Ready(step, t, r, client[e], remote[e])
      BY <1>1, <1>2, <3>1, ReadyNext DEF MasterSteps, Started
    <3>3. QED
      BY <2>2, <3>2 DEF Attested, AfterAnswer, Counts
  <2>4. Fits(t, r, client[e], remote[e])
    BY <2>3 DEF Ready
  <2>5. Saving(p, e, t, r, "check-launch", "check-none")
    BY <1>1, <1>2, <1>3, <2>1, <2>2, <2>3, <2>4
       DEF Saving, InHand, Counts, ProbeSteps, MasterSteps, LeaveSteps
  <2>6. QED
    BY <2>5, SaveMove
<1>6. CASE CheckLaunch(p)
  <2>1. pc[p] = "check-launch" /\ UNCHANGED <<files, lock, cur, environment>>
    BY <1>6 DEF CheckLaunch
  <2>2. CASE Goto(p, "check-none") /\ UNCHANGED <<mem, ledger>>
    <3>1. Shape("check-none", t, o)
      BY <1>2, <2>1 DEF Shape
    <3>2. Ready("check-none", t, o, client[e], remote[e])
      BY <1>1, <1>2, <3>1, ReadyNext DEF MasterSteps, Started
    <3>3. ~Attested("check-none", o)
      BY <1>3 DEF Attested, AfterAnswer
    <3>4. "check-none" \in ProbeSteps \ {"reserve", "launch", "session-launch"} /\ pc[p] # "reserve"
      BY <2>1 DEF ProbeSteps, MasterSteps
    <3>5. QED
      BY <1>1, <1>2, <2>1, <2>2, <3>2, <3>3, <3>4, GotoMove
  <2> DEFINE r == [o EXCEPT !.status = "RUNNING", !.local_check_calls = 1, !.ssh_calls = 1]
  <2>3. CASE Update(p, r, "check-running")
    <3>1. /\ r \in Execution /\ r.approval = o.approval /\ r.status = "RUNNING"
          /\ Counts(r, 1, FALSE, 0, 0, 0, 1)
      BY <1>2, <2>1 DEF Execution, Counts, Shape, Statuses, DirectStatuses, Pending
    <3>2. Update(p, r, "check-running") /\ UNCHANGED <<output, cur, client, remote, checked>>
      BY <2>1, <2>3 DEF files, environment
    <3> HIDE DEF r
    <3>3. Shape("check-running", t, r)
      BY <3>1 DEF Shape, Counts
    <3>4. Ready("check-running", t, r, client[e], remote[e])
      BY <1>1, <1>2, <3>3, ReadyNext DEF MasterSteps, Started
    <3>5. ~Attested("check-running", r)
      BY <3>1 DEF Attested, AfterAnswer, Counts
    <3>6. /\ "check-running" \in ProbeSteps \ {"reserve", "launch", "session-launch"}
          /\ pc[p] # "reserve" /\ r.status # "absent"
      BY <2>1, <3>1 DEF ProbeSteps, MasterSteps
    <3>7. QED
      BY <1>1, <1>2, <3>1, <3>2, <3>4, <3>5, <3>6, QuietMove
  <2>4. QED
    BY <1>2, <1>6, <2>2, <2>3 DEF CheckLaunch
<1>7. CASE CheckNotLaunched(p)
  <2> DEFINE r == [o EXCEPT !.status = "LOCAL_STOP", !.local_check_calls = 0, !.ssh_calls = 0]
  <2>1. /\ pc[p] = "check-none" /\ Update(p, r, "final")
        /\ UNCHANGED <<output, cur, client, remote, checked>>
    BY <1>2, <1>7 DEF CheckNotLaunched, files, environment
  <2>2. /\ r \in Execution /\ r.approval = o.approval /\ r.status = "LOCAL_STOP"
        /\ Counts(r, 0, FALSE, 0, 0, 0, 0)
    BY <1>2, <2>1 DEF Execution, Counts, Shape, Statuses, MasterStatuses
  <2> HIDE DEF r
  <2>3. PICK alive \in BOOLEAN : ~alive
    OBVIOUS
  <2>4. Counts(r, 0, alive, 0, 0, 0, 0)
    BY <2>2, <2>3 DEF Counts
  <2>5. Ending(p, e, t, o, r, 0, alive, 0)
    BY <1>1, <1>2, <2>1, <2>2, <2>3, <2>4 DEF Ending, BeforeIntent
  <2>6. QED
    BY <2>5, Undone
<1>8. CASE CheckRunning(p)
  <2>1. /\ pc[p] = "check-running" /\ Save(p, Put(p, o), "check-wait", "check-abort")
        /\ UNCHANGED <<files, lock, cur, environment>>
    BY <1>2, <1>8 DEF CheckRunning
  <2>2. ASSUME NEW step \in {"check-wait", "check-abort"}
        PROVE  Ready(step, t, o, client[e], remote[e]) /\ ~Attested(step, o)
    <3>1. Shape(step, t, o)
      BY <1>2, <2>1 DEF Shape
    <3>2. Ready(step, t, o, client[e], remote[e])
      BY <1>1, <1>2, <3>1, ReadyNext DEF MasterSteps, Started
    <3>3. QED
      BY <1>3, <3>2 DEF Attested, AfterAnswer
  <2>3. Saving(p, e, t, o, "check-wait", "check-abort")
    BY <1>1, <1>2, <1>3, <2>1, <2>2
       DEF Saving, InHand, ProbeSteps, MasterSteps, LeaveSteps
  <2>4. QED
    BY <2>3, SaveMove
<1>9. CASE CheckFails(p) \/ CheckAborts(p)
  <2>1. PICK s \in {"MASTER_UNAVAILABLE", "LOCAL_STOP"} :
            /\ Update(p, [o EXCEPT !.status = s], "final")
            /\ s = "MASTER_UNAVAILABLE" => pc[p] = "check-wait"
    BY <1>2, <1>9 DEF CheckFails, CheckAborts
  <2>2. pc[p] \in {"check-wait", "check-abort"} /\ UNCHANGED <<output, cur, client, remote>>
    BY <1>9 DEF CheckFails, CheckAborts, files, environment
  <2>3. \A f \in Executions \ {e} : f \in checked => f \in checked'
    BY <1>2, <1>9 DEF CheckFails, CheckAborts, files
  <2>4. PICK alive \in BOOLEAN : alive = o.master_alive
    BY <1>2 DEF Execution
  <2> DEFINE r == [o EXCEPT !.status = s]
  <2>5. /\ r \in Execution /\ r.approval = o.approval /\ r.status = s
        /\ Counts(r, 1, alive, 0, 0, 0, 1)
        /\ pc[p] = "check-wait" => ~alive
    BY <1>2, <2>2, <2>4, StatusFacts DEF Counts, Shape, Statuses, MasterStatuses
  <2>6. Update(p, r, "final")
    BY <2>1
  <2> HIDE DEF r
  <2>7. Ending(p, e, t, o, r, 1, alive, 0)
    BY <1>1, <1>2, <2>1, <2>2, <2>3, <2>5, <2>6 DEF Ending, BeforeIntent
  <2>8. QED
    BY <2>7, Undone
<1>10. CASE CheckPasses(p)
  <2> DEFINE r == [o EXCEPT !.master_alive = TRUE]
  <2>1. /\ pc[p] = "check-wait" /\ Update(p, r, "alive") /\ checked' = checked \cup {e}
        /\ UNCHANGED <<output, cur, client, remote>>
    BY <1>2, <1>10 DEF CheckPasses, environment
  <2>2. /\ r \in Execution /\ r.approval = o.approval /\ r.status = "RUNNING"
        /\ Counts(r, 1, TRUE, 0, 0, 0, 1)
    BY <1>2, <2>1 DEF Execution, Counts, Shape
  <2> HIDE DEF r
  <2>3. Shape("alive", t, r)
    BY <2>2 DEF Shape
  <2>4. Ready("alive", t, r, client[e], remote[e])
    BY <1>1, <1>2, <2>3, ReadyNext DEF MasterSteps, Started
  <2>5. /\ "alive" \in ProbeSteps \ {"reserve", "launch", "session-launch"}
        /\ pc[p] # "reserve" /\ r.status # "absent"
    BY <2>1, <2>2 DEF ProbeSteps, MasterSteps
  <2>6. /\ \A f \in Executions \ {e} : f \in checked => f \in checked'
        /\ e \in checked'
    BY <2>1
  <2>7. QED
    BY <1>1, <1>2, <2>1, <2>2, <2>4, <2>5, <2>6, QuietMove
<1>11. QED
  BY <1>4, <1>5, <1>6, <1>7, <1>8, <1>9, <1>10

\* The steps of a control-master probe from the answer of the master to the session.
LEMMA SessionSound ==
    ASSUME Inductive, Inductive', Sound, NEW p \in Procs,
           \/ \E socket \in SocketStates : Recheck(p, socket) \/ SessionEnds(p, socket)
           \/ SaveAlive(p) \/ DeadlinePassed(p) \/ SessionIntent(p) \/ SessionLaunch(p)
           \/ SessionNotLaunched(p) \/ SessionRunning(p) \/ SessionAborts(p)
    PROVE  Sound'
<1> USE NullFacts
<1>0. pc[p] \in {"alive", "recheck", "session-intent", "session-launch", "session-none",
                 "session-running", "session-wait", "session-abort"}
  BY DEF Recheck, SessionEnds, SaveAlive, DeadlinePassed, SessionIntent, SessionLaunch,
         SessionNotLaunched, SessionRunning, SessionAborts
<1>1. PICK e, t, o : InHand(p, e, t, o)
  BY <1>0, Hand DEF ProbeSteps, MasterSteps
<1>2. /\ e \in Executions /\ e = cur[p] /\ o \in Execution /\ o = Rec(p) /\ o.status # "absent"
      /\ t = "control-master" /\ Shape(pc[p], t, o) /\ mem[p] = Put(p, o)
      /\ Fits(t, o, client[e], remote[e])
      /\ pc[p] \in Sessionless => client[e] = "none"
      /\ pc[p] \in Started => client[e] # "none"
      /\ e \in checked
  BY <1>0, <1>1 DEF InHand, Ready, MasterSteps, Attested, AfterAnswer
<1>3. o.status = "RUNNING" /\ o.status \in Pending
  BY <1>0, <1>2 DEF Shape, Pending
<1>4. ASSUME pc[p] \in {"alive", "recheck", "session-intent"}
      PROVE  Counts(o, 1, TRUE, 0, 0, 0, 1) /\ client[e] = "none" /\ pc[p] \in BeforeIntent
  BY <1>2, <1>4 DEF Shape, BeforeIntent, Sessionless, BeforeSession
<1>5. ASSUME NEW s \in {"MASTER_LOST", "LOCAL_STOP"},
             pc[p] \in {"recheck", "session-intent"},
             Update(p, [o EXCEPT !.status = s], "final"),
             UNCHANGED <<files, lock, cur, environment>>
      PROVE  Sound'
  <2> DEFINE r == [o EXCEPT !.status = s]
  <2>1. PICK alive \in BOOLEAN : alive
    OBVIOUS
  <2>2. /\ r \in Execution /\ r.approval = o.approval /\ r.status = s
        /\ Counts(r, 1, alive, 0, 0, 0, 1)
    <3>1. r \in Execution /\ r.approval = o.approval /\ r.status = s
      BY <1>2, StatusFacts DEF Statuses, MasterStatuses
    <3>2. Counts(o, 1, alive, 0, 0, 0, 1)
      BY <1>4, <1>5, <2>1 DEF Counts
    <3>3. Counts(r, 1, alive, 0, 0, 0, 1)
      BY <1>2, <3>2 DEF Counts, Execution
    <3>4. QED
      BY <3>1, <3>3
  <2>3. Update(p, r, "final") /\ UNCHANGED <<output, cur, client, remote, checked>>
    BY <1>5 DEF files, environment
  <2> HIDE DEF r
  <2>4. Ending(p, e, t, o, r, 1, alive, 0)
    BY <1>1, <1>2, <1>4, <1>5, <2>1, <2>2, <2>3 DEF Ending, BeforeIntent
  <2>5. QED
    BY <2>4, Undone
<1>6. ASSUME NEW socket \in SocketStates, Recheck(p, socket) PROVE Sound'
  <2>1. pc[p] = "recheck" /\ UNCHANGED <<files, lock, cur, environment>>
    BY <1>6 DEF Recheck
  <2>2. ASSUME NEW step \in {"session-intent", "check-abort"},
               Goto(p, step) /\ UNCHANGED <<mem, ledger>>
        PROVE  Sound'
    <3>1. Shape(step, t, o)
      BY <1>2, <2>1 DEF Shape, Counts
    <3>2. Ready(step, t, o, client[e], remote[e])
      BY <1>1, <1>2, <1>4, <2>1, <3>1, ReadyNext DEF MasterSteps, Started
    <3>3. step \in ProbeSteps \ {"reserve", "launch", "session-launch"} /\ pc[p] # "reserve"
      BY <2>1 DEF ProbeSteps, MasterSteps
    <3>4. pc[p] \in BeforeIntent
      BY <1>4, <2>1
    <3>5. QED
      BY <1>1, <1>2, <2>1, <2>2, <3>2, <3>3, <3>4, GotoMove
  <2>3. QED
    BY <1>2, <1>5, <1>6, <2>1, <2>2 DEF Recheck, SocketStates
<1>7. CASE SaveAlive(p)
  <2>1. /\ pc[p] = "alive" /\ Save(p, Put(p, o), "recheck", "check-abort")
        /\ UNCHANGED <<files, lock, cur, environment>>
    BY <1>2, <1>7 DEF SaveAlive
  <2>2. ASSUME NEW step \in {"recheck", "check-abort"}
        PROVE  Ready(step, t, o, client[e], remote[e])
    <3>1. Shape(step, t, o)
      BY <1>2, <2>1 DEF Shape, Counts
    <3>2. QED
      BY <1>1, <1>2, <1>4, <2>1, <3>1, ReadyNext DEF MasterSteps, Started
  <2>3. o.remote_command_attempts = 0 /\ pc[p] \in BeforeIntent
    BY <1>4, <2>1 DEF Counts
  <2>4. Saving(p, e, t, o, "recheck", "check-abort")
    BY <1>1, <1>2, <1>3, <2>1, <2>2, <2>3
       DEF Saving, InHand, ProbeSteps, MasterSteps, LeaveSteps
  <2>5. QED
    BY <2>4, SaveMove
<1>8. CASE DeadlinePassed(p)
  BY <1>2, <1>5, <1>8 DEF DeadlinePassed
<1>9. CASE SessionIntent(p)
  <2> DEFINE r == [o EXCEPT !.logical_session_calls = Null,
                            !.remote_command_attempts = 1,
                            !.confirmed = Null, !.ssh_calls = Null]
  <2>1. /\ pc[p] = "session-intent" /\ Save(p, Put(p, r), "session-launch", "session-none")
        /\ UNCHANGED <<files, lock, cur, environment>>
    BY <1>2, <1>9 DEF SessionIntent
  <2>2. /\ r \in Execution /\ r.approval = o.approval /\ r.status = "RUNNING"
        /\ Counts(r, 1, TRUE, Null, 1, Null, Null)
    BY <1>2, <1>3, <1>4, <2>1 DEF Execution, Counts
  <2> HIDE DEF r
  <2>3. ASSUME NEW step \in {"session-launch", "session-none"}
        PROVE  Ready(step, t, r, client[e], remote[e])
    <3>1. Shape(step, t, r)
      BY <2>2 DEF Shape
    <3>2. QED
      BY <1>1, <1>2, <1>4, <2>1, <3>1, ReadyNext DEF MasterSteps, Started
  <2>4. Fits(t, r, client[e], remote[e])
    BY <2>3 DEF Ready
  <2>5. Saving(p, e, t, r, "session-launch", "session-none")
    BY <1>1, <1>2, <1>3, <2>1, <2>2, <2>3, <2>4
       DEF Saving, InHand, ProbeSteps, MasterSteps, LeaveSteps, BeforeIntent
  <2>6. QED
    BY <2>5, SaveMove
<1>10. CASE SessionLaunch(p)
  <2>1. pc[p] = "session-launch" /\ UNCHANGED <<files, lock, cur>>
    BY <1>10 DEF SessionLaunch
  <2>2. CASE Goto(p, "session-none") /\ UNCHANGED <<mem, ledger, environment>>
    <3>1. Shape("session-none", t, o)
      BY <1>2, <2>1 DEF Shape
    <3>2. Ready("session-none", t, o, client[e], remote[e])
      BY <1>1, <1>2, <2>1, <3>1, ReadyNext DEF MasterSteps, Started, Sessionless, BeforeSession
    <3>3. /\ "session-none" \in ProbeSteps \ {"reserve", "launch", "session-launch"}
          /\ pc[p] # "reserve" /\ "session-none" \notin BeforeIntent
      BY <2>1 DEF ProbeSteps, MasterSteps, BeforeIntent
    <3>4. UNCHANGED <<mem, ledger>> /\ UNCHANGED <<files, lock, cur, environment>>
      BY <2>1, <2>2
    <3>5. QED
      BY <1>1, <1>2, <2>2, <3>2, <3>3, <3>4, GotoMove
  <2> DEFINE r == [o EXCEPT !.logical_session_calls = 1, !.ssh_calls = 2]
  <2>3. CASE Update(p, r, "session-running") /\ StartClient(p)
    <3>1. /\ r \in Execution /\ r.approval = o.approval /\ r.status = "RUNNING"
          /\ Counts(r, 1, TRUE, 1, 1, Null, 2)
      BY <1>2, <1>3, <2>1 DEF Execution, Counts, Shape
    <3>2. Update(p, r, "session-running")
      BY <2>3
    <3>3. /\ client' = [client EXCEPT ![e] = "live"]
          /\ UNCHANGED <<output, cur, remote, checked>>
      BY <1>2, <2>1, <2>3 DEF StartClient, files
    <3> HIDE DEF r
    <3>4. Shape("session-running", t, r)
      BY <3>1 DEF Shape
    <3>5. Ready("session-running", t, r, "live", remote[e])
      <4>1. "session-running" \in MasterSteps \ Sessionless
        BY DEF MasterSteps, Sessionless, BeforeSession
      <4>2. QED
        BY <1>1, <1>2, <3>4, <4>1, ReadyNext
    <3>6. "session-running" \notin BeforeIntent
      BY DEF BeforeIntent, Sessionless, BeforeSession
    <3>7. Updating(p, e, t, r, "session-running", "live")
      BY <1>1, <1>2, <2>1, <3>1, <3>2, <3>3, <3>5, <3>6
         DEF Updating, InHand, Update, Goto, ProbeSteps, MasterSteps
    <3>8. QED
      BY <3>7, MemoryMove
  <2>4. QED
    BY <1>2, <1>10, <2>2, <2>3 DEF SessionLaunch
<1>11. CASE SessionNotLaunched(p)
  <2> DEFINE r == [o EXCEPT !.status = "LOCAL_STOP", !.logical_session_calls = 0,
                            !.confirmed = 0, !.ssh_calls = 1]
  <2>1. /\ pc[p] = "session-none" /\ Update(p, r, "final")
        /\ UNCHANGED <<output, cur, client, remote, checked>>
    BY <1>2, <1>11 DEF SessionNotLaunched, files, environment
  <2>2. PICK alive \in BOOLEAN : alive
    OBVIOUS
  <2>3. /\ r \in Execution /\ r.approval = o.approval /\ r.status = "LOCAL_STOP"
        /\ Counts(r, 1, alive, 0, 1, 0, 1)
    BY <1>2, <2>1, <2>2 DEF Execution, Counts, Shape, Statuses, MasterStatuses
  <2> HIDE DEF r
  <2>4. Ending(p, e, t, o, r, 1, alive, 1)
    BY <1>1, <1>2, <2>1, <2>2, <2>3 DEF Ending, Sessionless
  <2>5. QED
    BY <2>4, Undone
<1>12. CASE SessionRunning(p)
  <2>1. /\ pc[p] = "session-running" /\ Save(p, Put(p, o), "session-wait", "session-abort")
        /\ UNCHANGED <<files, lock, cur, environment>>
    BY <1>2, <1>12 DEF SessionRunning
  <2>2. ASSUME NEW step \in {"session-wait", "session-abort"}
        PROVE  Ready(step, t, o, client[e], remote[e]) /\ step \notin BeforeIntent
    <3>1. Shape(step, t, o)
      BY <1>2, <2>1 DEF Shape
    <3>2. client[e] # "none" /\ step \notin Sessionless
      BY <1>2, <2>1 DEF Started, Sessionless, BeforeSession
    <3>3. QED
      BY <1>1, <1>2, <3>1, <3>2, ReadyNext DEF MasterSteps, BeforeIntent
  <2>3. Saving(p, e, t, o, "session-wait", "session-abort")
    BY <1>1, <1>2, <1>3, <2>1, <2>2
       DEF Saving, InHand, ProbeSteps, MasterSteps, LeaveSteps
  <2>4. QED
    BY <2>3, SaveMove
<1>13. ASSUME NEW s \in {"UNKNOWN", "MASTER_LOST"} \cup Confirmed,
              pc[p] \in {"session-wait", "session-abort"},
              \/ Update(p, [o EXCEPT !.status = s], "final") /\ s \notin Confirmed
              \/ Update(p, [o EXCEPT !.status = s, !.completion_proof = TRUE,
                                     !.confirmed = 1], "final")
                 /\ s \in Confirmed,
              s = "COMPLETE" => remote[e] = "exit0",
              s = "REMOTE_FAILED" => remote[e] = "exitN",
              KillClient(p) \/ \E kind : ClientEnds(p, kind),
              UNCHANGED <<files, lock, cur>>
       PROVE  Sound'
  <2>1. client[e] # "none" /\ Counts(o, 1, TRUE, 1, 1, Null, 2)
    BY <1>2, <1>13 DEF Started, Shape
  <2>2. PICK c \in {"gone", "refused"} :
            client' = [client EXCEPT ![e] = c] /\ UNCHANGED <<remote, launches>>
    BY <1>1, <1>13, <2>1, ClientGone
  <2>3. UNCHANGED <<output, cur, checked, remote>>
    BY <1>13, <2>2 DEF files
  <2>4. CASE s \notin Confirmed
    <3> DEFINE r == [o EXCEPT !.status = s]
    <3>1. /\ r \in Execution /\ r.approval = o.approval /\ r.status = s
          /\ Counts(r, 1, TRUE, 1, 1, Null, 2)
      BY <1>2, <2>1, <2>4, StatusFacts DEF Counts, Statuses, MasterStatuses
    <3>2. Update(p, r, "final")
      BY <1>13, <2>4
    <3> HIDE DEF r
    <3>3. QED
      BY <1>1, <1>13, <2>2, <2>3, <2>4, <3>1, <3>2, SessionOver DEF Counts
  <2>5. CASE s \in Confirmed
    <3> DEFINE r == [o EXCEPT !.status = s, !.completion_proof = TRUE, !.confirmed = 1]
    <3>1. /\ r \in Execution /\ r.approval = o.approval /\ r.status = s /\ r.completion_proof
          /\ r.local_check_calls = 1 /\ r.master_alive /\ r.logical_session_calls = 1
          /\ r.remote_command_attempts = 1 /\ r.confirmed = 1 /\ r.ssh_calls = 2
      <4>1. r.confirmed = 1 /\ r.completion_proof /\ r.status = s /\ s \in Statuses
        BY <1>2, <2>5 DEF Execution, Statuses, MasterStatuses
      <4>2. /\ r.approval = o.approval /\ r.local_check_calls = o.local_check_calls
            /\ r.logical_session_calls = o.logical_session_calls /\ r.ssh_calls = o.ssh_calls
            /\ r.remote_command_attempts = o.remote_command_attempts
            /\ r.master_alive = o.master_alive
        BY <1>2 DEF Execution
      <4>3. r \in Execution
        BY <1>2, <4>1 DEF Execution
      <4>4. QED
        BY <2>1, <4>1, <4>2, <4>3 DEF Counts
    <3>2. Update(p, r, "final")
      BY <1>13, <2>5
    <3> HIDE DEF r
    <3>3. QED
      BY <1>1, <1>13, <2>2, <2>3, <2>5, <3>1, <3>2, SessionOver DEF Counts
  <2>6. QED
    BY <2>4, <2>5
<1>14. CASE SessionAborts(p)
  BY <1>2, <1>13, <1>14 DEF SessionAborts, Confirmed
<1>15. ASSUME NEW socket \in SocketStates, SessionEnds(p, socket) PROVE Sound'
  <2>1. PICK kind \in {"marker", "fatal", "loss", "other"} :
            ClientEnds(p, kind) /\ Update(p, MasterOutcome(p, kind, socket), "final")
    BY <1>15 DEF SessionEnds
  <2>2. pc[p] = "session-wait" /\ UNCHANGED <<files, lock, cur>>
    BY <1>15 DEF SessionEnds
  <2>3. CASE kind = "marker"
    <3>1. PICK s : s = CompletedStatus(p)
      OBVIOUS
    <3>2. /\ Update(p, [o EXCEPT !.status = s, !.completion_proof = TRUE, !.confirmed = 1], "final")
          /\ s \in Confirmed
          /\ s = "COMPLETE" => remote[e] = "exit0"
          /\ s = "REMOTE_FAILED" => remote[e] = "exitN"
      BY <1>2, <2>1, <2>3, <3>1
         DEF MasterOutcome, CompletedStatus, Confirmed, ClientEnds, Marker
    <3>3. QED
      BY <1>13, <2>1, <2>2, <3>2
  <2>4. CASE kind \in {"fatal", "loss", "other"}
    <3>1. PICK s \in {"UNKNOWN", "MASTER_LOST"} :
              Update(p, [o EXCEPT !.status = s], "final")
      BY <1>2, <2>1, <2>4 DEF MasterOutcome
    <3>2. QED
      BY <1>13, <2>1, <2>2, <3>1 DEF Confirmed
  <2>5. QED
    BY <2>3, <2>4
<1>16. QED
  BY <1>6, <1>7, <1>8, <1>9, <1>10, <1>11, <1>12, <1>14, <1>15

\* The reservation is on disk, or nothing is, before the first client.
LEMMA ReserveSound ==
    ASSUME Inductive, Inductive', Sound, NEW p \in Procs, Reserve(p)
    PROVE  Sound'
<1> USE NullFacts
<1>1. pc[p] = "reserve" /\ UNCHANGED <<files, lock, cur, environment>>
  BY DEF Reserve
<1>2. PICK e, t, o : InHand(p, e, t, o)
  BY <1>1, Hand DEF ProbeSteps
<1>3. /\ e \in Executions /\ e = cur[p] /\ o \in Execution /\ o = Rec(p) /\ o.status # "absent"
      /\ t \in Transports /\ Shape("reserve", t, o) /\ mem[p] = Put(p, o)
      /\ Fits(t, o, client[e], remote[e]) /\ client[e] = "none"
  BY <1>1, <1>2 DEF InHand, Ready, Sessionless, BeforeSession
<1>4. PICK next \in {"launch", "socket"} :
          /\ next = IF t = "direct" THEN "launch" ELSE "socket"
          /\ Save(p, Put(p, o), next, "raise")
  BY <1>2, <1>3 DEF Reserve, InHand
<1>5. Shape(next, t, o) /\ o.status \in Pending /\ o.remote_command_attempts = 0
  BY <1>3, <1>4 DEF Shape, Counts, Pending
<1>6. Ready(next, t, o, client[e], remote[e]) /\ ~Attested(next, o)
  <2>1. next = "launch" => t = "direct"
    BY <1>4
  <2>2. next = "socket" => t = "control-master"
    BY <1>3, <1>4 DEF Transports
  <2>3. next \notin Started /\ next # "final"
    BY DEF Started
  <2>4. next \in DirectSteps => next = "launch"
    BY DEF DirectSteps
  <2>5. next \in MasterSteps => next = "socket"
    BY DEF MasterSteps
  <2>6. QED
    BY <1>3, <1>5, <2>1, <2>2, <2>3, <2>4, <2>5 DEF Ready, Attested, AfterAnswer
<1>7. Reportable("raise", t, o, client[e])
  BY <1>3 DEF Reportable
<1>8. Saving(p, e, t, o, next, "raise")
  BY <1>1, <1>2, <1>3, <1>4, <1>5, <1>6, <1>7
     DEF Saving, InHand, ProbeSteps, DirectSteps, MasterSteps, LeaveSteps, BeforeIntent,
         Sessionless, BeforeSession
<1>9. QED
  BY <1>8, SaveMove

\* The outcome is decided on the output it names, and reported as it is.
LEMMA FinishSound ==
    ASSUME Inductive, Inductive', Sound, NEW p \in Procs, Finish(p)
    PROVE  Sound'
<1> USE NullFacts
<1>1. pc[p] = "final" /\ UNCHANGED <<files, lock, cur, environment>>
  BY DEF Finish
<1>2. PICK e, t, o : InHand(p, e, t, o)
  BY <1>1, Hand DEF ProbeSteps
<1>3. /\ e \in Executions /\ e = cur[p] /\ o \in Execution /\ o = Rec(p) /\ o.status # "absent"
      /\ t \in Transports /\ t = TransportOf(p) /\ o.status \notin Pending
      /\ Fits(t, o, client[e], remote[e])
      /\ o.remote_command_attempts = 1 => e \in checked
  BY <1>1, <1>2 DEF InHand, Ready, Attested, Shape
<1>4. PICK size \in Nat : size = output[e]
  BY <1>3 DEF Inductive, TypeOK
<1> DEFINE r == [o EXCEPT !.output = size]
<1>5. PICK error \in {"raise", "unrecorded"} :
          /\ error = IF t = "direct" THEN "raise" ELSE "unrecorded"
          /\ Save(p, Put(p, r), "return", error)
  BY <1>3, <1>4 DEF Finish
<1>6. /\ r \in Execution /\ r.approval = o.approval /\ r.status = o.status /\ r.output = size
      /\ r.local_check_calls = o.local_check_calls /\ r.master_alive = o.master_alive
      /\ r.logical_session_calls = o.logical_session_calls
      /\ r.remote_command_attempts = o.remote_command_attempts
      /\ r.confirmed = o.confirmed /\ r.ssh_calls = o.ssh_calls
      /\ r.completion_proof = o.completion_proof
  BY <1>3 DEF Execution
<1> HIDE DEF r
<1>7. Fits(t, r, client[e], remote[e])
  BY <1>3, <1>6 DEF Fits, ValidMaster, ValidDirect
<1>8. Reportable("return", t, r, client[e]) /\ Reportable(error, t, r, client[e])
  <2>1. t = "control-master" /\ r.status = "LOCAL_STOP" => client[e] = "none"
    BY <1>7 DEF Fits
  <2>2. t = "control-master" /\ r.logical_session_calls = 0 => client[e] = "none"
    BY <1>7 DEF Fits
  <2>3. QED
    BY <1>3, <1>5, <2>1, <2>2 DEF Reportable, Transports
<1>9. Saving(p, e, t, r, "return", error)
  BY <1>1, <1>2, <1>3, <1>4, <1>5, <1>6, <1>7, <1>8
     DEF Saving, InHand, ProbeSteps, DirectSteps, MasterSteps, LeaveSteps
<1>10. QED
  BY <1>9, SaveMove

-----------------------------------------------------------------------------
(* The steps outside a probe keep Sound.                                   *)

\* A step of an invocation that is not probing after it, and writes nothing.
LEMMA OutsideMove ==
    ASSUME Inductive, Sound, NEW p \in Procs,
           NEW step \in Steps \ ProbeSteps, pc' = [pc EXCEPT ![p] = step],
           \A q \in Procs \ {p} : mem'[q] = mem[q] /\ cur'[q] = cur[q],
           cur'[p] = Null,
           UNCHANGED <<ledger, output, checked, client, remote>>
    PROVE  Sound'
<1>1. \A q \in Procs \ {p} : pc'[q] = pc[q]
  BY DEF Inductive, TypeOK
<1>2. pc'[p] = step
  BY DEF Inductive, TypeOK
<1>3. (\A e \in Executions : DiskOK(e))' /\ OneUndecided'
  BY DEF Sound, DiskOK, OneUndecided
<1>4. ASSUME NEW q \in Procs, q # p
      PROVE  /\ Probing(q) => Probing(q)'
             /\ Leaving(q) => Leaving(q)'
  BY <1>1, <1>4 DEF Probing, Leaving, Rec, TransportOf
<1>5. Leaving(p)'
  BY DEF Leaving
<1>6. QED
  BY <1>1, <1>2, <1>3, <1>4, <1>5 DEF Sound

\* A save of recovery or of approve().
LEMMA OutsideSaved ==
    ASSUME Inductive, Sound, NEW p \in Procs, pc[p] \in {"recover", "admit"},
           NEW l, NEW next \in {"admit", "return"},
           Save(p, l, next, "raise"), UNCHANGED <<files, lock, cur, environment>>,
           ledger' = l => (\A e \in Executions : DiskOK(e))' /\ OneUndecided'
    PROVE  Sound'
<1> USE StepNames
<1>1. lock = p /\ \A q \in Procs : q # p => pc[q] \notin LockedSteps
  BY Alone DEF Inductive, Exclusive
<1>2. PICK step \in {next, "raise"} :
          pc' = [pc EXCEPT ![p] = step] /\ (ledger' = l \/ UNCHANGED ledger)
  BY DEF Save, Goto
<1>3. step \in {"admit"} \cup LeaveSteps /\ step \notin ProbeSteps
  BY DEF LeaveSteps, ProbeSteps, DirectSteps, MasterSteps
<1>4. cur[p] = Null
  BY DEF Sound
<1>5. /\ \A q \in Procs \ {p} : pc'[q] = pc[q] /\ pc'[q] \notin LockedSteps /\ cur'[q] = Null
      /\ pc'[p] = step /\ cur'[p] = Null
  BY <1>1, <1>2, <1>4 DEF Inductive, TypeOK, Sound
<1>6. (\A e \in Executions : DiskOK(e))' /\ OneUndecided'
  <2>1. CASE UNCHANGED ledger
    BY <2>1 DEF Sound, DiskOK, OneUndecided, files, environment
  <2>2. QED
    BY <1>2, <2>1
<1>7. Leaving(p)'
  BY <1>5 DEF Leaving
<1>8. QED
  BY <1>3, <1>5, <1>6, <1>7 DEF Sound

\* Recovery decides nothing that was decided, and no more than one record.
LEMMA RecoverSound ==
    ASSUME Inductive, Sound, NEW p \in Procs, RecoverStep(p)
    PROVE  Sound'
<1> USE StepNames
<1> DEFINE l == Recover(mem[p], output)
<1>1. /\ pc[p] = "recover" /\ mem[p] = ledger /\ ledger \in Ledger
      /\ output \in [Executions -> Nat]
      /\ UNCHANGED <<files, lock, cur, environment>>
  BY DEF RecoverStep, Inductive, CopyFresh, TypeOK
<1>2. CASE Goto(p, "admit") /\ UNCHANGED <<ledger, mem>>
  <2>1. "admit" \in Steps \ ProbeSteps
    BY DEF Steps, LockedSteps, ProbeSteps, DirectSteps, MasterSteps
  <2>2. cur'[p] = Null
    BY <1>1 DEF Sound
  <2>3. UNCHANGED <<ledger, output, checked, client, remote, mem, cur>>
    BY <1>1, <1>2 DEF files, environment
  <2>4. pc' = [pc EXCEPT ![p] = "admit"]
    BY <1>2 DEF Goto
  <2>5. QED
    BY <2>1, <2>2, <2>3, <2>4, OutsideMove
<1>3. CASE Save(p, l, "admit", "raise")
  <2>1. /\ l.approvals = ledger.approvals
        /\ l.executions = [e \in Executions |-> RecoverExecution(ledger, e, output)]
    BY <1>1 DEF Recover, Ledger
  <2>2. PICK k \in Ledger, size \in [Executions -> Nat] : k = ledger /\ size = output
    BY <1>1
  <2>3. ASSUME NEW e \in Executions
        PROVE  LET r == k.executions[e]
                   u == RecoverExecution(k, e, size)
               IN  /\ r.status = "absent" => u = r
                   /\ u.approval = r.approval
                   /\ u.remote_command_attempts = r.remote_command_attempts
                   /\ u.status = IF r.status \in Pending THEN "UNKNOWN" ELSE r.status
                   /\ r.status \notin Pending => u = r
                   /\ r.status # "absent" =>
                          Fits(k.approvals[r.approval], u, client[e], remote[e])
    <3>1. PICK r \in Execution : r = k.executions[e]
      BY DEF Ledger
    <3>2. CASE r.status = "absent"
      BY <3>1, <3>2 DEF RecoverExecution, Pending
    <3>3. CASE r.status # "absent"
      <4>1. PICK t, c, m : t = k.approvals[r.approval] /\ c = client[e] /\ m = remote[e]
        OBVIOUS
      <4>2. Fits(t, r, c, m)
        BY <2>2, <3>1, <3>3, <4>1 DEF Sound, DiskOK
      <4>3. QED
        BY <3>1, <3>3, <4>1, <4>2, RecoverFits
    <3>4. QED
      BY <3>2, <3>3
  <2>4. ASSUME ledger' = l, NEW e \in Executions PROVE DiskOK(e)'
    <3>1. PICK r, u : r = k.executions[e] /\ u = RecoverExecution(k, e, size)
      OBVIOUS
    <3>2. ledger'.executions[e] = u /\ ledger.executions[e] = r
      BY <2>1, <2>2, <2>4, <3>1
    <3>3. ledger'.approvals = ledger.approvals /\ ledger.approvals = k.approvals
      BY <2>1, <2>2, <2>4
    <3>4. UNCHANGED <<output, checked, client, remote>>
      BY <1>1 DEF files, environment
    <3>5. /\ r.status = "absent" => u = r
          /\ u.approval = r.approval
          /\ u.remote_command_attempts = r.remote_command_attempts
          /\ u.status = IF r.status \in Pending THEN "UNKNOWN" ELSE r.status
          /\ r.status \notin Pending => u = r
          /\ r.status # "absent" => Fits(k.approvals[r.approval], u, client[e], remote[e])
      BY <2>3, <3>1
    <3>6. DiskOK(e)
      BY DEF Sound
    <3>7. QED
      BY <3>2, <3>3, <3>4, <3>5, <3>6 DEF DiskOK
  <2>5. ASSUME ledger' = l PROVE OneUndecided'
    <3>1. ASSUME NEW e \in Executions
          PROVE  /\ ledger'.executions[e].approval = ledger.executions[e].approval
                 /\ ledger'.executions[e].status \in Unresolved =>
                        ledger.executions[e].status \in Unresolved
      BY <2>1, <2>2, <2>3, <2>5 DEF Unresolved, Pending
    <3>2. QED
      BY <3>1 DEF Sound, OneUndecided
  <2> HIDE DEF l
  <2>6. QED
    BY <1>1, <1>3, <2>4, <2>5, OutsideSaved
<1>4. QED
  BY <1>2, <1>3 DEF RecoverStep

\* An approval is for no execution yet.
LEMMA ApproveSound ==
    ASSUME Inductive, Sound, NEW p \in Procs, NEW a \in Approvals, NEW transport \in Transports,
           Approve(p, a, transport)
    PROVE  Sound'
<1> DEFINE l == [mem[p] EXCEPT !.approvals[a] = transport]
<1>1. /\ pc[p] = "admit" /\ mem[p] = ledger /\ ledger \in Ledger
      /\ ledger.approvals[a] = "absent"
      /\ UNCHANGED <<files, lock, cur, environment>>
      /\ Save(p, l, "return", "raise")
  BY DEF Approve, Inductive, CopyFresh, TypeOK
<1>2. /\ l.executions = ledger.executions
      /\ \A b \in Approvals \ {a} : l.approvals[b] = ledger.approvals[b]
  BY <1>1 DEF Ledger
<1>3. ASSUME ledger' = l, NEW e \in Executions PROVE DiskOK(e)'
  <2>1. DiskOK(e)
    BY DEF Sound
  <2>2. ledger.executions[e].status # "absent" => ledger.executions[e].approval # a
    BY <1>1, <2>1 DEF DiskOK, Fits, Transports
  <2>3. UNCHANGED <<output, checked, client, remote>>
    BY <1>1 DEF files, environment
  <2>4. QED
    BY <1>2, <1>3, <2>1, <2>2, <2>3 DEF DiskOK
<1>4. ASSUME ledger' = l PROVE OneUndecided'
  BY <1>2, <1>4 DEF Sound, OneUndecided
<1> HIDE DEF l
<1>5. QED
  BY <1>1, <1>3, <1>4, OutsideSaved

\* initialize, the lock, a rejected request, and the end of an invocation.
LEMMA RestSound ==
    ASSUME Inductive, Sound, NEW p \in Procs,
           Initialize(p) \/ Lock(p) \/ Reject(p) \/ Leave(p) \/ Crash(p)
    PROVE  Sound'
<1> USE StepNames
<1>1. PICK step \in {"idle", "create", "populate", "recover", "raise"} :
          pc' = [pc EXCEPT ![p] = step]
  BY DEF Initialize, BeginInitialize, CreateCoordination, Populate, Lock, Reject, Leave,
         Crash, Goto
<1>2. step \in Steps \ ProbeSteps
  BY DEF Steps, LockedSteps, LeaveSteps, ProbeSteps, DirectSteps, MasterSteps
<1>3. UNCHANGED <<ledger, output, checked, client, remote>>
  BY DEF Initialize, BeginInitialize, CreateCoordination, Populate, Lock, Reject, Leave,
         Crash, durable, files, environment
<1>4. \A q \in Procs \ {p} : mem'[q] = mem[q] /\ cur'[q] = cur[q]
  BY DEF Initialize, BeginInitialize, CreateCoordination, Populate, Lock, Reject, Leave,
         Crash, Inductive, TypeOK
<1>5. cur'[p] = Null
  <2>1. CASE Leave(p) \/ Crash(p)
    BY <2>1 DEF Leave, Crash, Inductive, TypeOK
  <2>2. CASE Initialize(p) \/ Lock(p) \/ Reject(p)
    <3>1. pc[p] \in {"idle", "create", "populate", "admit"} /\ cur' = cur
      BY <2>2 DEF Initialize, BeginInitialize, CreateCoordination, Populate, Lock, Reject
    <3>2. pc[p] \notin ProbeSteps \cup LeaveSteps
      BY <3>1 DEF LeaveSteps, ProbeSteps, DirectSteps, MasterSteps
    <3>3. QED
      BY <3>1, <3>2 DEF Sound
  <2>3. QED
    BY <2>1, <2>2
<1>6. QED
  BY <1>1, <1>2, <1>3, <1>4, <1>5, OutsideMove

\* A probe begins: its approval is unused, and nothing is undecided.
LEMMA CreateLogsSound ==
    ASSUME Inductive, Sound, NEW p \in Procs, NEW a \in Approvals, NEW e \in Executions,
           CreateLogs(p, a, e)
    PROVE  Sound'
<1> USE StepNames
<1>1. /\ pc[p] = "admit" /\ mem[p] = ledger /\ ledger \in Ledger /\ lock = p
      /\ ledger.approvals[a] \in Transports
      /\ NoneUnresolved(ledger) /\ Unspent(ledger, a) /\ ledger.executions[e].status = "absent"
      /\ UNCHANGED <<ledger, output, checked, client, remote>>
      /\ pc[p] \in LockedSteps
  BY DEF CreateLogs, Inductive, CopyFresh, TypeOK, Exclusive, Ledger, environment
<1>2. PICK t, r : t \in Transports /\ t = ledger.approvals[a] /\ r = Reservation(a, t)
  BY <1>1
<1>3. r \in Execution /\ r.approval = a /\ r.status # "absent" /\ Shape("reserve", t, r)
  BY <1>2, ReservationFacts, ReservationShape
<1>4. PICK step \in {"reserve", "raise"} : pc' = [pc EXCEPT ![p] = step]
  BY DEF CreateLogs, Goto
<1>5. mem' = [mem EXCEPT ![p].executions[e] = r] /\ cur' = [cur EXCEPT ![p] = e]
  BY <1>1, <1>2 DEF CreateLogs
<1>6. /\ \A q \in Procs \ {p} : pc'[q] = pc[q] /\ pc[q] \notin LockedSteps /\ cur'[q] = Null
      /\ pc'[p] = step /\ cur'[p] = e
  BY <1>1, <1>4, <1>5, Alone DEF Inductive, TypeOK, Sound
<1>7. /\ mem'[p].approvals = ledger.approvals
      /\ mem'[p].executions[e] = r
  BY <1>1, <1>5 DEF Inductive, TypeOK, Ledger
<1>8. Rec(p)' = r /\ TransportOf(p)' = t
  BY <1>2, <1>3, <1>6, <1>7 DEF Rec, TransportOf
<1>9. (\A f \in Executions : DiskOK(f))' /\ OneUndecided'
  BY <1>1 DEF Sound, DiskOK, OneUndecided
<1>10. client[e] = "none"
  BY <1>1 DEF Sound, DiskOK
<1>11. Probing(p)' \/ step # "reserve"
  <2>1. CASE step = "reserve"
    <3>1. "reserve" \in ProbeSteps \ {"final"} /\ "reserve" \notin DirectSteps \cup MasterSteps \cup Started
      BY DEF ProbeSteps, DirectSteps, MasterSteps, Started
    <3>2. PICK m : m = remote[e]
      OBVIOUS
    <3>3. r.status \in Pending /\ Fits(t, r, "none", m)
      BY <1>2, <1>3, <3>1, ShapeFits
    <3>4. Ready("reserve", t, r, client[e], remote[e])
      BY <1>3, <1>10, <3>1, <3>2, <3>3 DEF Ready
    <3>5. ~Attested("reserve", r)
      BY <1>3 DEF Attested, AfterAnswer, Shape, Counts
    <3>6. \A f \in Executions : f # e => /\ ledger.executions[f].status \notin Unresolved
                                          /\ ledger.executions[f].approval # a
      BY <1>1 DEF NoneUnresolved, Unspent
    <3>7. QED
      BY <1>1, <1>3, <1>6, <1>8, <2>1, <3>4, <3>5, <3>6 DEF Probing
  <2>2. QED
    BY <2>1
<1>12. Leaving(p)' \/ step # "raise"
  BY <1>1, <1>6, <1>8, <1>10 DEF Leaving, Reportable
<1>13. "raise" \notin ProbeSteps
  BY DEF ProbeSteps, DirectSteps, MasterSteps
<1>14. QED
  BY <1>6, <1>9, <1>11, <1>12, <1>13 DEF Sound, LeaveSteps

\* What the remote command does next contradicts no record.
LEMMA RemoteFits ==
    ASSUME NEW t, NEW r, NEW c, NEW m \in {"none", "running"}, NEW n, Fits(t, r, c, m)
    PROVE  Fits(t, r, c, n)
BY DEF Fits

\* Orphaned clients and remote commands keep Sound: what is decided is over.
LEMMA EnvironmentSound ==
    ASSUME Inductive, Sound, Environment \/ UNCHANGED vars
    PROVE  Sound'
<1>1. UNCHANGED <<ledger, checked, pc, mem, cur>>
  BY DEF Environment, RemoteStarts, RemoteEnds, ClientWrites, OrphanEnds, durable, files,
         local, environment, vars
<1>2. ASSUME \A e \in Executions : DiskOK(e)',
             \A p \in Procs : /\ Probing(p) => Probing(p)'
                              /\ Leaving(p) => Leaving(p)'
      PROVE  Sound'
  BY <1>1, <1>2 DEF Sound, OneUndecided
<1>3. CASE UNCHANGED vars
  <2>1. UNCHANGED <<client, remote, output>>
    BY <1>3 DEF vars, durable, files, environment
  <2>2. QED
    BY <1>1, <1>2, <2>1 DEF Sound, DiskOK, Probing, Leaving, Rec, TransportOf
<1>4. ASSUME NEW e \in Executions, RemoteStarts(e) \/ RemoteEnds(e) PROVE Sound'
  <2>1. PICK n \in {"running", "exit0", "exitN"} :
            /\ remote' = [remote EXCEPT ![e] = n]
            /\ remote[e] \in {"none", "running"}
            /\ client[e] # "none" \/ remote[e] # "none"
    BY <1>4 DEF RemoteStarts, RemoteEnds
  <2>2. UNCHANGED <<client, output>>
    BY <1>4 DEF RemoteStarts, RemoteEnds, durable, files
  <2>3. /\ remote'[e] = n
        /\ \A f \in Executions \ {e} : remote'[f] = remote[f]
    BY <2>1 DEF Inductive, TypeOK
  <2>4. ASSUME NEW f \in Executions, NEW t, NEW r, NEW c, Fits(t, r, c, remote[f])
        PROVE  Fits(t, r, c, remote'[f])
    <3>1. CASE f = e
      <4>1. PICK m \in {"none", "running"} : m = remote[e]
        BY <2>1
      <4>2. QED
        BY <2>3, <2>4, <3>1, <4>1, RemoteFits
    <3>2. CASE f # e
      BY <2>3, <2>4, <3>2
    <3>3. QED
      BY <3>1, <3>2
  <2>5. ASSUME NEW f \in Executions PROVE DiskOK(f)'
    BY <1>1, <2>1, <2>2, <2>3, <2>4 DEF Sound, DiskOK
  <2>6. ASSUME NEW p \in Procs, pc[p] \in ProbeSteps, Probing(p) PROVE Probing(p)'
    <3>1. cur[p] \in Executions
      BY <2>6 DEF Inductive, ProbeCopy, CopyOwn
    <3>2. Ready(pc[p], TransportOf(p), Rec(p), client[cur[p]], remote'[cur[p]])
      BY <2>4, <2>6, <3>1 DEF Probing, Ready
    <3>3. Rec(p)' = Rec(p) /\ TransportOf(p)' = TransportOf(p)
      BY <1>1 DEF Rec, TransportOf
    <3>4. QED
      BY <1>1, <2>2, <2>6, <3>1, <3>2, <3>3 DEF Probing
  <2>7. ASSUME NEW p \in Procs, Leaving(p) PROVE Leaving(p)'
    BY <1>1, <2>2, <2>7 DEF Leaving, Rec, TransportOf
  <2>8. QED
    BY <1>1, <2>5, <2>6, <2>7 DEF Sound, OneUndecided
<1>5. ASSUME NEW e \in Executions, ClientWrites(e) PROVE Sound'
  <2>1. /\ client[e] = "live" /\ \A f \in Executions \ {e} : output'[f] = output[f]
        /\ UNCHANGED <<client, remote>>
    BY <1>5 DEF ClientWrites, environment, Inductive, TypeOK
  <2>2. ASSUME NEW f \in Executions PROVE DiskOK(f)'
    BY <1>1, <2>1 DEF Sound, DiskOK, Fits
  <2>3. QED
    BY <1>1, <1>2, <2>1, <2>2 DEF Probing, Leaving, Rec, TransportOf
<1>6. ASSUME NEW e \in Executions, OrphanEnds(e) PROVE Sound'
  <2>1. /\ client[e] = "live" /\ client'[e] = "gone"
        /\ \A f \in Executions \ {e} : client'[f] = client[f]
        /\ \A p \in Procs : cur[p] # e
        /\ UNCHANGED <<output, remote>>
    BY <1>6 DEF OrphanEnds, durable, files, Inductive, TypeOK
  <2>2. ASSUME NEW f \in Executions PROVE DiskOK(f)'
    <3>1. CASE f = e
      BY <1>1, <2>1, <3>1 DEF Sound, DiskOK, Fits
    <3>2. CASE f # e
      BY <1>1, <2>1, <3>2 DEF Sound, DiskOK
    <3>3. QED
      BY <3>1, <3>2
  <2>3. ASSUME NEW p \in Procs, pc[p] \in ProbeSteps, Probing(p) PROVE Probing(p)'
    <3>1. cur[p] \in Executions
      BY <2>3 DEF Inductive, ProbeCopy, CopyOwn
    <3>2. client'[cur[p]] = client[cur[p]]
      BY <2>1, <3>1
    <3>3. QED
      BY <1>1, <2>1, <2>3, <3>1, <3>2 DEF Probing, Rec, TransportOf
  <2>4. ASSUME NEW p \in Procs, Leaving(p) PROVE Leaving(p)'
    BY <1>1, <2>1, <2>4 DEF Leaving, Rec, TransportOf
  <2>5. QED
    BY <1>1, <2>2, <2>3, <2>4 DEF Sound, OneUndecided
<1>7. QED
  BY <1>3, <1>4, <1>5, <1>6 DEF Environment

-----------------------------------------------------------------------------
(* The theorems about reachable states.                                    *)

\* An empty store is Sound.
LEMMA InitSound == Init => Sound
<1> SUFFICES ASSUME Init PROVE Sound
  OBVIOUS
<1>1. \A p \in Procs : pc[p] \notin ProbeSteps \cup LeaveSteps /\ cur[p] = Null
  BY DEF Init, LeaveSteps, ProbeSteps, DirectSteps, MasterSteps
<1>2. \A e \in Executions :
          /\ ledger.executions[e].status = "absent" /\ ledger.executions[e].approval = Null
          /\ ledger.executions[e].remote_command_attempts = 0
          /\ client[e] = "none" /\ remote[e] = "none"
  BY DEF Init, EmptyLedger, NoExecution
<1>3. QED
  BY <1>1, <1>2 DEF Sound, DiskOK, OneUndecided, Unresolved, Pending

\* Every step of an invocation, of the environment or of a crash keeps Sound.
LEMMA NextSound == Inductive /\ Inductive' /\ Sound /\ [Next]_vars => Sound'
<1> SUFFICES ASSUME Inductive, Inductive', Sound, [Next]_vars PROVE Sound'
  OBVIOUS
<1>1. ASSUME NEW p \in Procs, Proceed(p) PROVE Sound'
  <2>1. CASE ProbeMaster(p)
    BY <2>1, CheckSound, SessionSound DEF ProbeMaster
  <2>2. QED
    BY <1>1, <2>1, RecoverSound, ApproveSound, RestSound, CreateLogsSound, ReserveSound,
       DirectSound, FinishSound DEF Proceed
<1>2. ASSUME NEW p \in Procs, ClientAnswers(p) PROVE Sound'
  BY <1>2, DirectSound, CheckSound, SessionSound DEF ClientAnswers
<1>3. QED
  BY <1>1, <1>2, RestSound, EnvironmentSound DEF Next

\* Every record of remote.py's ledger fits what has happened, at every step of every
\* probe and across every crash and failed save.
THEOREM RecordsSound == Spec => []Sound
<1>1. Init /\ Inductive => Sound
  BY InitSound
<1>2. Sound /\ Inductive /\ Inductive' /\ [Next]_vars => Sound'
  BY NextSound
<1>3. QED
  BY <1>1, <1>2, Invariance, PTL DEF Spec

\* What is on disk and what is reported never hides a session, whatever crashes and
\* failed saves there were: the records pass Store.validate, count every client that
\* was started, keep the master's answer, and the report of a probe agrees.
THEOREM RecordsHonest == Spec => []LaunchOnRecord
<1>1. Inductive /\ Sound => LaunchOnRecord
  <2> SUFFICES ASSUME Inductive, Sound PROVE LaunchOnRecord
    OBVIOUS
  <2>1. ASSUME NEW e \in Recorded(ledger) PROVE ValidExecution(ledger, e)
    <3>1. DiskOK(e) /\ ledger.executions[e] \in Execution /\ ledger.executions[e].status # "absent"
      BY <2>1 DEF Sound, Recorded, Inductive, TypeOK, Ledger
    <3>2. ledger.executions[e].completion_proof \in BOOLEAN
      BY <3>1 DEF Execution
    <3>3. QED
      BY <3>1, <3>2 DEF DiskOK, Fits, ValidExecution, Transports
  <2>2. WithinBudget(ledger)
    <3> SUFFICES ASSUME NEW e \in Recorded(ledger), NEW f \in Recorded(ledger),
                        ledger.executions[e].approval = ledger.executions[f].approval
                 PROVE  e = f
      BY DEF WithinBudget
    <3>1. e \in Executions /\ f \in Executions /\ DiskOK(e) /\ ledger.executions[e].status # "absent"
      BY DEF Recorded, Sound
    <3>2. ledger.executions[e].approval # Null
      BY <3>1, NullFacts DEF DiskOK
    <3>3. QED
      BY <3>1, <3>2 DEF Sound, OneUndecided
  <2>3. NeverFalselyZero
    BY DEF NeverFalselyZero, Sound, DiskOK, Fits, Transports
  <2>4. AliveEvidenceKept
    BY DEF AliveEvidenceKept, Sound, DiskOK
  <2>5. MasterReportHonest
    <3> SUFFICES ASSUME NEW p \in Procs, pc[p] \in LeaveSteps, cur[p] # Null,
                        Reported(p) = "LOCAL_STOP", TransportOf(p) # "direct"
                 PROVE  client[cur[p]] = "none"
      BY DEF MasterReportHonest
    <3>1. Reportable(pc[p], TransportOf(p), Rec(p), client[cur[p]])
      BY DEF Sound, Leaving
    <3>2. CASE pc[p] = "return"
      BY <3>1, <3>2 DEF Reportable, Reported
    <3>3. CASE pc[p] = "unrecorded"
      <4>1. Rec(p).logical_session_calls = 0
        BY <3>3 DEF Reported
      <4>2. QED
        BY <3>1, <3>3, <4>1 DEF Reportable
    <3>4. CASE pc[p] = "raise"
      BY <3>1, <3>4 DEF Reportable
    <3>5. QED
      BY <3>2, <3>3, <3>4 DEF LeaveSteps
  <2>6. QED
    BY <2>1, <2>2, <2>3, <2>4, <2>5 DEF LaunchOnRecord, RecordsSelfConsistent, RecordsValid
<1>2. QED
  BY <1>1, Invariance, RecordsSound, PTL

\* A decided outcome is what the remote command did, and the output its digest covers
\* no longer changes.
THEOREM OutcomeTrue == Spec => []OutcomeIsTrue
<1>1. Sound => OutcomeIsTrue
  <2> SUFFICES ASSUME Sound PROVE OutcomeIsTrue
    OBVIOUS
  <2>1. ConfirmedIsTrue
    BY DEF ConfirmedIsTrue, Sound, DiskOK, Fits
  <2>2. EvidenceStable
    BY DEF EvidenceStable, Recorded, Sound, DiskOK
  <2>3. QED
    BY <2>1, <2>2 DEF OutcomeIsTrue
<1>2. QED
  BY <1>1, RecordsSound, PTL

\* However many invocations there are, two of their sessions are in flight together
\* only across a recorded CONNECTION_STOP: remote.py's serialization.
THEOREM Serialized == Spec => []SerializedUnlessStopped
<1>1. Inductive /\ Sound => SerializedUnlessStopped
  <2> SUFFICES ASSUME Inductive, Sound, NEW e \in Executions, NEW f \in Executions, e # f,
                      InFlight(e), InFlight(f)
               PROVE  \E g \in {e, f} : ledger.executions[g].status = "CONNECTION_STOP"
    BY DEF SerializedUnlessStopped
  <2>1. PICK g \in {e, f} : ledger.executions[g].status \notin Unresolved
    BY DEF Sound, OneUndecided
  <2>2. /\ InFlight(g) /\ g \in Executions /\ DiskOK(g)
        /\ ledger.executions[g].status \in Statuses
    BY DEF Sound, Inductive, TypeOK, Ledger, Execution
  <2>3. client[g] # "none" /\ ledger.executions[g].status # "absent"
    BY <2>2 DEF InFlight, DiskOK
  <2>4. /\ ledger.executions[g].status \notin {"LAUNCH_FAILED", "MASTER_UNAVAILABLE", "LOCAL_STOP"}
        /\ client[g] # "live"
        /\ ledger.executions[g].status = "COMPLETE" => remote[g] = "exit0"
        /\ ledger.executions[g].status = "REMOTE_FAILED" => remote[g] = "exitN"
    BY <2>1, <2>2, <2>3 DEF DiskOK, Fits, Unresolved, Pending
  <2>5. QED
    BY <2>1, <2>2, <2>3, <2>4
       DEF InFlight, Statuses, DirectStatuses, MasterStatuses, Pending, Confirmed, Unresolved
<1>2. QED
  BY <1>1, Invariance, RecordsSound, PTL

-----------------------------------------------------------------------------
(* What a step may do to the ledger on disk.                               *)

Silent == UNCHANGED <<ledger, launches>>

Granted(a, t) ==
    /\ ledger.approvals[a] = "absent" /\ t \in Transports
    /\ NoneUnresolved(ledger)
    /\ ledger' = [ledger EXCEPT !.approvals[a] = t]
    /\ UNCHANGED launches

Recovered ==
    /\ ledger' = Recover(ledger, output)
    /\ UNCHANGED launches

\* A first record of an approval, or another record of the same probe.
Saved(e, a, r) ==
    /\ r \in Execution /\ r.approval = a /\ r.status # "absent"
    /\ ledger.approvals[a] \in Transports
    /\ \/ ledger.executions[e].status \in Pending /\ ledger.executions[e].approval = a
       \/ /\ ledger.executions[e].status = "absent" /\ r.status \in Pending
          /\ NoneUnresolved(ledger) /\ Unspent(ledger, a)
    /\ ledger' = [ledger EXCEPT !.executions[e] = r]
    /\ UNCHANGED launches

Launched(e, a) ==
    /\ ledger.executions[e].status \in Pending /\ ledger.executions[e].approval = a
    /\ launches[a] = 0
    /\ launches' = [launches EXCEPT ![a] = 1]
    /\ UNCHANGED ledger

DurableStep ==
    \/ Silent
    \/ Recovered
    \/ \E a \in Approvals, t \in Transports : Granted(a, t)
    \/ \E e \in Executions, a \in Approvals, r \in Execution : Saved(e, a, r)
    \/ \E e \in Executions, a \in Approvals : Launched(e, a)

\* A save of a probe writes the record in hand over a pending one, or is the first.
LEMMA SaveDurable ==
    ASSUME Inductive, Sound, NEW p \in Procs, pc[p] \in ProbeSteps,
           NEW e, NEW t, NEW o, InHand(p, e, t, o),
           NEW r \in Execution, r.approval = o.approval, r.status # "absent",
           pc[p] = "reserve" => r.status \in Pending,
           NEW next, NEW error, Save(p, Put(p, r), next, error), UNCHANGED launches
    PROVE  DurableStep
<1>1. CopyOwn(p) /\ Probing(p) /\ mem[p] \in Ledger /\ ledger \in Ledger
  BY DEF Inductive, ProbeCopy, Sound, TypeOK
<1>2. PICK a \in Approvals : a = o.approval
  BY DEF InHand
<1>3. Put(p, r) = [ledger EXCEPT !.executions[e] = r]
  <2>1. [mem[p].executions EXCEPT ![e] = r] = [ledger.executions EXCEPT ![e] = r]
    BY <1>1 DEF Ledger, CopyOwn, InHand
  <2>2. QED
    BY <1>1, <2>1 DEF Ledger, CopyOwn, Put, InHand
<1>4. ledger.approvals[a] \in Transports
  BY <1>1, <1>2 DEF InHand, TransportOf, CopyOwn
<1>5. \/ ledger.executions[e].status \in Pending /\ ledger.executions[e].approval = a
      \/ /\ ledger.executions[e].status = "absent" /\ r.status \in Pending
         /\ NoneUnresolved(ledger) /\ Unspent(ledger, a)
  <2>1. \A f \in Executions : f # e => /\ ledger.executions[f].status \notin Unresolved
                                        /\ ledger.executions[f].approval # a
    BY <1>1, <1>2 DEF Probing, InHand
  <2>2. CASE pc[p] = "reserve"
    <3>1. ledger.executions[e].status = "absent" /\ ledger.executions[e].approval = Null
      BY <1>1, <2>2 DEF Probing, CopyOwn, InHand
    <3>2. NoneUnresolved(ledger) /\ Unspent(ledger, a)
      BY <2>1, <3>1, NullFacts DEF NoneUnresolved, Unspent, Unresolved
    <3>3. QED
      BY <2>2, <3>1, <3>2
  <2>3. CASE pc[p] # "reserve"
    BY <1>1, <1>2, <2>3 DEF Probing, CopyOwn, InHand
  <2>4. QED
    BY <2>2, <2>3
<1>6. CASE ledger' = ledger
  BY <1>6 DEF DurableStep, Silent
<1>7. CASE ledger' = Put(p, r)
  <2>1. Saved(e, a, r)
    BY <1>2, <1>3, <1>4, <1>5, <1>7 DEF Saved
  <2>2. QED
    BY <2>1 DEF DurableStep, InHand
<1>8. QED
  BY <1>6, <1>7 DEF Save

\* A client is started for the pending record on disk, and once.
LEMMA LaunchDurable ==
    ASSUME Inductive, Sound, NEW p \in Procs, LaunchDirect(p) \/ SessionLaunch(p)
    PROVE  DurableStep
<1>1. pc[p] \in {"launch", "session-launch"} /\ UNCHANGED ledger
  BY DEF LaunchDirect, SessionLaunch, Update
<1>2. pc[p] \in ProbeSteps /\ pc[p] \in BeforeSession
  BY <1>1 DEF ProbeSteps, DirectSteps, MasterSteps, BeforeSession
<1>3. CopyOwn(p) /\ Probing(p)
  BY <1>2 DEF Inductive, ProbeCopy, Sound
<1>4. PICK e \in Executions, a \in Approvals : e = cur[p] /\ a = Rec(p).approval
  BY <1>3 DEF CopyOwn
<1>5. /\ ledger.executions[e].status \in Pending /\ ledger.executions[e].approval = a
      /\ launches[a] = 0
  BY <1>1, <1>2, <1>3, <1>4 DEF CopyOwn, Probing
<1>6. CASE StartClient(p)
  <2>1. launches' = [launches EXCEPT ![a] = 1]
    <3>1. launches' = [launches EXCEPT ![a] = launches[a] + 1]
      BY <1>4, <1>6 DEF StartClient
    <3>2. launches[a] + 1 = 1
      BY <1>5
    <3>3. QED
      BY <3>1, <3>2
  <2>2. Launched(e, a)
    BY <1>1, <1>5, <2>1 DEF Launched
  <2>3. QED
    BY <2>2 DEF DurableStep
<1>7. CASE UNCHANGED environment
  BY <1>1, <1>7 DEF environment, DurableStep, Silent
<1>8. QED
  BY <1>6, <1>7 DEF LaunchDirect, SessionLaunch

\* Every step does one of these to what is durable.
LEMMA StepIsDurable == Inductive /\ Sound /\ [Next]_vars => DurableStep
<1> SUFFICES ASSUME Inductive, Sound, [Next]_vars PROVE DurableStep
  OBVIOUS
<1>1. CASE UNCHANGED <<ledger, launches>>
  BY <1>1 DEF DurableStep, Silent
<1>2. ASSUME NEW p \in Procs,
             Initialize(p) \/ Lock(p) \/ Reject(p) \/ Leave(p) \/ Crash(p)
      PROVE  UNCHANGED <<ledger, launches>>
  BY <1>2 DEF Initialize, BeginInitialize, CreateCoordination, Populate, Lock, Reject, Leave,
         Crash, durable, files, environment
<1>3. ASSUME Environment \/ UNCHANGED vars PROVE UNCHANGED <<ledger, launches>>
  BY <1>3 DEF Environment, RemoteStarts, RemoteEnds, ClientWrites, OrphanEnds, durable, files,
         local, environment, vars
<1>4. ASSUME NEW p \in Procs,
             \/ DirectNotLaunched(p) \/ DirectAborts(p) \/ DirectEnds(p) \/ CheckLaunch(p)
             \/ \E socket \in SocketStates :
                    SocketCheck(p, socket) \/ Recheck(p, socket) \/ SessionEnds(p, socket)
             \/ CheckNotLaunched(p) \/ CheckFails(p) \/ CheckAborts(p) \/ CheckPasses(p)
             \/ DeadlinePassed(p) \/ SessionNotLaunched(p) \/ SessionAborts(p)
      PROVE  UNCHANGED <<ledger, launches>>
  BY <1>4 DEF DirectNotLaunched, DirectAborts, DirectEnds, CheckLaunch, SocketCheck, Recheck,
         SessionEnds, CheckNotLaunched, CheckFails, CheckAborts, CheckPasses, DeadlinePassed,
         SessionNotLaunched, SessionAborts, Update, KillClient, ClientEnds, environment, SocketStates
<1>5. ASSUME NEW p \in Procs, NEW a \in Approvals, NEW e \in Executions, CreateLogs(p, a, e)
      PROVE  UNCHANGED <<ledger, launches>>
  BY <1>5 DEF CreateLogs, environment
<1>6. ASSUME NEW p \in Procs, RecoverStep(p) PROVE DurableStep
  BY <1>6 DEF RecoverStep, Save, environment, Inductive, CopyFresh, DurableStep, Silent, Recovered
<1>7. ASSUME NEW p \in Procs, NEW a \in Approvals, NEW transport \in Transports,
             Approve(p, a, transport)
      PROVE  DurableStep
  <2>1. mem[p] = ledger /\ UNCHANGED launches
    BY <1>7 DEF Approve, Inductive, CopyFresh, environment
  <2>2. UNCHANGED ledger \/ Granted(a, transport)
    BY <1>7, <2>1 DEF Approve, Save, Granted
  <2>3. QED
    BY <2>1, <2>2 DEF DurableStep, Silent
<1>8. ASSUME NEW p \in Procs, Reserve(p) \/ Finish(p) \/ SaveRunning(p) \/ CheckIntent(p)
                              \/ CheckRunning(p) \/ SaveAlive(p) \/ SessionIntent(p)
                              \/ SessionRunning(p)
      PROVE  DurableStep
  <2>1. pc[p] \in ProbeSteps /\ UNCHANGED launches
    BY <1>8 DEF Reserve, Finish, SaveRunning, CheckIntent, CheckRunning, SaveAlive,
       SessionIntent, SessionRunning, environment, ProbeSteps, DirectSteps, MasterSteps
  <2>2. PICK e, t, o : InHand(p, e, t, o)
    BY <2>1, Hand
  <2>3. /\ o \in Execution /\ o = Rec(p) /\ o.status # "absent" /\ mem[p] = Put(p, o)
        /\ e = cur[p] /\ e \in Executions
        /\ pc[p] = "reserve" => o.status \in Pending
    BY <2>2 DEF InHand, Ready, Shape, Pending
  <2>4. PICK size \in Nat : size = output[e]
    BY <2>3 DEF Inductive, TypeOK
  <2>5. PICK r, next, error :
            /\ Save(p, Put(p, r), next, error)
            /\ \/ r = o
               \/ r = [o EXCEPT !.output = size]
               \/ r = [o EXCEPT !.local_check_calls = Null, !.ssh_calls = Null]
               \/ r = [o EXCEPT !.logical_session_calls = Null, !.remote_command_attempts = 1,
                                !.confirmed = Null, !.ssh_calls = Null]
    BY <1>8, <2>3, <2>4
       DEF Reserve, Finish, SaveRunning, CheckIntent, CheckRunning, SaveAlive, SessionIntent,
           SessionRunning
  <2>6. r \in Execution /\ r.approval = o.approval /\ r.status = o.status
    BY <2>3, <2>5 DEF Execution
  <2>7. QED
    BY <2>1, <2>2, <2>3, <2>5, <2>6, SaveDurable
<1>9. ASSUME NEW p \in Procs, LaunchDirect(p) \/ SessionLaunch(p) PROVE DurableStep
  BY <1>9, LaunchDurable
<1>10. QED
  BY <1>1, <1>2, <1>3, <1>4, <1>5, <1>6, <1>7, <1>8, <1>9
     DEF Next, Proceed, ProbeDirect, ProbeMaster, ClientAnswers

\* A decided execution and an approval are never rewritten: no recovery, no other
\* invocation and no late save of an earlier copy of the ledger touches them.
THEOREM DecidedStays == Spec => NeverRewritten
<1>1. Inductive /\ Sound /\ [Next]_vars =>
          [/\ \A e \in Executions :
                  ledger.executions[e].status \notin Pending \cup {"absent"} =>
                      ledger'.executions[e] = ledger.executions[e]
           /\ \A a \in Approvals :
                  ledger.approvals[a] # "absent" => ledger'.approvals[a] = ledger.approvals[a]]_vars
  <2> SUFFICES ASSUME Inductive, Sound, [Next]_vars
               PROVE  /\ \A e \in Executions :
                             ledger.executions[e].status \notin Pending \cup {"absent"} =>
                                 ledger'.executions[e] = ledger.executions[e]
                      /\ \A a \in Approvals :
                             ledger.approvals[a] # "absent" =>
                                 ledger'.approvals[a] = ledger.approvals[a]
    OBVIOUS
  <2>1. DurableStep /\ ledger \in Ledger
    BY StepIsDurable DEF Inductive, TypeOK
  <2>2. CASE Silent
    BY <2>2 DEF Silent
  <2>3. CASE Recovered
    BY <2>1, <2>3 DEF Recovered, Recover, RecoverExecution, Ledger
  <2>4. ASSUME NEW a \in Approvals, NEW t \in Transports, Granted(a, t)
        PROVE  /\ ledger'.executions = ledger.executions
               /\ \A b \in Approvals : ledger.approvals[b] # "absent" =>
                      ledger'.approvals[b] = ledger.approvals[b]
    BY <2>1, <2>4 DEF Granted, Ledger
  <2>5. ASSUME NEW e \in Executions, NEW a \in Approvals, NEW r \in Execution, Saved(e, a, r)
        PROVE  /\ ledger'.approvals = ledger.approvals
               /\ \A f \in Executions :
                      ledger.executions[f].status \notin Pending \cup {"absent"} =>
                          ledger'.executions[f] = ledger.executions[f]
    BY <2>1, <2>5 DEF Saved, Ledger
  <2>6. ASSUME NEW e \in Executions, NEW a \in Approvals, Launched(e, a)
        PROVE  ledger' = ledger
    BY <2>6 DEF Launched
  <2>7. QED
    BY <2>1, <2>2, <2>3, <2>4, <2>5, <2>6 DEF DurableStep
<1>2. QED
  BY <1>1, Invariance, RecordsSound, PTL DEF Spec, NeverRewritten


-----------------------------------------------------------------------------
(* The ledger implements ProbeBudget.                                      *)

\* What the status of its one execution says of an approval.
Outcome(status) ==
    IF status \in Pending THEN "open"
    ELSE IF status \in {"UNKNOWN", "MASTER_LOST"} THEN "lost" ELSE "closed"

\* The phase of an approval is that of its one execution.
LEMMA UsedPhase ==
    ASSUME NEW l \in Ledger, NEW a \in Approvals, l.approvals[a] # "absent",
           NEW e \in Executions, l.executions[e].approval = a,
           \A f \in Executions : l.executions[f].approval = a => f = e
    PROVE  Phase(l, a) = Outcome(l.executions[e].status)
<1>1. l.executions[e].status \in Statuses
  BY DEF Ledger, Execution
<1>2. ASSUME NEW statuses
      PROVE  (\E f \in Executions : /\ l.executions[f].approval = a
                                    /\ l.executions[f].status \in statuses)
                 <=> l.executions[e].status \in statuses
  OBVIOUS
<1>3. QED
  BY <1>1, <1>2 DEF Phase, Outcome

\* The phase of an approval that no execution has used.
LEMMA UnusedPhase ==
    ASSUME NEW l \in Ledger, NEW a \in Approvals,
           \A e \in Executions : l.executions[e].approval # a
    PROVE  Phase(l, a) = IF l.approvals[a] = "absent" THEN "unknown" ELSE "granted"
BY DEF Phase

\* An approval's phase depends on its entry and on the executions that used it.
LEMMA SamePhase ==
    ASSUME NEW l \in Ledger, NEW m \in Ledger, NEW a \in Approvals,
           m.approvals[a] = l.approvals[a],
           \A e \in Executions :
               \/ m.executions[e] = l.executions[e]
               \/ m.executions[e].approval # a /\ l.executions[e].approval # a
    PROVE  Phase(m, a) = Phase(l, a)
<1>1. ASSUME NEW statuses
      PROVE  (\E f \in Executions : /\ l.executions[f].approval = a
                                    /\ l.executions[f].status \in statuses)
                 <=> (\E f \in Executions : /\ m.executions[f].approval = a
                                            /\ m.executions[f].status \in statuses)
  OBVIOUS
<1>2. QED
  BY <1>1 DEF Phase

\* One approval moves to another phase and the rest stay.
LEMMA OnePhaseMoves ==
    ASSUME NEW l \in Ledger, NEW m \in Ledger, NEW a \in Approvals,
           \A b \in Approvals : b # a => Phase(m, b) = Phase(l, b)
    PROVE  [b \in Approvals |-> Phase(m, b)] =
               [[b \in Approvals |-> Phase(l, b)] EXCEPT ![a] = Phase(m, a)]
OBVIOUS

\* An approval the ledger does not have is used by no execution.
LEMMA KnownFirst ==
    ASSUME Inductive, Sound, NEW e \in Executions, NEW a \in Approvals,
           ledger.executions[e].approval = a
    PROVE  ledger.executions[e].status # "absent" /\ ledger.approvals[a] \in Transports
BY NullFacts DEF Inductive, Accounted, Sound, DiskOK, Fits

\* The phase on disk of an approval that has been used.
LEMMA DiskPhase ==
    ASSUME Inductive, Sound, NEW e \in Executions, NEW a \in Approvals,
           ledger.executions[e].approval = a
    PROVE  Phase(ledger, a) = Outcome(ledger.executions[e].status)
<1>1. ledger \in Ledger /\ ledger.approvals[a] # "absent"
  BY KnownFirst DEF Inductive, TypeOK, Transports
<1>2. \A f \in Executions : ledger.executions[f].approval = a => f = e
  BY NullFacts DEF Sound, OneUndecided
<1>3. QED
  BY <1>1, <1>2, UsedPhase

\* Nothing undecided on disk is nothing undecided in ProbeBudget.
LEMMA QuietPhases ==
    ASSUME Inductive, Sound, NoneUnresolved(ledger)
    PROVE  Budget!Quiet
<1> SUFFICES ASSUME NEW a \in Approvals PROVE Phase(ledger, a) \notin {"open", "lost"}
  BY DEF Budget!Quiet, Budget!Undecided
<1>1. CASE \A e \in Executions : ledger.executions[e].approval # a
  <2>1. ledger \in Ledger
    BY DEF Inductive, TypeOK
  <2>2. QED
    BY <1>1, <2>1, UnusedPhase
<1>2. CASE \E e \in Executions : ledger.executions[e].approval = a
  <2>1. PICK e \in Executions : ledger.executions[e].approval = a
    BY <1>2
  <2>2. ledger.executions[e].status \notin Pending \cup {"UNKNOWN", "MASTER_LOST"}
    BY DEF NoneUnresolved, Unresolved, Pending
  <2>3. QED
    BY <2>1, <2>2, DiskPhase DEF Outcome
<1>3. QED
  BY <1>1, <1>2

\* A human's approval is a Grant.
LEMMA GrantedIsGrant ==
    ASSUME Inductive, Sound, ledger' \in Ledger, NEW a \in Approvals, NEW t, Granted(a, t)
    PROVE  Budget!Grant(a)
<1>1. ledger \in Ledger
  BY DEF Inductive, TypeOK
<1>2. /\ ledger'.executions = ledger.executions
      /\ ledger'.approvals[a] = t /\ t # "absent"
      /\ \A b \in Approvals : b # a => ledger'.approvals[b] = ledger.approvals[b]
  BY <1>1 DEF Granted, Ledger, Transports
<1>3. \A e \in Executions : ledger.executions[e].approval # a
  BY KnownFirst DEF Granted, Transports
<1>4. Phase(ledger, a) = "unknown" /\ Phase(ledger', a) = "granted"
  BY <1>1, <1>2, <1>3, UnusedPhase DEF Granted
<1>5. \A b \in Approvals : b # a => Phase(ledger', b) = Phase(ledger, b)
  BY <1>1, <1>2, SamePhase
<1>6. Budget!Quiet
  BY QuietPhases DEF Granted
<1>7. [b \in Approvals |-> Phase(ledger', b)] =
          [[b \in Approvals |-> Phase(ledger, b)] EXCEPT ![a] = Phase(ledger', a)]
  BY <1>1, <1>5, OnePhaseMoves
<1>8. QED
  BY <1>4, <1>6, <1>7 DEF Budget!Grant, Granted

\* A first record is a Reserve, a decision is a Decide, any other save is no step.
LEMMA SavedIsStep ==
    ASSUME Inductive, Sound, ledger' \in Ledger,
           NEW e \in Executions, NEW a \in Approvals, NEW r \in Execution, Saved(e, a, r)
    PROVE  \/ Budget!Reserve(a)
           \/ Budget!Decide(a)
           \/ UNCHANGED Budget!vars
<1>1. ledger \in Ledger
  BY DEF Inductive, TypeOK
<1>2. /\ ledger'.approvals = ledger.approvals
      /\ ledger'.executions[e] = r /\ r.approval = a
      /\ \A f \in Executions : f # e => ledger'.executions[f] = ledger.executions[f]
  BY <1>1 DEF Saved, Ledger
<1>3. ledger.executions[e].approval \in {a, Null} /\ a # Null
  BY NullFacts DEF Saved, Inductive, Accounted
<1>4. \A f \in Executions : ledger.executions[f].approval = a => f = e
  BY NullFacts DEF Saved, Unspent, Sound, OneUndecided
<1>5. \A b \in Approvals : b # a => Phase(ledger', b) = Phase(ledger, b)
  <2> SUFFICES ASSUME NEW b \in Approvals, b # a PROVE Phase(ledger', b) = Phase(ledger, b)
    OBVIOUS
  <2>1. \A f \in Executions :
            \/ ledger'.executions[f] = ledger.executions[f]
            \/ ledger'.executions[f].approval # b /\ ledger.executions[f].approval # b
    BY <1>2, <1>3, NullFacts
  <2>2. QED
    BY <1>1, <1>2, <2>1, SamePhase
<1>6. Phase(ledger', a) = Outcome(r.status)
  <2>1. \A f \in Executions : ledger'.executions[f].approval = a => f = e
    BY <1>2, <1>4
  <2>2. ledger'.approvals[a] # "absent"
    BY <1>2 DEF Saved, Transports
  <2>3. QED
    BY <1>2, <2>1, <2>2, UsedPhase
<1>7. [b \in Approvals |-> Phase(ledger', b)] =
          [[b \in Approvals |-> Phase(ledger, b)] EXCEPT ![a] = Phase(ledger', a)]
  BY <1>1, <1>5, OnePhaseMoves
<1>8. CASE ledger.executions[e].status \in Pending /\ ledger.executions[e].approval = a
  <2>1. Phase(ledger, a) = "open"
    BY <1>8, DiskPhase DEF Outcome
  <2>2. CASE r.status \in Pending
    <3>1. [b \in Approvals |-> Phase(ledger', b)] = [b \in Approvals |-> Phase(ledger, b)]
      BY <1>6, <1>5, <2>1, <2>2 DEF Outcome
    <3>2. QED
      BY <3>1 DEF Budget!vars, Saved
  <2>3. CASE r.status \notin Pending
    <3>1. Phase(ledger', a) \in {"closed", "lost"}
      BY <1>6, <2>3 DEF Outcome
    <3>2. Budget!Decide(a)
      BY <1>7, <2>1, <3>1 DEF Budget!Decide, Saved
    <3>3. QED
      BY <3>2
  <2>4. QED
    BY <2>2, <2>3
<1>9. CASE NoneUnresolved(ledger) /\ Unspent(ledger, a) /\ r.status \in Pending
  <2>1. Phase(ledger, a) = "granted"
    BY <1>1, <1>9, UnusedPhase DEF Unspent, Saved, Transports
  <2>2. Phase(ledger', a) = "open"
    BY <1>6, <1>9 DEF Outcome
  <2>3. Budget!Reserve(a)
    BY <1>7, <1>9, <2>1, <2>2, QuietPhases DEF Budget!Reserve, Saved
  <2>4. QED
    BY <2>3
<1>10. QED
  BY <1>8, <1>9 DEF Saved

\* Recovery decides the one interrupted execution, or nothing.
LEMMA RecoveredIsStep ==
    ASSUME Inductive, Sound, ledger' \in Ledger, Recovered
    PROVE  \/ \E a \in Approvals : Budget!Decide(a)
           \/ UNCHANGED Budget!vars
<1>1. ledger \in Ledger
  BY DEF Inductive, TypeOK
<1>2. /\ ledger'.approvals = ledger.approvals
      /\ \A f \in Executions :
            /\ ledger'.executions[f] = RecoverExecution(ledger, f, output)
            /\ ledger.executions[f].status \notin Pending =>
                   ledger'.executions[f] = ledger.executions[f]
  BY <1>1 DEF Recovered, Recover, RecoverExecution, Ledger
<1>3. CASE \A f \in Executions : ledger.executions[f].status \notin Pending
  <2>1. \A b \in Approvals : Phase(ledger', b) = Phase(ledger, b)
    BY <1>1, <1>2, <1>3, SamePhase
  <2>2. QED
    BY <2>1 DEF Budget!vars, Recovered
<1>4. CASE \E f \in Executions : ledger.executions[f].status \in Pending
  <2>1. PICK e \in Executions : ledger.executions[e].status \in Pending
    BY <1>4
  <2>2. \A f \in Executions : f # e => ledger'.executions[f] = ledger.executions[f]
    BY <1>2, <2>1 DEF Sound, OneUndecided, Unresolved, Pending
  <2>3. PICK a \in Approvals : a = ledger.executions[e].approval
    BY <2>1 DEF Sound, DiskOK, Pending
  <2>4. ledger'.executions[e].approval = a /\ ledger'.executions[e].status = "UNKNOWN"
    <3>1. ledger.executions[e] \in Execution
      BY <1>1 DEF Ledger
    <3>2. QED
      BY <1>2, <2>1, <2>3, <3>1 DEF RecoverExecution, Execution
  <2>5. \A b \in Approvals : b # a => Phase(ledger', b) = Phase(ledger, b)
    <3> SUFFICES ASSUME NEW b \in Approvals, b # a PROVE Phase(ledger', b) = Phase(ledger, b)
      OBVIOUS
    <3>1. \A f \in Executions :
              \/ ledger'.executions[f] = ledger.executions[f]
              \/ ledger'.executions[f].approval # b /\ ledger.executions[f].approval # b
      BY <2>2, <2>3, <2>4
    <3>2. QED
      BY <1>1, <1>2, <3>1, SamePhase
  <2>6. Phase(ledger, a) = "open"
    BY <2>1, <2>3, DiskPhase DEF Outcome
  <2>7. Phase(ledger', a) = "lost"
    <3>1. \A f \in Executions : ledger'.executions[f].approval = a => f = e
      BY <2>2, <2>3, NullFacts DEF Sound, OneUndecided
    <3>2. ledger'.approvals[a] # "absent"
      BY <1>2, <2>3, KnownFirst DEF Transports
    <3>3. Phase(ledger', a) = Outcome("UNKNOWN")
      BY <2>4, <3>1, <3>2, UsedPhase
    <3>4. QED
      BY <3>3 DEF Outcome, Pending
  <2>8. [b \in Approvals |-> Phase(ledger', b)] =
            [[b \in Approvals |-> Phase(ledger, b)] EXCEPT ![a] = Phase(ledger', a)]
    BY <1>1, <2>5, OnePhaseMoves
  <2>9. Budget!Decide(a)
    BY <2>6, <2>7, <2>8 DEF Budget!Decide, Recovered
  <2>10. QED
    BY <2>9
<1>5. QED
  BY <1>3, <1>4

\* A client is started under an approval whose outcome is open, once.
LEMMA LaunchedIsLaunch ==
    ASSUME Inductive, Sound, NEW e \in Executions, NEW a \in Approvals, Launched(e, a)
    PROVE  Budget!Launch(a)
<1>1. Phase(ledger, a) = "open"
  BY DiskPhase DEF Launched, Outcome
<1>2. QED
  BY <1>1 DEF Budget!Launch, Launched

\* The ledger, its crashes, failed writes and recoveries implement the promise of
\* ProbeBudget: an approval is good for one reservation and one ssh session, and
\* while an outcome is open or lost nothing else is approved, reserved or started.
THEOREM BudgetImplemented == Spec => ImplementsBudget
<1>1. Init => Budget!Init
  <2> SUFFICES ASSUME Init PROVE Budget!Init
    OBVIOUS
  <2>1. /\ ledger = EmptyLedger /\ launches = [a \in Approvals |-> 0]
    BY DEF Init
  <2>2. \A a \in Approvals : Phase(ledger, a) = "unknown"
    BY <2>1 DEF Phase, EmptyLedger
  <2>3. QED
    BY <2>1, <2>2 DEF Budget!Init
<1>2. Inductive /\ Sound /\ Inductive' /\ [Next]_vars => [Budget!Next]_(Budget!vars)
  <2> SUFFICES ASSUME Inductive, Sound, Inductive', [Next]_vars
               PROVE  [Budget!Next]_(Budget!vars)
    OBVIOUS
  <2>1. DurableStep /\ ledger' \in Ledger
    BY StepIsDurable DEF Inductive, TypeOK
  <2>2. CASE Silent
    BY <2>2 DEF Silent, Budget!vars
  <2>3. CASE Recovered
    BY <2>1, <2>3, RecoveredIsStep DEF Budget!Next
  <2>4. CASE \E a \in Approvals, t \in Transports : Granted(a, t)
    BY <2>1, <2>4, GrantedIsGrant DEF Budget!Next
  <2>5. CASE \E e \in Executions, a \in Approvals, r \in Execution : Saved(e, a, r)
    BY <2>1, <2>5, SavedIsStep DEF Budget!Next
  <2>6. CASE \E e \in Executions, a \in Approvals : Launched(e, a)
    BY <2>6, LaunchedIsLaunch DEF Budget!Next
  <2>7. QED
    BY <2>1, <2>2, <2>3, <2>4, <2>5, <2>6 DEF DurableStep
<1>3. QED
  BY <1>1, <1>2, Invariance, RecordsSound, PTL DEF Spec, ImplementsBudget, Budget!Spec
=============================================================================
