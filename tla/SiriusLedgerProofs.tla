------------------------- MODULE SiriusLedgerProofs -------------------------
(***************************************************************************)
(* Proofs about SiriusLedger for any number of invocations, approvals and  *)
(* executions: type correctness, and the promise that an approval pays for *)
(* at most one ssh session.                                                *)
(*                                                                         *)
(* AtMostOneLaunch is not inductive.  A launch is safe because the          *)
(* reservation is on disk first, because the check that the approval was   *)
(* unused was made on a copy of the ledger that is still current, and      *)
(* because nobody else could write in between: Inductive says the three.   *)
(***************************************************************************)
EXTENDS SiriusLedger, TLAPS

\* Only the holder of the lock is between its acquisition and its release.
Exclusive == \A p \in Procs : pc[p] \in LockedSteps => lock = p

\* Only the invocation that created the coordination directory fills it.
OneCreator ==
    \A p \in Procs :
        pc[p] = "populate" =>
            /\ created \in 1..(StoreObjects - 1)
            /\ \A q \in Procs : pc[q] = "populate" => q = p

\* Steps from which the session's client can still be started.
BeforeSession ==
    {"reserve", "launch", "socket", "check-intent", "check-launch", "check-running",
     "check-wait", "alive", "recheck", "session-intent", "session-launch"}

\* The copy of an invocation that has recovered and not yet reserved.
CopyFresh == \A p \in Procs : pc[p] \in {"recover", "admit"} => mem[p] = ledger

\* During a probe the copy differs from the disk in the record in hand only,
\* whose approval is on disk once the reservation is, and is not used up
\* before the session.
CopyOwn(p) ==
    /\ cur[p] \in Executions
    /\ Rec(p).approval \in Approvals
    /\ Rec(p).status # "absent"
    /\ mem[p].approvals = ledger.approvals
    /\ \A e \in Executions : e # cur[p] => mem[p].executions[e] = ledger.executions[e]
    /\ ledger.executions[cur[p]].approval =
           IF pc[p] = "reserve" THEN Null ELSE Rec(p).approval
    /\ pc[p] \in BeforeSession => launches[Rec(p).approval] = 0

ProbeCopy == \A p \in Procs : pc[p] \in ProbeSteps => CopyOwn(p)

\* A started session is accounted for on disk.
Accounted ==
    /\ \A e \in Executions :
           ledger.executions[e].status = "absent" => ledger.executions[e].approval = Null
    /\ \A a \in Approvals :
           launches[a] # 0 => \E e \in Executions : ledger.executions[e].approval = a

Inductive ==
    /\ TypeOK
    /\ Exclusive
    /\ OneCreator
    /\ CopyFresh
    /\ ProbeCopy
    /\ Accounted
    /\ AtMostOneLaunch

-----------------------------------------------------------------------------
(* Lemmas about the operators on records and ledgers.                      *)

\* A reservation is a record of its approval and no longer absent.
LEMMA ReservationFacts ==
    ASSUME NEW a \in Approvals, NEW transport \in Transports
    PROVE  /\ Reservation(a, transport) \in Execution
           /\ Reservation(a, transport).approval = a
           /\ Reservation(a, transport).status # "absent"
BY DEF Reservation, NoExecution, Execution, Statuses, DirectStatuses, MasterStatuses,
       Pending, Confirmed

\* The record of a key the ledger does not have, and the ledger without keys.
LEMMA EmptyLedgerFacts == EmptyLedger \in Ledger
BY DEF EmptyLedger, Ledger, NoExecution, Execution, Statuses, DirectStatuses, MasterStatuses

\* Recovery changes statuses of interrupted executions only; no record is
\* added, dropped or moved to another approval.
LEMMA RecoverFacts ==
    ASSUME NEW l \in Ledger, NEW size \in [Executions -> Nat]
    PROVE  /\ Recover(l, size) \in Ledger
           /\ Recover(l, size).approvals = l.approvals
           /\ \A e \in Executions :
                  LET r == Recover(l, size).executions[e]
                  IN  /\ r.approval = l.executions[e].approval
                      /\ r.status = "absent" <=> l.executions[e].status = "absent"
<1>1. ASSUME NEW e \in Executions
      PROVE  /\ RecoverExecution(l, e, size) \in Execution
             /\ RecoverExecution(l, e, size).approval = l.executions[e].approval
             /\ RecoverExecution(l, e, size).status = "absent"
                    <=> l.executions[e].status = "absent"
  <2> DEFINE r == l.executions[e]
  <2>1. r \in Execution
    BY DEF Ledger
  <2>2. CASE r.status \notin Pending
    BY <2>1, <2>2 DEF RecoverExecution
  <2>3. CASE r.status \in Pending
    BY <2>1, <2>3 DEF RecoverExecution, Execution, Statuses, DirectStatuses, MasterStatuses, Pending
  <2>4. QED
    BY <2>2, <2>3
<1>2. QED
  BY <1>1 DEF Recover, Ledger

\* The part of TypeOK about the log directories, the clients and the remote
\* commands: no other part of Inductive reads them.
EnvironmentOK ==
    /\ logs \subseteq Executions
    /\ output \in [Executions -> Nat]
    /\ checked \subseteq Executions
    /\ client \in [Executions -> {"none", "live", "gone", "refused"}]
    /\ remote \in [Executions -> {"none", "running", "exit0", "exitN"}]

-----------------------------------------------------------------------------
(* A step of a probe, whatever it does to the record in hand: it keeps the  *)
(* approval of that record, writes the whole copy or nothing, and starts a *)
(* session at most when it leaves BeforeSession.                           *)

\* How the sets of steps of the code nest; cited instead of expanding them.
LEMMA StepNames ==
    /\ ProbeSteps \subseteq LockedSteps
    /\ LeaveSteps \subseteq LockedSteps
    /\ LockedSteps \subseteq Steps
    /\ BeforeSession \subseteq ProbeSteps
    /\ {"recover", "admit"} \subseteq LockedSteps
    /\ {"recover", "admit", "populate"} \cap (ProbeSteps \cup LeaveSteps) = {}
    /\ ProbeSteps \cap LeaveSteps = {}
    /\ "reserve" \in BeforeSession
    /\ {"idle", "create", "populate"} \cap LockedSteps = {}
BY DEF ProbeSteps, LeaveSteps, LockedSteps, Steps, BeforeSession, DirectSteps, MasterSteps

\* Any step of a probe that holds the lock, from a record it may change to a
\* ledger it may save, keeps Inductive.
LEMMA ProbeStep ==
    ASSUME Inductive, EnvironmentOK',
           NEW p \in Procs, pc[p] \in ProbeSteps,
           NEW l \in Ledger,
           l.approvals = mem[p].approvals,
           \A e \in Executions : e # cur[p] => l.executions[e] = mem[p].executions[e],
           l.executions[cur[p]].approval = Rec(p).approval,
           l.executions[cur[p]].status # "absent",
           NEW step \in (ProbeSteps \ {"reserve"}) \cup LeaveSteps,
           mem' = [mem EXCEPT ![p] = l],
           pc' = [pc EXCEPT ![p] = step],
           \/ ledger' = l
           \/ ledger' = ledger /\ (pc[p] = "reserve" => step \in LeaveSteps),
           \/ launches' = launches /\ (step \in BeforeSession => pc[p] \in BeforeSession)
           \/ /\ launches' = [launches EXCEPT ![Rec(p).approval] = @ + 1]
              /\ pc[p] \in BeforeSession \ {"reserve"}
              /\ step \notin BeforeSession,
           UNCHANGED <<created, lock, cur>>
    PROVE  Inductive'
<1> USE StepNames
<1>1. CopyOwn(p) /\ lock = p
  BY DEF Inductive, ProbeCopy, Exclusive
<1>2. \A q \in Procs : q # p => pc[q] \notin LockedSteps /\ pc'[q] = pc[q]
  BY <1>1 DEF Inductive, Exclusive, TypeOK
<1>3. pc'[p] = step /\ mem'[p] = l /\ cur'[p] = cur[p]
  BY DEF Inductive, TypeOK
<1>4. \A e \in Executions :
          ledger.executions[e].approval # Null =>
              ledger'.executions[e].approval = ledger.executions[e].approval
  BY <1>1 DEF CopyOwn, Inductive, Accounted
<1>5. TypeOK'
  <2>1. launches' \in [Approvals -> Nat]
    BY <1>1 DEF Inductive, TypeOK, CopyOwn
  <2>2. ledger' \in Ledger /\ mem' \in [Procs -> Ledger]
    BY DEF Inductive, TypeOK
  <2>3. pc' \in [Procs -> Steps]
    BY DEF Inductive, TypeOK
  <2>4. QED
    BY <2>1, <2>2, <2>3 DEF TypeOK, EnvironmentOK, Inductive
<1>6. Exclusive'
  BY <1>1, <1>2, <1>3 DEF Exclusive
<1>7. OneCreator'
  BY <1>2, <1>3 DEF OneCreator, Inductive
<1>8. CopyFresh'
  BY <1>2, <1>3 DEF CopyFresh
<1>9. ProbeCopy'
  <2>1. SUFFICES ASSUME step \in ProbeSteps
                 PROVE  CopyOwn(p)'
    BY <1>2, <1>3 DEF ProbeCopy
  <2>2. step # "reserve"
    OBVIOUS
  <2>3. Rec(p)' = l.executions[cur[p]] /\ Rec(p)'.approval = Rec(p).approval
    BY <1>3 DEF Rec
  <2>4. (cur[p] \in Executions /\ Rec(p).approval \in Approvals /\ Rec(p).status # "absent")'
    BY <1>1, <1>3, <2>3 DEF CopyOwn
  <2>5. CASE ledger' = l
    <3>1. step \in BeforeSession => launches'[Rec(p).approval] = 0
      BY <1>1 DEF CopyOwn
    <3>2. QED
      BY <2>2, <2>3, <2>4, <2>5, <1>3, <3>1 DEF CopyOwn
  <2>6. CASE ledger' = ledger /\ pc[p] # "reserve"
    <3>1. step \in BeforeSession => launches'[Rec(p).approval] = 0
      BY <1>1 DEF CopyOwn
    <3>2. QED
      BY <1>1, <2>2, <2>3, <2>4, <2>6, <1>3, <3>1 DEF CopyOwn
  <2>7. QED
    BY <2>1, <2>5, <2>6
<1>10. Accounted'
  <2>1. \A e \in Executions :
            ledger'.executions[e].status = "absent" => ledger'.executions[e].approval = Null
    BY <1>1 DEF CopyOwn, Inductive, Accounted
  <2>2. CASE launches' = launches
    BY <1>4, <2>1, <2>2, NullAssumption DEF Accounted, Inductive
  <2>3. CASE /\ launches' = [launches EXCEPT ![Rec(p).approval] = @ + 1]
             /\ pc[p] # "reserve"
    <3>1. ledger.executions[cur[p]].approval = Rec(p).approval
      BY <1>1, <2>3 DEF CopyOwn
    <3>2. \A a \in Approvals : launches'[a] # 0 => a = Rec(p).approval \/ launches[a] # 0
      BY <2>3 DEF Inductive, TypeOK
    <3>3. \A a \in Approvals : launches'[a] # 0 =>
              \E e \in Executions : ledger.executions[e].approval = a
      BY <1>1, <3>1, <3>2 DEF CopyOwn, Inductive, Accounted
    <3>4. QED
      BY <1>4, <2>1, <3>3, NullAssumption DEF Accounted
  <2>4. QED
    BY <2>2, <2>3
<1>11. AtMostOneLaunch'
  BY <1>1 DEF CopyOwn, AtMostOneLaunch, Inductive, TypeOK
<1>12. QED
  BY <1>5, <1>6, <1>7, <1>8, <1>9, <1>10, <1>11 DEF Inductive

-----------------------------------------------------------------------------
(* The three shapes a probe step has in the code: an update of the record, *)
(* a save, and a decision that changes neither.                            *)

\* An update of the record in hand leaves the other records alone.
LEMMA PutFacts ==
    ASSUME mem \in [Procs -> Ledger], NEW p \in Procs, cur[p] \in Executions,
           NEW r \in Execution
    PROVE  /\ Put(p, r) \in Ledger
           /\ Put(p, r).approvals = mem[p].approvals
           /\ Put(p, r).executions[cur[p]] = r
           /\ \A e \in Executions :
                  e # cur[p] => Put(p, r).executions[e] = mem[p].executions[e]
BY DEF Put, Ledger

\* What Inductive says of the record in hand of a probe.
LEMMA OwnRecord ==
    ASSUME Inductive, NEW p \in Procs, pc[p] \in ProbeSteps
    PROVE  /\ mem \in [Procs -> Ledger]
           /\ cur[p] \in Executions
           /\ Rec(p) \in Execution
           /\ Rec(p).approval \in Approvals
           /\ Rec(p).status # "absent"
           /\ launches \in [Approvals -> Nat]
           /\ EnvironmentOK
BY DEF Inductive, TypeOK, EnvironmentOK, ProbeCopy, CopyOwn, Rec, Ledger

\* A step that updates the record in hand in memory only.
LEMMA UpdateStep ==
    ASSUME Inductive, EnvironmentOK',
           NEW p \in Procs, pc[p] \in ProbeSteps \ {"reserve"},
           NEW r \in Execution, r.approval = Rec(p).approval, r.status # "absent",
           NEW step \in ProbeSteps \ {"reserve"},
           Update(p, r, step),
           \/ launches' = launches /\ (step \in BeforeSession => pc[p] \in BeforeSession)
           \/ /\ launches' = [launches EXCEPT ![Rec(p).approval] = @ + 1]
              /\ pc[p] \in BeforeSession
              /\ step \notin BeforeSession,
           UNCHANGED <<created, lock, cur>>
    PROVE  Inductive'
<1> DEFINE l == Put(p, r)
<1>1. /\ l \in Ledger
      /\ l.approvals = mem[p].approvals
      /\ l.executions[cur[p]] = r
      /\ \A e \in Executions : e # cur[p] => l.executions[e] = mem[p].executions[e]
  BY OwnRecord, PutFacts
<1>2. mem' = [mem EXCEPT ![p] = l] /\ pc' = [pc EXCEPT ![p] = step] /\ ledger' = ledger
  BY DEF Update, Goto
<1> HIDE DEF l
<1>3. QED
  BY <1>1, <1>2, ProbeStep

\* A step that saves the copy, with the three outcomes of save_json.
LEMMA SaveStep ==
    ASSUME Inductive, EnvironmentOK',
           NEW p \in Procs, pc[p] \in ProbeSteps,
           NEW l \in Ledger,
           l.approvals = mem[p].approvals,
           \A e \in Executions : e # cur[p] => l.executions[e] = mem[p].executions[e],
           l.executions[cur[p]].approval = Rec(p).approval,
           l.executions[cur[p]].status # "absent",
           NEW next \in (ProbeSteps \ {"reserve"}) \cup LeaveSteps,
           NEW error \in (ProbeSteps \ {"reserve"}) \cup LeaveSteps,
           pc[p] = "reserve" => error \in LeaveSteps,
           {next, error} \cap BeforeSession # {} => pc[p] \in BeforeSession,
           Save(p, l, next, error),
           UNCHANGED <<launches, created, lock, cur>>
    PROVE  Inductive'
<1>1. mem' = [mem EXCEPT ![p] = l]
  BY DEF Save
<1>2. CASE ledger' = l /\ pc' = [pc EXCEPT ![p] = next]
  BY <1>1, <1>2, ProbeStep
<1>3. CASE ledger' = l /\ pc' = [pc EXCEPT ![p] = error]
  BY <1>1, <1>3, ProbeStep
<1>4. CASE ledger' = ledger /\ pc' = [pc EXCEPT ![p] = error]
  BY <1>1, <1>4, ProbeStep
<1>5. QED
  BY <1>2, <1>3, <1>4 DEF Save, Goto

\* The copy as it is, which SaveRunning and its like write.
LEMMA OwnCopy ==
    ASSUME Inductive, NEW p \in Procs, pc[p] \in ProbeSteps
    PROVE  /\ mem[p] \in Ledger
           /\ mem[p].executions[cur[p]] = Rec(p)
           /\ mem = [mem EXCEPT ![p] = mem[p]]
BY DEF Inductive, TypeOK, Rec

\* A step that only decides where the probe goes on.
LEMMA GotoStep ==
    ASSUME Inductive, EnvironmentOK',
           NEW p \in Procs, pc[p] \in ProbeSteps \ {"reserve"},
           NEW step \in ProbeSteps \ {"reserve"},
           step \in BeforeSession => pc[p] \in BeforeSession,
           Goto(p, step),
           UNCHANGED <<mem, ledger, launches, created, lock, cur>>
    PROVE  Inductive'
<1> DEFINE l == mem[p]
<1>1. l \in Ledger /\ l.executions[cur[p]] = Rec(p) /\ mem' = [mem EXCEPT ![p] = l]
  BY OwnCopy
<1>2. pc' = [pc EXCEPT ![p] = step] /\ l.approvals = mem[p].approvals
  BY DEF Goto
<1>3. Rec(p).status # "absent"
  BY OwnRecord
<1>4. \A e \in Executions : e # cur[p] => l.executions[e] = mem[p].executions[e]
  OBVIOUS
<1> HIDE DEF l
<1>5. QED
  BY <1>1, <1>2, <1>3, <1>4, ProbeStep

-----------------------------------------------------------------------------
(* Every step keeps Inductive: first the steps of a probe.                 *)

\* What a step may make of the record in hand.
Keeps(p, r) == r \in Execution /\ r.approval = Rec(p).approval /\ r.status # "absent"

\* The direct probe keeps Inductive: its one launch is behind the reservation.
LEMMA DirectSafe ==
    ASSUME Inductive, NEW p \in Procs, ProbeDirect(p) \/ DirectEnds(p)
    PROVE  Inductive'
<1> USE DEF ProbeSteps, DirectSteps, MasterSteps, LeaveSteps, BeforeSession, files
<1>1. CASE LaunchDirect(p)
  <2> DEFINE r == [Rec(p) EXCEPT !.status = "RUNNING", !.ssh_calls = 1]
  <2>1. pc[p] = "launch"
    BY <1>1 DEF LaunchDirect
  <2>2. Keeps(p, r)
    BY <2>1, OwnRecord DEF Keeps, Execution, Statuses, MasterStatuses, Pending
  <2>3. EnvironmentOK'
    BY <1>1, <2>1, OwnRecord DEF LaunchDirect, StartClient, EnvironmentOK
  <2>4. /\ launches' = [launches EXCEPT ![Rec(p).approval] = @ + 1]
        /\ Update(p, r, "running")
        /\ UNCHANGED <<created, lock, cur>>
    BY <1>1 DEF LaunchDirect, StartClient
  <2> HIDE DEF r
  <2>5. QED
    BY <2>1, <2>2, <2>3, <2>4, UpdateStep DEF Keeps
<1>2. CASE DirectNotLaunched(p)
  <2> DEFINE r == [Rec(p) EXCEPT !.status = "LAUNCH_FAILED", !.ssh_calls = 0]
  <2>1. pc[p] = "launch"
    BY <1>2 DEF DirectNotLaunched
  <2>2. Keeps(p, r)
    BY <2>1, OwnRecord DEF Keeps, Execution, Statuses, DirectStatuses
  <2>3. EnvironmentOK'
    BY <1>2, <2>1, OwnRecord DEF DirectNotLaunched, environment, EnvironmentOK
  <2>4. Update(p, r, "final") /\ UNCHANGED <<created, lock, cur, launches>>
    BY <1>2 DEF DirectNotLaunched, environment
  <2> HIDE DEF r
  <2>5. QED
    BY <2>1, <2>2, <2>3, <2>4, UpdateStep DEF Keeps
<1>3. CASE SaveRunning(p)
  <2>1. pc[p] = "running"
    BY <1>3 DEF SaveRunning
  <2>2. EnvironmentOK'
    BY <1>3, <2>1, OwnRecord DEF SaveRunning, environment, EnvironmentOK
  <2>3. Save(p, mem[p], "wait", "abort") /\ UNCHANGED <<created, lock, cur, launches>>
    BY <1>3 DEF SaveRunning, environment
  <2>4. QED
    BY <2>1, <2>2, <2>3, OwnRecord, OwnCopy, SaveStep
<1>4. CASE DirectAborts(p)
  <2> DEFINE r == [Rec(p) EXCEPT !.status = "UNKNOWN"]
  <2>1. pc[p] \in {"wait", "abort"}
    BY <1>4 DEF DirectAborts
  <2>2. Keeps(p, r)
    BY <2>1, OwnRecord DEF Keeps, Execution, Statuses, DirectStatuses
  <2>3. EnvironmentOK'
    BY <1>4, <2>1, OwnRecord DEF DirectAborts, KillClient, EnvironmentOK
  <2>4. Update(p, r, "final") /\ UNCHANGED <<created, lock, cur, launches>>
    BY <1>4 DEF DirectAborts, KillClient
  <2> HIDE DEF r
  <2>5. QED
    BY <2>1, <2>2, <2>3, <2>4, UpdateStep DEF Keeps
<1>5. CASE DirectEnds(p)
  <2>1. PICK kind \in {"marker", "fatal", "other"} :
            ClientEnds(p, kind) /\ Update(p, DirectOutcome(p, kind), "final")
    BY <1>5 DEF DirectEnds
  <2> DEFINE r == DirectOutcome(p, kind)
  <2>2. pc[p] = "wait"
    BY <1>5 DEF DirectEnds
  <2>3. Keeps(p, r)
    BY <2>2, OwnRecord
    DEF Keeps, DirectOutcome, CompletedStatus, Execution, Statuses, DirectStatuses, Confirmed
  <2>4. EnvironmentOK'
    BY <1>5, <2>1, <2>2, OwnRecord DEF DirectEnds, ClientEnds, EnvironmentOK
  <2>5. Update(p, r, "final") /\ UNCHANGED <<created, lock, cur, launches>>
    BY <1>5, <2>1 DEF DirectEnds, ClientEnds
  <2> HIDE DEF r
  <2>6. QED
    BY <2>2, <2>3, <2>4, <2>5, UpdateStep DEF Keeps
<1>6. QED
  BY <1>1, <1>2, <1>3, <1>4, <1>5 DEF ProbeDirect

\* Steps of the control-master probe that start no session.
LEMMA QuietUpdate ==
    ASSUME Inductive, NEW p \in Procs, pc[p] \in ProbeSteps \ {"reserve"},
           NEW r, Keeps(p, r), NEW step \in ProbeSteps \ {"reserve"},
           step \in BeforeSession => pc[p] \in BeforeSession,
           Update(p, r, step), checked' \subseteq Executions,
           UNCHANGED <<created, logs, output, lock, cur, environment>>
    PROVE  Inductive'
<1>1. EnvironmentOK'
  BY OwnRecord DEF EnvironmentOK, environment
<1>2. launches' = launches
  BY DEF environment
<1>3. QED
  BY <1>1, <1>2, UpdateStep DEF Keeps

\* A control-master step that saves an updated record and starts nothing.
LEMMA QuietSave ==
    ASSUME Inductive, NEW p \in Procs, pc[p] \in ProbeSteps \ {"reserve"},
           NEW r, Keeps(p, r),
           NEW next \in (ProbeSteps \ {"reserve"}) \cup LeaveSteps,
           NEW error \in (ProbeSteps \ {"reserve"}) \cup LeaveSteps,
           {next, error} \cap BeforeSession # {} => pc[p] \in BeforeSession,
           Save(p, Put(p, r), next, error),
           UNCHANGED <<files, lock, cur, environment>>
    PROVE  Inductive'
<1> DEFINE l == Put(p, r)
<1>1. /\ l \in Ledger
      /\ l.approvals = mem[p].approvals
      /\ l.executions[cur[p]] = r
      /\ \A e \in Executions : e # cur[p] => l.executions[e] = mem[p].executions[e]
  BY OwnRecord, PutFacts DEF Keeps
<1>2. EnvironmentOK'
  BY OwnRecord DEF EnvironmentOK, environment, files
<1>3. UNCHANGED <<launches, created, lock, cur>>
  BY DEF environment, files
<1>4. Save(p, l, next, error)
  OBVIOUS
<1> HIDE DEF l
<1>5. QED
  BY <1>1, <1>2, <1>3, <1>4, SaveStep DEF Keeps

\* A save of the copy as it is.
LEMMA QuietCopySave ==
    ASSUME Inductive, NEW p \in Procs, pc[p] \in ProbeSteps \ {"reserve"},
           NEW next \in (ProbeSteps \ {"reserve"}) \cup LeaveSteps,
           NEW error \in (ProbeSteps \ {"reserve"}) \cup LeaveSteps,
           {next, error} \cap BeforeSession # {} => pc[p] \in BeforeSession,
           Save(p, mem[p], next, error),
           UNCHANGED <<files, lock, cur, environment>>
    PROVE  Inductive'
<1>1. EnvironmentOK'
  BY OwnRecord DEF EnvironmentOK, environment, files
<1>2. UNCHANGED <<launches, created, lock, cur>>
  BY DEF environment, files
<1>3. QED
  BY <1>1, <1>2, OwnRecord, OwnCopy, SaveStep

\* A control-master step that only decides.
LEMMA QuietGoto ==
    ASSUME Inductive, NEW p \in Procs, pc[p] \in ProbeSteps \ {"reserve"},
           NEW step \in ProbeSteps \ {"reserve"},
           step \in BeforeSession => pc[p] \in BeforeSession,
           Goto(p, step), UNCHANGED <<mem, ledger, files, lock, cur, environment>>
    PROVE  Inductive'
<1>1. EnvironmentOK'
  BY OwnRecord DEF EnvironmentOK, environment, files
<1>2. UNCHANGED <<launches, created, lock, cur>>
  BY DEF environment, files
<1>3. QED
  BY <1>1, <1>2, GotoStep

\* The control-master probe keeps Inductive, and only SessionLaunch starts a
\* session.
LEMMA CheckSafe ==
    ASSUME Inductive, NEW p \in Procs, ProbeMaster(p) \/ CheckPasses(p)
    PROVE  Inductive'
<1> USE DEF ProbeSteps, DirectSteps, MasterSteps, LeaveSteps, BeforeSession
<1>1. ASSUME NEW socket \in SocketStates, SocketCheck(p, socket) PROVE Inductive'
  <2>1. pc[p] = "socket" /\ UNCHANGED <<files, lock, cur, environment>>
    BY <1>1 DEF SocketCheck
  <2>2. CASE Goto(p, "check-intent") /\ UNCHANGED <<mem, ledger>>
    BY <2>1, <2>2, QuietGoto
  <2>3. ASSUME NEW status \in {"MASTER_UNAVAILABLE", "LOCAL_STOP"},
               Update(p, [Rec(p) EXCEPT !.status = status], "final")
        PROVE  Inductive'
    <3> DEFINE r == [Rec(p) EXCEPT !.status = status]
    <3>1. Keeps(p, r)
      BY <2>1, OwnRecord DEF Keeps, Execution, Statuses, DirectStatuses, MasterStatuses, Pending, Confirmed
    <3>2. Update(p, r, "final")
      BY <2>3
    <3>3. checked' \subseteq Executions /\ UNCHANGED <<created, logs, output>>
      BY <2>1 DEF files, Inductive, TypeOK
    <3> HIDE DEF r
    <3>4. QED
      BY <2>1, <3>1, <3>2, <3>3, QuietUpdate
  <2>4. QED
    BY <1>1, <2>2, <2>3 DEF SocketCheck, SocketStates
<1>2. CASE CheckIntent(p)
  <2> DEFINE r == [Rec(p) EXCEPT !.local_check_calls = Null, !.ssh_calls = Null]
  <2>1. /\ pc[p] = "check-intent"
        /\ Save(p, Put(p, r), "check-launch", "check-none")
        /\ UNCHANGED <<files, lock, cur, environment>>
    BY <1>2 DEF CheckIntent
  <2>2. Keeps(p, r)
    BY <2>1, OwnRecord DEF Keeps, Execution, Statuses, DirectStatuses, MasterStatuses, Pending, Confirmed
  <2> HIDE DEF r
  <2>3. QED
    BY <2>1, <2>2, QuietSave
<1>3. CASE CheckLaunch(p)
  <2> DEFINE r == [Rec(p) EXCEPT !.status = "RUNNING", !.local_check_calls = 1, !.ssh_calls = 1]
  <2>1. pc[p] = "check-launch" /\ UNCHANGED <<files, lock, cur, environment>>
    BY <1>3 DEF CheckLaunch
  <2>2. CASE Goto(p, "check-none") /\ UNCHANGED <<mem, ledger>>
    BY <2>1, <2>2, QuietGoto
  <2>3. CASE Update(p, r, "check-running")
    <3>1. Keeps(p, r)
      BY <2>1, OwnRecord DEF Keeps, Execution, Statuses, DirectStatuses, MasterStatuses, Pending, Confirmed
    <3>2. checked' \subseteq Executions /\ UNCHANGED <<created, logs, output>>
      BY <2>1 DEF files, Inductive, TypeOK
    <3> HIDE DEF r
    <3>3. QED
      BY <2>1, <2>3, <3>1, <3>2, QuietUpdate
  <2>4. QED
    BY <1>3, <2>2, <2>3 DEF CheckLaunch
<1>4. CASE CheckNotLaunched(p)
  <2> DEFINE r == [Rec(p) EXCEPT !.status = "LOCAL_STOP", !.local_check_calls = 0, !.ssh_calls = 0]
  <2>1. /\ pc[p] = "check-none"
        /\ Update(p, r, "final")
        /\ checked' \subseteq Executions
        /\ UNCHANGED <<created, logs, output, lock, cur, environment>>
    BY <1>4 DEF CheckNotLaunched, files, Inductive, TypeOK
  <2>2. Keeps(p, r)
    BY <2>1, OwnRecord DEF Keeps, Execution, Statuses, DirectStatuses, MasterStatuses, Pending, Confirmed
  <2> HIDE DEF r
  <2>3. QED
    BY <2>1, <2>2, QuietUpdate
<1>5. CASE CheckRunning(p)
  <2>1. /\ pc[p] = "check-running"
        /\ Save(p, mem[p], "check-wait", "check-abort")
        /\ UNCHANGED <<files, lock, cur, environment>>
    BY <1>5 DEF CheckRunning
  <2>2. QED
    BY <2>1, QuietCopySave
<1>6. CASE CheckFails(p)
  <2> DEFINE r == [Rec(p) EXCEPT !.status = "MASTER_UNAVAILABLE"]
  <2>1. /\ pc[p] = "check-wait"
        /\ Update(p, r, "final")
        /\ checked' \subseteq Executions
        /\ UNCHANGED <<created, logs, output, lock, cur, environment>>
    BY <1>6 DEF CheckFails, files, Inductive, TypeOK
  <2>2. Keeps(p, r)
    BY <2>1, OwnRecord DEF Keeps, Execution, Statuses, DirectStatuses, MasterStatuses, Pending, Confirmed
  <2> HIDE DEF r
  <2>3. QED
    BY <2>1, <2>2, QuietUpdate
<1>7. CASE CheckAborts(p)
  <2> DEFINE r == [Rec(p) EXCEPT !.status = "LOCAL_STOP"]
  <2>1. /\ pc[p] \in {"check-wait", "check-abort"}
        /\ Update(p, r, "final")
        /\ checked' \subseteq Executions
        /\ UNCHANGED <<created, logs, output, lock, cur, environment>>
    BY <1>7 DEF CheckAborts, ProbeCopy, CopyOwn, files, Inductive, TypeOK
  <2>2. Keeps(p, r)
    BY <2>1, OwnRecord DEF Keeps, Execution, Statuses, DirectStatuses, MasterStatuses, Pending, Confirmed
  <2> HIDE DEF r
  <2>3. QED
    BY <2>1, <2>2, QuietUpdate
<1>8. CASE CheckPasses(p)
  <2> DEFINE r == [Rec(p) EXCEPT !.master_alive = TRUE]
  <2>1. /\ pc[p] = "check-wait"
        /\ Update(p, r, "alive")
        /\ checked' \subseteq Executions
        /\ UNCHANGED <<created, logs, output, lock, cur, environment>>
    BY <1>8 DEF CheckPasses, ProbeCopy, CopyOwn, files, Inductive, TypeOK
  <2>2. Keeps(p, r)
    BY <2>1, OwnRecord DEF Keeps, Execution, Statuses, DirectStatuses, MasterStatuses, Pending, Confirmed
  <2> HIDE DEF r
  <2>3. QED
    BY <2>1, <2>2, QuietUpdate
<1>9. CASE SaveAlive(p)
  <2>1. /\ pc[p] = "alive"
        /\ Save(p, mem[p], "recheck", "check-abort")
        /\ UNCHANGED <<files, lock, cur, environment>>
    BY <1>9 DEF SaveAlive
  <2>2. QED
    BY <2>1, QuietCopySave
<1>10. ASSUME NEW socket \in SocketStates, Recheck(p, socket) PROVE Inductive'
  <2> DEFINE r == [Rec(p) EXCEPT !.status = "MASTER_LOST"]
  <2>1. pc[p] = "recheck" /\ UNCHANGED <<files, lock, cur, environment>>
    BY <1>10 DEF Recheck
  <2>2. ASSUME NEW step \in {"session-intent", "check-abort"},
               Goto(p, step), UNCHANGED <<mem, ledger>>
        PROVE  Inductive'
    BY <2>1, <2>2, QuietGoto
  <2>3. CASE Update(p, r, "final")
    <3>1. Keeps(p, r)
      BY <2>1, OwnRecord DEF Keeps, Execution, Statuses, DirectStatuses, MasterStatuses, Pending, Confirmed
    <3>2. checked' \subseteq Executions /\ UNCHANGED <<created, logs, output>>
      BY <2>1 DEF files, Inductive, TypeOK
    <3> HIDE DEF r
    <3>3. QED
      BY <2>1, <2>3, <3>1, <3>2, QuietUpdate
  <2>4. QED
    BY <1>10, <2>2, <2>3 DEF Recheck, SocketStates
<1>11. CASE DeadlinePassed(p)
  <2> DEFINE r == [Rec(p) EXCEPT !.status = "LOCAL_STOP"]
  <2>1. /\ pc[p] = "session-intent"
        /\ Update(p, r, "final")
        /\ checked' \subseteq Executions
        /\ UNCHANGED <<created, logs, output, lock, cur, environment>>
    BY <1>11 DEF DeadlinePassed, files, Inductive, TypeOK
  <2>2. Keeps(p, r)
    BY <2>1, OwnRecord DEF Keeps, Execution, Statuses, DirectStatuses, MasterStatuses, Pending, Confirmed
  <2> HIDE DEF r
  <2>3. QED
    BY <2>1, <2>2, QuietUpdate
<1>12. CASE SessionIntent(p)
  <2> DEFINE r == [Rec(p) EXCEPT !.logical_session_calls = Null,
                               !.remote_command_attempts = 1,
                               !.confirmed = Null, !.ssh_calls = Null]
  <2>1. /\ pc[p] = "session-intent"
        /\ Save(p, Put(p, r), "session-launch", "session-none")
        /\ UNCHANGED <<files, lock, cur, environment>>
    BY <1>12 DEF SessionIntent
  <2>2. Keeps(p, r)
    BY <2>1, OwnRecord DEF Keeps, Execution, Statuses, DirectStatuses, MasterStatuses, Pending, Confirmed
  <2> HIDE DEF r
  <2>3. QED
    BY <2>1, <2>2, QuietSave
<1>13. CASE SessionLaunch(p)
  <2> DEFINE r == [Rec(p) EXCEPT !.logical_session_calls = 1, !.ssh_calls = 2]
  <2>1. pc[p] = "session-launch" /\ UNCHANGED <<files, lock, cur>>
    BY <1>13 DEF SessionLaunch
  <2>2. CASE Goto(p, "session-none") /\ UNCHANGED <<mem, ledger, environment>>
    BY <2>1, <2>2, QuietGoto
  <2>3. CASE Update(p, r, "session-running") /\ StartClient(p)
    <3>1. Keeps(p, r)
      BY <2>1, OwnRecord DEF Keeps, Execution, Statuses, DirectStatuses, MasterStatuses, Pending, Confirmed
    <3>2. EnvironmentOK'
      BY <2>1, <2>3, OwnRecord DEF StartClient, EnvironmentOK, files
    <3>3. /\ launches' = [launches EXCEPT ![Rec(p).approval] = @ + 1]
          /\ UNCHANGED <<created, lock, cur>>
      BY <2>1, <2>3 DEF StartClient, files
    <3> HIDE DEF r
    <3>4. QED
      BY <2>1, <2>3, <3>1, <3>2, <3>3, UpdateStep DEF Keeps
  <2>4. QED
    BY <1>13, <2>2, <2>3 DEF SessionLaunch
<1>14. CASE SessionNotLaunched(p)
  <2> DEFINE r == [Rec(p) EXCEPT !.status = "LOCAL_STOP", !.logical_session_calls = 0,
                               !.confirmed = 0, !.ssh_calls = 1]
  <2>1. /\ pc[p] = "session-none"
        /\ Update(p, r, "final")
        /\ checked' \subseteq Executions
        /\ UNCHANGED <<created, logs, output, lock, cur, environment>>
    BY <1>14 DEF SessionNotLaunched, files, Inductive, TypeOK
  <2>2. Keeps(p, r)
    BY <2>1, OwnRecord DEF Keeps, Execution, Statuses, DirectStatuses, MasterStatuses, Pending, Confirmed
  <2> HIDE DEF r
  <2>3. QED
    BY <2>1, <2>2, QuietUpdate
<1>15. CASE SessionRunning(p)
  <2>1. /\ pc[p] = "session-running"
        /\ Save(p, mem[p], "session-wait", "session-abort")
        /\ UNCHANGED <<files, lock, cur, environment>>
    BY <1>15 DEF SessionRunning
  <2>2. QED
    BY <2>1, QuietCopySave
<1>16. CASE SessionAborts(p)
  <2> DEFINE r == [Rec(p) EXCEPT !.status = "UNKNOWN"]
  <2>1. /\ pc[p] \in {"session-wait", "session-abort"}
        /\ Update(p, r, "final")
        /\ UNCHANGED <<created, lock, cur, launches>>
    BY <1>16 DEF SessionAborts, KillClient, files
  <2>2. Keeps(p, r)
    BY <2>1, OwnRecord DEF Keeps, Execution, Statuses, DirectStatuses, MasterStatuses, Pending, Confirmed
  <2>3. EnvironmentOK'
    BY <1>16, <2>1, OwnRecord DEF SessionAborts, KillClient, EnvironmentOK, files
  <2> HIDE DEF r
  <2>4. QED
    BY <2>1, <2>2, <2>3, UpdateStep DEF Keeps
<1>17. QED
  BY <1>1, <1>2, <1>3, <1>4, <1>5, <1>6, <1>7, <1>8, <1>9, <1>10, <1>11, <1>12, <1>13,
     <1>14, <1>15, <1>16 DEF ProbeMaster

\* The end of a control-master session, whatever became of the socket.
LEMMA SessionEndsSafe ==
    ASSUME Inductive, NEW p \in Procs, NEW socket \in SocketStates, SessionEnds(p, socket)
    PROVE  Inductive'
<1> USE DEF ProbeSteps, DirectSteps, MasterSteps, LeaveSteps, BeforeSession
<1>1. PICK kind \in {"marker", "fatal", "loss", "other"} :
          ClientEnds(p, kind) /\ Update(p, MasterOutcome(p, kind, socket), "final")
  BY DEF SessionEnds
<1> DEFINE r == MasterOutcome(p, kind, socket)
<1>2. pc[p] = "session-wait" /\ UNCHANGED <<created, lock, cur, launches>>
  BY <1>1 DEF SessionEnds, ClientEnds, files
<1>3. Keeps(p, r)
  BY <1>2, OwnRecord DEF MasterOutcome, CompletedStatus, Keeps, Execution, Statuses, DirectStatuses, MasterStatuses, Pending, Confirmed
<1>4. EnvironmentOK'
  BY <1>1, <1>2, OwnRecord DEF SessionEnds, ClientEnds, EnvironmentOK, files
<1>5. Update(p, r, "final")
  BY <1>1
<1> HIDE DEF r
<1>6. QED
  BY <1>2, <1>3, <1>4, <1>5, UpdateStep DEF Keeps

-----------------------------------------------------------------------------
(* The steps outside a probe.                                              *)

\* What the other invocations hold is not about p: while p has the lock they
\* are outside LockedSteps.
LEMMA Alone ==
    ASSUME Inductive, NEW p \in Procs, lock \in {p, Null}
    PROVE  \A q \in Procs : q # p => pc[q] \notin LockedSteps
BY NullAssumption, ProcsAssumption DEF Inductive, Exclusive

\* initialize, raced by another or left half way, keeps Inductive.
LEMMA InitializeSafe ==
    ASSUME Inductive, NEW p \in Procs, Initialize(p)
    PROVE  Inductive'
<1> USE StepNames
<1>1. /\ pc[p] \in {"idle", "create", "populate"}
      /\ UNCHANGED <<logs, output, checked, ledger, lock, mem, cur, environment>>
      /\ created' \in 0..StoreObjects
  BY DEF Initialize, BeginInitialize, CreateCoordination, Populate, durable, files,
         Inductive, TypeOK, OneCreator, StoreObjects
<1>2. PICK step \in {"idle", "create", "populate"} : pc' = [pc EXCEPT ![p] = step]
  BY DEF Initialize, BeginInitialize, CreateCoordination, Populate, Goto
<1>3. /\ pc'[p] \in {"idle", "create", "populate"}
      /\ \A q \in Procs : q # p => pc'[q] = pc[q]
  BY <1>2 DEF Inductive, TypeOK
<1>4. TypeOK'
  <2>1. pc' \in [Procs -> Steps]
    BY <1>2 DEF Inductive, TypeOK, Steps
  <2>2. QED
    BY <1>1, <2>1 DEF Inductive, TypeOK, environment
<1>5. OneCreator'
  <2>1. CASE BeginInitialize(p)
    BY <2>1, <1>3 DEF BeginInitialize, Goto, Inductive, TypeOK, OneCreator, durable, files
  <2>2. CASE CreateCoordination(p)
    BY <2>2, <1>3 DEF CreateCoordination, Goto, Inductive, TypeOK, OneCreator, StoreObjects
  <2>3. CASE Populate(p)
    BY <2>3, <1>3 DEF Populate, Goto, Inductive, TypeOK, OneCreator, StoreObjects
  <2>4. QED
    BY <2>1, <2>2, <2>3 DEF Initialize
<1>6. (Exclusive /\ CopyFresh /\ ProbeCopy)'
  BY <1>1, <1>3 DEF Inductive, Exclusive, CopyFresh, ProbeCopy, CopyOwn, Rec, environment
<1>7. (Accounted /\ AtMostOneLaunch)'
  BY <1>1 DEF Inductive, Accounted, AtMostOneLaunch, environment
<1>8. QED
  BY <1>4, <1>5, <1>6, <1>7 DEF Inductive

\* Taking the lock and reading the ledger gives a fresh copy.
LEMMA LockSafe ==
    ASSUME Inductive, NEW p \in Procs, Lock(p)
    PROVE  Inductive'
<1> USE StepNames
<1>1. PICK step \in {"recover", "raise"} : pc' = [pc EXCEPT ![p] = step]
  BY DEF Lock, Goto
<1>2. /\ pc[p] = "idle" /\ lock = Null /\ lock' = p
      /\ mem' = [mem EXCEPT ![p] = ledger]
      /\ UNCHANGED <<created, logs, output, checked, ledger, cur, client, remote, launches>>
  BY DEF Lock, Free, durable, files, environment
<1>3. step \in LockedSteps \ (ProbeSteps \cup {"admit", "populate"})
  BY DEF LockedSteps, ProbeSteps, LeaveSteps, DirectSteps, MasterSteps
<1>4. /\ pc'[p] = step /\ mem'[p] = ledger
      /\ \A q \in Procs : q # p => pc'[q] = pc[q] /\ pc'[q] \notin LockedSteps
  BY <1>1, <1>2, Alone DEF Inductive, TypeOK
<1>5. TypeOK'
  <2>1. pc' \in [Procs -> Steps] /\ mem' \in [Procs -> Ledger]
    BY <1>1, <1>2, <1>3 DEF Inductive, TypeOK
  <2>2. QED
    BY <1>2, <2>1 DEF Inductive, TypeOK
<1>6. (Exclusive /\ CopyFresh /\ ProbeCopy)'
  BY <1>2, <1>3, <1>4 DEF Exclusive, CopyFresh, ProbeCopy
<1>7. OneCreator'
  BY <1>2, <1>3, <1>4 DEF Inductive, OneCreator
<1>8. (Accounted /\ AtMostOneLaunch)'
  BY <1>2 DEF Inductive, Accounted, AtMostOneLaunch
<1>9. QED
  BY <1>5, <1>6, <1>7, <1>8 DEF Inductive

\* A save of recovery or of approve(): the copy was fresh, and no record is
\* added or moved to another approval.
LEMMA OutsideSave ==
    ASSUME Inductive, NEW p \in Procs, pc[p] \in {"recover", "admit"},
           NEW l \in Ledger,
           \A e \in Executions :
               /\ l.executions[e].approval = ledger.executions[e].approval
               /\ l.executions[e].status = "absent" <=> ledger.executions[e].status = "absent",
           NEW next \in {"admit", "return"},
           Save(p, l, next, "raise"),
           UNCHANGED <<files, lock, cur, environment>>
    PROVE  Inductive'
<1> USE StepNames
<1>1. PICK step \in {next, "raise"} :
          /\ pc' = [pc EXCEPT ![p] = step]
          /\ ledger' = l \/ (ledger' = ledger /\ step = "raise")
  BY DEF Save, Goto
<1>2. /\ mem' = [mem EXCEPT ![p] = l]
      /\ UNCHANGED <<created, logs, output, checked, lock, cur, client, remote, launches>>
  BY DEF Save, files, environment
<1>3. step \in LockedSteps \ (ProbeSteps \cup {"recover", "populate"})
  BY DEF LockedSteps, ProbeSteps, LeaveSteps, DirectSteps, MasterSteps
<1>4. lock = p
  BY DEF Inductive, Exclusive
<1>5. /\ pc'[p] = step /\ mem'[p] = l
      /\ \A q \in Procs : q # p => pc'[q] = pc[q] /\ pc'[q] \notin LockedSteps
  BY <1>1, <1>2, <1>4, Alone DEF Inductive, TypeOK
<1>6. TypeOK'
  <2>1. pc' \in [Procs -> Steps] /\ mem' \in [Procs -> Ledger] /\ ledger' \in Ledger
    BY <1>1, <1>2, <1>3 DEF Inductive, TypeOK
  <2>2. QED
    BY <1>2, <2>1 DEF Inductive, TypeOK
<1>7. (Exclusive /\ CopyFresh /\ ProbeCopy)'
  BY <1>1, <1>2, <1>3, <1>4, <1>5 DEF Exclusive, CopyFresh, ProbeCopy
<1>8. OneCreator'
  BY <1>2, <1>3, <1>5 DEF Inductive, OneCreator
<1>9. (Accounted /\ AtMostOneLaunch)'
  BY <1>1, <1>2 DEF Inductive, Accounted, AtMostOneLaunch
<1>10. QED
  BY <1>6, <1>7, <1>8, <1>9 DEF Inductive

\* A step to the end of the invocation, or to the admission of a request.
LEMMA OutsideGoto ==
    ASSUME Inductive, NEW p \in Procs, pc[p] \in {"recover", "admit"},
           NEW step \in {"admit", "raise"},
           Goto(p, step), UNCHANGED <<durable, lock, mem, cur, environment>>
    PROVE  Inductive'
<1> USE StepNames
<1>1. /\ pc' = [pc EXCEPT ![p] = step]
      /\ UNCHANGED <<created, logs, output, checked, ledger, lock, mem, cur, client, remote, launches>>
  BY DEF Goto, durable, files, environment
<1>2. step \in LockedSteps \ (ProbeSteps \cup {"recover", "populate"})
  BY DEF LockedSteps, ProbeSteps, LeaveSteps, DirectSteps, MasterSteps
<1>3. lock = p
  BY DEF Inductive, Exclusive
<1>4. pc'[p] = step /\ \A q \in Procs : q # p => pc'[q] = pc[q] /\ pc'[q] \notin LockedSteps
  BY <1>1, <1>3, Alone DEF Inductive, TypeOK
<1>5. TypeOK'
  BY <1>1, <1>2 DEF Inductive, TypeOK
<1>6. (Exclusive /\ CopyFresh /\ ProbeCopy)'
  BY <1>1, <1>2, <1>3, <1>4 DEF Inductive, Exclusive, CopyFresh, ProbeCopy
<1>7. OneCreator'
  BY <1>1, <1>2, <1>4 DEF Inductive, OneCreator
<1>8. (Accounted /\ AtMostOneLaunch)'
  BY <1>1 DEF Inductive, Accounted, AtMostOneLaunch
<1>9. QED
  BY <1>5, <1>6, <1>7, <1>8 DEF Inductive

\* Recovery and approve, the requests that reserve nothing, keep Inductive.
LEMMA RequestSafe ==
    ASSUME Inductive, NEW p \in Procs,
           \/ RecoverStep(p) \/ Reject(p)
           \/ \E a \in Approvals, transport \in Transports : Approve(p, a, transport)
    PROVE  Inductive'
<1>1. CASE RecoverStep(p)
  <2> DEFINE l == Recover(mem[p], output)
  <2>1. pc[p] = "recover" /\ UNCHANGED <<files, lock, cur, environment>>
    BY <1>1 DEF RecoverStep
  <2>2. mem[p] = ledger /\ mem[p] \in Ledger
    BY <2>1 DEF Inductive, TypeOK, CopyFresh
  <2>3. /\ l \in Ledger
        /\ \A e \in Executions :
               /\ l.executions[e].approval = ledger.executions[e].approval
               /\ l.executions[e].status = "absent" <=> ledger.executions[e].status = "absent"
    BY <2>2, RecoverFacts DEF Inductive, TypeOK
  <2>4. CASE Goto(p, "admit") /\ UNCHANGED <<ledger, mem>>
    BY <2>1, <2>4, OutsideGoto DEF durable
  <2>5. CASE Save(p, l, "admit", "raise")
    <3> HIDE DEF l
    <3>1. QED
      BY <2>1, <2>3, <2>5, OutsideSave
  <2>6. QED
    BY <1>1, <2>4, <2>5 DEF RecoverStep
<1>2. CASE Reject(p)
  BY <1>2, OutsideGoto DEF Reject
<1>3. ASSUME NEW a \in Approvals, NEW transport \in Transports, Approve(p, a, transport)
      PROVE  Inductive'
  <2> DEFINE l == [mem[p] EXCEPT !.approvals[a] = transport]
  <2>1. /\ pc[p] = "admit" /\ UNCHANGED <<files, lock, cur, environment>>
        /\ Save(p, l, "return", "raise")
    BY <1>3 DEF Approve
  <2>2. mem[p] = ledger /\ mem[p] \in Ledger
    BY <2>1 DEF Inductive, TypeOK, CopyFresh
  <2>3. l \in Ledger /\ l.executions = ledger.executions
    BY <2>2 DEF Ledger
  <2> HIDE DEF l
  <2>4. QED
    BY <2>1, <2>3, OutsideSave
<1>4. QED
  BY <1>1, <1>2, <1>3

\* The approval is unused on disk, hence it has started nothing; the new
\* record is the only difference of the copy.
LEMMA CreateLogsSafe ==
    ASSUME Inductive, NEW p \in Procs, NEW a \in Approvals, NEW e \in Executions,
           CreateLogs(p, a, e)
    PROVE  Inductive'
<1> USE StepNames
<1> DEFINE record == Reservation(a, mem[p].approvals[a])
<1>1. /\ pc[p] = "admit" /\ mem[p] = ledger /\ ledger \in Ledger /\ lock = p
      /\ ledger.approvals[a] \in Transports
  BY DEF CreateLogs, Inductive, CopyFresh, TypeOK, Exclusive, Ledger
<1>2. record \in Execution /\ record.approval = a /\ record.status # "absent"
  BY <1>1, ReservationFacts
<1>3. PICK step \in {"reserve", "raise"} : pc' = [pc EXCEPT ![p] = step]
  BY DEF CreateLogs, Goto
<1>4. /\ mem' = [mem EXCEPT ![p].executions[e] = record]
      /\ cur' = [cur EXCEPT ![p] = e]
      /\ logs' = logs \cup {e}
      /\ UNCHANGED <<created, output, checked, ledger, lock, client, remote, launches>>
  BY DEF CreateLogs, environment
<1> HIDE DEF record
<1>5. step \in LockedSteps \ ((ProbeSteps \ {"reserve"}) \cup {"recover", "admit", "populate"})
  BY DEF LockedSteps, ProbeSteps, LeaveSteps, DirectSteps, MasterSteps
<1>6. \A q \in Procs : q # p => pc'[q] = pc[q] /\ pc'[q] \notin LockedSteps
  BY <1>1, <1>3, Alone DEF Inductive, TypeOK
<1>7. /\ pc'[p] = step /\ cur'[p] = e
      /\ mem'[p].approvals = ledger.approvals
      /\ mem'[p].executions[e] = record
      /\ \A f \in Executions : f # e => mem'[p].executions[f] = ledger.executions[f]
      /\ mem'[p] \in Ledger
  BY <1>1, <1>2, <1>3, <1>4 DEF Inductive, TypeOK, Ledger
<1>8. TypeOK'
  <2>1. pc' \in [Procs -> Steps] /\ cur' \in [Procs -> Executions \cup {Null}]
    BY <1>3, <1>4, <1>5 DEF Inductive, TypeOK
  <2>2. mem' \in [Procs -> Ledger]
    BY <1>4, <1>7 DEF Inductive, TypeOK
  <2>3. QED
    BY <1>4, <2>1, <2>2 DEF Inductive, TypeOK
<1>9. launches[a] = 0 /\ ledger.executions[e].approval = Null
  <2>1. \A f \in Executions : ledger.executions[f].approval # a
    BY <1>1 DEF CreateLogs, Unspent
  <2>2. ledger.executions[e].status = "absent"
    BY <1>1 DEF CreateLogs
  <2>3. QED
    BY <2>1, <2>2 DEF Inductive, Accounted
<1>10. ProbeCopy'
  <2>1. SUFFICES ASSUME step = "reserve" PROVE CopyOwn(p)'
    BY <1>5, <1>6, <1>7 DEF ProbeCopy
  <2>2. Rec(p)' = record
    BY <1>7 DEF Rec
  <2>3. QED
    BY <1>2, <1>4, <1>7, <1>9, <2>1, <2>2 DEF CopyOwn
<1>11. (Exclusive /\ CopyFresh)'
  BY <1>1, <1>4, <1>5, <1>6, <1>7 DEF Exclusive, CopyFresh
<1>12. OneCreator'
  BY <1>4, <1>5, <1>6, <1>7 DEF Inductive, OneCreator
<1>13. (Accounted /\ AtMostOneLaunch)'
  BY <1>4 DEF Inductive, Accounted, AtMostOneLaunch
<1>14. QED
  BY <1>8, <1>10, <1>11, <1>12, <1>13 DEF Inductive

\* The save of a reservation keeps Inductive.
LEMMA ReserveSafe ==
    ASSUME Inductive, NEW p \in Procs, Reserve(p)
    PROVE  Inductive'
<1> USE DEF ProbeSteps, DirectSteps, MasterSteps, LeaveSteps, BeforeSession
<1>1. pc[p] = "reserve" /\ UNCHANGED <<created, lock, cur, launches>>
  BY DEF Reserve, files, environment
<1>2. EnvironmentOK'
  BY <1>1, OwnRecord DEF Reserve, files, environment, EnvironmentOK
<1>3. PICK next \in {"launch", "socket"} : Save(p, mem[p], next, "raise")
  BY DEF Reserve
<1>4. QED
  BY <1>1, <1>2, <1>3, OwnRecord, OwnCopy, SaveStep

\* The save of an outcome keeps Inductive.
LEMMA FinishSafe ==
    ASSUME Inductive, NEW p \in Procs, Finish(p)
    PROVE  Inductive'
<1> USE DEF ProbeSteps, DirectSteps, MasterSteps, LeaveSteps, BeforeSession
<1> DEFINE r == [Rec(p) EXCEPT !.output = output[cur[p]]]
<1>1. pc[p] = "final" /\ UNCHANGED <<files, lock, cur, environment>>
  BY DEF Finish
<1>2. Keeps(p, r)
  BY <1>1, OwnRecord DEF EnvironmentOK, Keeps, Execution
<1>3. PICK error \in {"raise", "unrecorded"} : Save(p, Put(p, r), "return", error)
  BY DEF Finish
<1> HIDE DEF r
<1>4. QED
  BY <1>1, <1>2, <1>3, QuietSave

\* The end of an invocation, by return, exception or death.
LEMMA EndSafe ==
    ASSUME Inductive, NEW p \in Procs, Leave(p) \/ Crash(p)
    PROVE  Inductive'
<1> USE StepNames
<1>1. /\ pc' = [pc EXCEPT ![p] = "idle"]
      /\ mem' = [mem EXCEPT ![p] = EmptyLedger]
      /\ cur' = [cur EXCEPT ![p] = Null]
      /\ UNCHANGED <<created, logs, output, checked, ledger, client, remote, launches>>
      /\ lock' = IF lock = p THEN Null ELSE lock
  BY DEF Leave, Crash, Goto, durable, files, environment, Inductive, Exclusive
<1>2. /\ pc'[p] = "idle"
      /\ \A q \in Procs : q # p => pc'[q] = pc[q] /\ mem'[q] = mem[q] /\ cur'[q] = cur[q]
  BY <1>1 DEF Inductive, TypeOK
<1>3. "idle" \notin LockedSteps /\ "idle" \notin ProbeSteps /\ "idle" \in Steps
  BY DEF LockedSteps, ProbeSteps, LeaveSteps, DirectSteps, MasterSteps, Steps
<1>4. TypeOK'
  BY <1>1, <1>3, EmptyLedgerFacts DEF Inductive, TypeOK
<1>5. Exclusive'
  BY <1>1, <1>2, <1>3 DEF Inductive, Exclusive
<1>6. (OneCreator /\ CopyFresh)'
  BY <1>1, <1>2, <1>3 DEF Inductive, OneCreator, CopyFresh
<1>7. ProbeCopy'
  BY <1>1, <1>2, <1>3 DEF Inductive, ProbeCopy, CopyOwn, Rec
<1>8. (Accounted /\ AtMostOneLaunch)'
  BY <1>1 DEF Inductive, Accounted, AtMostOneLaunch
<1>9. QED
  BY <1>4, <1>5, <1>6, <1>7, <1>8 DEF Inductive

\* Orphaned clients and remote commands touch nothing of the ledger.
LEMMA EnvironmentSafe ==
    ASSUME Inductive, Environment \/ UNCHANGED vars
    PROVE  Inductive'
<1>1. UNCHANGED <<created, ledger, lock, pc, mem, cur, launches>>
  BY DEF Environment, RemoteStarts, RemoteEnds, ClientWrites, OrphanEnds, durable, files,
         local, environment, vars
<1>2. EnvironmentOK'
  <2>1. EnvironmentOK
    BY DEF Inductive, TypeOK, EnvironmentOK
  <2>2. CASE UNCHANGED vars
    BY <2>1, <2>2 DEF EnvironmentOK, vars, durable, files, environment
  <2>3. ASSUME NEW e \in Executions,
               RemoteStarts(e) \/ RemoteEnds(e) \/ ClientWrites(e) \/ OrphanEnds(e)
        PROVE  EnvironmentOK'
    <3> USE <2>1 DEF durable, files, environment, EnvironmentOK
    <3>1. CASE RemoteStarts(e)
      BY <3>1 DEF RemoteStarts
    <3>2. CASE RemoteEnds(e)
      BY <3>2 DEF RemoteEnds
    <3>3. CASE ClientWrites(e)
      BY <3>3 DEF ClientWrites
    <3>4. CASE OrphanEnds(e)
      BY <3>4 DEF OrphanEnds
    <3>5. QED
      BY <2>3, <3>1, <3>2, <3>3, <3>4
  <2>4. QED
    BY <2>2, <2>3 DEF Environment
<1>3. TypeOK'
  BY <1>1, <1>2 DEF Inductive, TypeOK, EnvironmentOK
<1>4. QED
  BY <1>1, <1>3 DEF Inductive, Exclusive, OneCreator, CopyFresh, ProbeCopy, CopyOwn, Rec,
     Accounted, AtMostOneLaunch

-----------------------------------------------------------------------------
(* The theorems.                                                           *)

\* The store before initialize satisfies the invariant.
LEMMA InitInductive == Init => Inductive
<1> SUFFICES ASSUME Init PROVE Inductive
  OBVIOUS
<1> USE DEF Init
<1>1. \A p \in Procs : pc[p] = "idle"
  OBVIOUS
<1>2. "idle" \in Steps /\ "idle" \notin LockedSteps /\ "idle" \notin ProbeSteps
  BY DEF Steps, LockedSteps, ProbeSteps, LeaveSteps, DirectSteps, MasterSteps
<1>3. TypeOK
  BY <1>2, EmptyLedgerFacts DEF TypeOK, StoreObjects
<1>4. Exclusive /\ OneCreator /\ CopyFresh /\ ProbeCopy
  BY <1>1, <1>2 DEF Exclusive, OneCreator, CopyFresh, ProbeCopy
<1>5. Accounted /\ AtMostOneLaunch
  BY DEF Accounted, AtMostOneLaunch, EmptyLedger, NoExecution
<1>6. QED
  BY <1>3, <1>4, <1>5 DEF Inductive

\* Every step of an invocation, of the environment or of a crash keeps it.
LEMMA NextInductive == Inductive /\ [Next]_vars => Inductive'
<1> SUFFICES ASSUME Inductive, [Next]_vars PROVE Inductive'
  OBVIOUS
<1>1. ASSUME NEW p \in Procs, Proceed(p) PROVE Inductive'
  BY <1>1, RequestSafe, CreateLogsSafe, ReserveSafe, DirectSafe, CheckSafe, FinishSafe, EndSafe
  DEF Proceed
<1>2. ASSUME NEW p \in Procs, ClientAnswers(p) PROVE Inductive'
  BY <1>2, DirectSafe, CheckSafe, SessionEndsSafe DEF ClientAnswers
<1>3. QED
  BY <1>1, <1>2, InitializeSafe, LockSafe, EndSafe, EnvironmentSafe DEF Next

\* Exclusive use of the ledger, the freshness of a probe's copy and the account
\* of every session hold in every reachable state of remote.py's transport.
THEOREM Invariance == Spec => []Inductive
BY InitInductive, NextInductive, PTL DEF Spec

\* For any number of invocations, approvals and executions every variable of
\* the store, of the invocations and of their clients keeps its type: every
\* ledger a save leaves on disk is one the code can read back.
THEOREM TypeCorrect == Spec => []TypeOK
<1>1. Inductive => TypeOK
  BY DEF Inductive
<1>2. QED
  BY <1>1, Invariance, PTL

\* An approval pays for at most one ssh session, whatever invocations race,
\* die or fail to write: remote.py's one-shot budget.
THEOREM BudgetKept == Spec => []AtMostOneLaunch
<1>1. Inductive => AtMostOneLaunch
  BY DEF Inductive
<1>2. QED
  BY <1>1, Invariance, PTL
=============================================================================
