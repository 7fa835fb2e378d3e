---------------------------- MODULE SiriusLedger ----------------------------
(***************************************************************************)
(* The approved, serialized probe transport of jobs/sirius/remote.py: the  *)
(* operations initialize, approve and probe (direct and control-master) of *)
(* a Store, run by processes that may die between any two steps, over a    *)
(* durable ledger whose writes may fail before or after they take effect.  *)
(*                                                                         *)
(* A process is one CLI invocation.  pc names the next durable step of its *)
(* code.  mem is its in-memory copy of the ledger, cur the execution it    *)
(* has reserved.  The environment is the ssh client of each execution      *)
(* (which outlives a dead invocation) and the remote command it starts.    *)
(***************************************************************************)
EXTENDS ProbeRecords

CONSTANT Procs

ASSUME ProcsAssumption == Null \notin Procs

VARIABLES created,   \* how many objects of the store initialize has created
          lock,      \* holder of the flock on coordination/lock, or Null
          ledger,    \* ledger.json
          logs,      \* directories under executions/
          output,    \* size of executions/<e>/stdout.bin
          checked,   \* executions whose check logs hold the master's answer
          pc, mem, cur,
          client,    \* the session's ssh client: none, live, gone, refused
          remote,    \* the remote command: none, running, exit0, exitN
          launches   \* history: ssh session clients started under an approval

files == <<created, logs, output, checked>>
durable == <<files, ledger>>
local == <<pc, mem, cur>>
environment == <<client, remote, launches>>
vars == <<durable, lock, local, environment>>

\* initialize creates coordination, lock, root, executions, binding.json,
\* identity.json and ledger.json, in this order.
StoreObjects == 7

\* Steps between the acquisition of the lock and its release.
DirectSteps == {"launch", "running", "wait", "abort"}
MasterSteps == {"socket", "check-intent", "check-launch", "check-running",
                "check-wait", "check-none", "check-abort", "alive", "recheck",
                "session-intent", "session-launch", "session-running",
                "session-wait", "session-none", "session-abort"}
ProbeSteps == {"reserve", "final"} \cup DirectSteps \cup MasterSteps
LeaveSteps == {"return", "raise", "unrecorded"}
LockedSteps == {"recover", "admit"} \cup ProbeSteps \cup LeaveSteps
Steps == {"idle", "create", "populate"} \cup LockedSteps

Rec(p) == mem[p].executions[cur[p]]
TransportOf(p) == mem[p].approvals[Rec(p).approval]
Put(p, r) == [mem[p] EXCEPT !.executions[cur[p]] = r]
Goto(p, step) == pc' = [pc EXCEPT ![p] = step]

\* save_json: the replacement took effect and the call returned, it took
\* effect and the fsync of the directory raised, or it raised before it.
Save(p, l, next, error) ==
    /\ mem' = [mem EXCEPT ![p] = l]
    /\ \/ ledger' = l /\ Goto(p, next)
       \/ ledger' = l /\ Goto(p, error)
       \/ UNCHANGED ledger /\ Goto(p, error)

\* An in-memory update of the current record.
Update(p, r, next) ==
    /\ mem' = [mem EXCEPT ![p] = Put(p, r)]
    /\ Goto(p, next)
    /\ UNCHANGED ledger

Init ==
    /\ created = 0
    /\ lock = Null
    /\ ledger = EmptyLedger
    /\ logs = {}
    /\ output = [e \in Executions |-> 0]
    /\ checked = {}
    /\ pc = [p \in Procs |-> "idle"]
    /\ mem = [p \in Procs |-> EmptyLedger]
    /\ cur = [p \in Procs |-> Null]
    /\ client = [e \in Executions |-> "none"]
    /\ remote = [e \in Executions |-> "none"]
    /\ launches = [a \in Approvals |-> 0]

-----------------------------------------------------------------------------
(* initialize: it takes no lock; mkdir of coordination is the only arbiter *)

\* Neither the coordination directory nor the root exists.
BeginInitialize(p) ==
    /\ pc[p] = "idle"
    /\ created = 0
    /\ Goto(p, "create")
    /\ UNCHANGED <<durable, lock, mem, cur, environment>>

\* coordination.mkdir, exclusive: the loser raises FileExistsError.
CreateCoordination(p) ==
    /\ pc[p] = "create"
    /\ IF created = 0 THEN created' = 1 /\ Goto(p, "populate")
                      ELSE UNCHANGED created /\ Goto(p, "idle")
    /\ UNCHANGED <<logs, output, checked, ledger, lock, mem, cur, environment>>

\* Mutant: creates one object too many.
PopulateOnce(p) ==
    /\ pc[p] = "populate"
    /\ created' = created + 1
    /\ Goto(p, IF created = StoreObjects THEN "idle" ELSE "populate")
    /\ UNCHANGED <<logs, output, checked, ledger, lock, mem, cur, environment>>

\* The other objects, one at a time; a failure leaves what exists.
Populate(p) ==
    /\ pc[p] = "populate"
    /\ \/ /\ created' = created + 1
          /\ Goto(p, IF created' = StoreObjects THEN "idle" ELSE "populate")
       \/ UNCHANGED created /\ Goto(p, "idle")
    /\ UNCHANGED <<logs, output, checked, ledger, lock, mem, cur, environment>>

-----------------------------------------------------------------------------
(* locked(): a nonblocking flock, then the store's identity and ledger are *)
(* validated.  A contender, an incomplete store and an invalid ledger end  *)
(* the invocation before it changes anything: no action.  A dry run leaves *)
(* at once, without recovery.                                              *)

\* Mutant: the lock is not taken.
FreeAlways == TRUE

Free == lock = Null

Lock(p) ==
    /\ pc[p] = "idle"
    /\ Free
    /\ created = StoreObjects
    /\ ValidLedger(ledger, logs, output, checked)
    /\ lock' = p
    /\ mem' = [mem EXCEPT ![p] = ledger]
    /\ Goto(p, "recover") \/ Goto(p, "raise")
    /\ UNCHANGED <<durable, cur, environment>>

\* recover(): saves only if it changed something.
RecoverStep(p) ==
    LET l == Recover(mem[p], output)
    IN  /\ pc[p] = "recover"
        /\ IF l = mem[p] THEN Goto(p, "admit") /\ UNCHANGED <<ledger, mem>>
                         ELSE Save(p, l, "admit", "raise")
        /\ UNCHANGED <<files, lock, cur, environment>>

\* approve() after recovery.
Approve(p, a, transport) ==
    /\ pc[p] = "admit"
    /\ mem[p].approvals[a] = "absent"
    /\ NoneUnresolved(mem[p])
    /\ Save(p, [mem[p] EXCEPT !.approvals[a] = transport], "return", "raise")
    /\ UNCHANGED <<files, lock, cur, environment>>

\* A request approve or probe rejects: an unknown, duplicate or spent
\* identifier, another script digest, no usable /usr/bin/ssh, an undecided
\* outcome.
Reject(p) ==
    /\ pc[p] = "admit"
    /\ Goto(p, "raise")
    /\ UNCHANGED <<durable, lock, mem, cur, environment>>

\* probe(): the log directory and its files, before the record names them.
CreateLogs(p, a, e) ==
    /\ pc[p] = "admit"
    /\ NoneUnresolved(mem[p])
    /\ mem[p].approvals[a] # "absent"
    /\ mem[p].executions[e].status = "absent"
    /\ Unspent(mem[p], a)
    /\ e \notin logs
    /\ logs' = logs \cup {e}
    /\ cur' = [cur EXCEPT ![p] = e]
    /\ mem' = [mem EXCEPT ![p].executions[e] = Reservation(a, mem[p].approvals[a])]
    /\ Goto(p, "reserve") \/ Goto(p, "raise")
    /\ UNCHANGED <<created, output, checked, ledger, lock, environment>>

\* The durable reservation, before any process is started.
Reserve(p) ==
    /\ pc[p] = "reserve"
    /\ Save(p, mem[p], IF TransportOf(p) = "direct" THEN "launch" ELSE "socket", "raise")
    /\ UNCHANGED <<files, lock, cur, environment>>

-----------------------------------------------------------------------------
(* The ssh client of the current execution.                                *)

StartClient(p) ==
    /\ client' = [client EXCEPT ![cur[p]] = "live"]
    /\ launches' = [launches EXCEPT ![Rec(p).approval] = @ + 1]
    /\ UNCHANGED remote

\* child.kill and communicate: the client is reaped, whatever it was doing.
KillClient(p) ==
    /\ client' = [client EXCEPT ![cur[p]] = IF @ = "live" THEN "gone" ELSE @]
    /\ UNCHANGED <<remote, launches>>

\* What stderr says once the client has ended: the completion marker of the
\* remote EXIT trap, one of the FATAL diagnostics, a lost master, or neither.
\* A refused login never starts the remote command; the same words may also
\* come from the remote command itself.
Marker(p) == remote[cur[p]] \in {"exit0", "exitN"}

ClientEnds(p, kind) ==
    /\ kind = "marker" => Marker(p)
    /\ client' = [client EXCEPT ![cur[p]] =
                      IF kind = "fatal" /\ remote[cur[p]] = "none" THEN "refused" ELSE "gone"]
    /\ UNCHANGED <<remote, launches>>

CompletedStatus(p) == IF remote[cur[p]] = "exit0" THEN "COMPLETE" ELSE "REMOTE_FAILED"

\* Mutant: an exit without a marker counts as completion.
DirectOutcomeTrusting(p, kind) ==
    [Rec(p) EXCEPT !.status = IF kind = "fatal" THEN "CONNECTION_STOP" ELSE "COMPLETE",
                   !.completion_proof = kind # "fatal"]

\* probe(), direct: FATAL text overrides a marker; no proof is UNKNOWN.
DirectOutcome(p, kind) ==
    CASE kind = "fatal" -> [Rec(p) EXCEPT !.status = "CONNECTION_STOP"]
      [] kind = "marker" -> [Rec(p) EXCEPT !.status = CompletedStatus(p),
                                           !.completion_proof = TRUE]
      [] OTHER -> [Rec(p) EXCEPT !.status = "UNKNOWN"]

\* _probe_master(): a marker completes unless FATAL text is there too; lost
\* master text or an absent socket is MASTER_LOST; the rest is UNKNOWN.
MasterOutcome(p, kind, socket) ==
    CASE kind = "marker" -> [Rec(p) EXCEPT !.status = CompletedStatus(p),
                                           !.completion_proof = TRUE,
                                           !.confirmed = 1]
      [] kind = "loss" \/ (kind # "marker" /\ socket = "absent") ->
             [Rec(p) EXCEPT !.status = "MASTER_LOST"]
      [] OTHER -> [Rec(p) EXCEPT !.status = "UNKNOWN"]

SocketStates == {"same", "changed", "absent"}

-----------------------------------------------------------------------------
(* probe(), direct transport.                                              *)

LaunchDirect(p) ==
    /\ pc[p] = "launch"
    /\ Update(p, [Rec(p) EXCEPT !.status = "RUNNING", !.ssh_calls = 1], "running")
    /\ StartClient(p)
    /\ UNCHANGED <<files, lock, cur>>

DirectNotLaunched(p) ==
    /\ pc[p] = "launch"
    /\ Update(p, [Rec(p) EXCEPT !.status = "LAUNCH_FAILED", !.ssh_calls = 0], "final")
    /\ UNCHANGED <<files, lock, cur, environment>>

SaveRunning(p) ==
    /\ pc[p] = "running"
    /\ Save(p, mem[p], "wait", "abort")
    /\ UNCHANGED <<files, lock, cur, environment>>

DirectEnds(p) ==
    /\ pc[p] = "wait"
    /\ \E kind \in {"marker", "fatal", "other"} :
           ClientEnds(p, kind) /\ Update(p, DirectOutcome(p, kind), "final")
    /\ UNCHANGED <<files, lock, cur>>

\* Mutant: the wait has no timeout.
DirectAbortsOnError(p) ==
    /\ pc[p] = "abort"
    /\ KillClient(p)
    /\ Update(p, [Rec(p) EXCEPT !.status = "UNKNOWN"], "final")
    /\ UNCHANGED <<files, lock, cur>>

\* The timeout, or an exception after the launch: kill, UNKNOWN.
DirectAborts(p) ==
    /\ pc[p] \in {"wait", "abort"}
    /\ KillClient(p)
    /\ Update(p, [Rec(p) EXCEPT !.status = "UNKNOWN"], "final")
    /\ UNCHANGED <<files, lock, cur>>

-----------------------------------------------------------------------------
(* _probe_master(): one alive check, then at most one multiplex client.    *)

SocketCheck(p, socket) ==
    /\ pc[p] = "socket"
    /\ CASE socket = "same" -> Goto(p, "check-intent") /\ UNCHANGED <<mem, ledger>>
         [] socket = "absent" ->
                Update(p, [Rec(p) EXCEPT !.status = "MASTER_UNAVAILABLE"], "final")
         [] OTHER -> Update(p, [Rec(p) EXCEPT !.status = "LOCAL_STOP"], "final")
    /\ UNCHANGED <<files, lock, cur, environment>>

CheckIntent(p) ==
    /\ pc[p] = "check-intent"
    /\ Save(p, Put(p, [Rec(p) EXCEPT !.local_check_calls = Null, !.ssh_calls = Null]),
            "check-launch", "check-none")
    /\ UNCHANGED <<files, lock, cur, environment>>

CheckLaunch(p) ==
    /\ pc[p] = "check-launch"
    /\ \/ Goto(p, "check-none") /\ UNCHANGED <<mem, ledger>>
       \/ Update(p, [Rec(p) EXCEPT !.status = "RUNNING", !.local_check_calls = 1,
                                   !.ssh_calls = 1], "check-running")
    /\ UNCHANGED <<files, lock, cur, environment>>

\* The check client was never created.
CheckNotLaunched(p) ==
    /\ pc[p] = "check-none"
    /\ Update(p, [Rec(p) EXCEPT !.status = "LOCAL_STOP", !.local_check_calls = 0,
                                !.ssh_calls = 0], "final")
    /\ UNCHANGED <<files, lock, cur, environment>>

CheckRunning(p) ==
    /\ pc[p] = "check-running"
    /\ Save(p, mem[p], "check-wait", "check-abort")
    /\ UNCHANGED <<files, lock, cur, environment>>

\* A timeout or an answer that proves no running master.
CheckFails(p) ==
    /\ pc[p] = "check-wait"
    /\ Update(p, [Rec(p) EXCEPT !.status = "MASTER_UNAVAILABLE"], "final")
    /\ UNCHANGED <<files, lock, cur, environment>>

\* The handler writes the check logs again, and a failure there leaves them
\* empty.
CheckAborts(p) ==
    /\ pc[p] \in {"check-wait", "check-abort"}
    /\ Update(p, [Rec(p) EXCEPT !.status = "LOCAL_STOP"], "final")
    /\ checked' \in {checked, checked \cup {cur[p]}, checked \ {cur[p]}}
    /\ UNCHANGED <<created, logs, output, lock, cur, environment>>

CheckPasses(p) ==
    /\ pc[p] = "check-wait"
    /\ checked' = checked \cup {cur[p]}
    /\ Update(p, [Rec(p) EXCEPT !.master_alive = TRUE], "alive")
    /\ UNCHANGED <<created, logs, output, lock, cur, environment>>

SaveAlive(p) ==
    /\ pc[p] = "alive"
    /\ Save(p, mem[p], "recheck", "check-abort")
    /\ UNCHANGED <<files, lock, cur, environment>>

\* socket_unchanged() twice more; a changed socket ends in the handler.
Recheck(p, socket) ==
    /\ pc[p] = "recheck"
    /\ CASE socket = "same" -> Goto(p, "session-intent") /\ UNCHANGED <<mem, ledger>>
         [] socket = "absent" -> Update(p, [Rec(p) EXCEPT !.status = "MASTER_LOST"], "final")
         [] OTHER -> Goto(p, "check-abort") /\ UNCHANGED <<mem, ledger>>
    /\ UNCHANGED <<files, lock, cur, environment>>

\* The deadline of the whole probe is reached before the session.
DeadlinePassed(p) ==
    /\ pc[p] = "session-intent"
    /\ Update(p, [Rec(p) EXCEPT !.status = "LOCAL_STOP"], "final")
    /\ UNCHANGED <<files, lock, cur, environment>>

SessionIntent(p) ==
    /\ pc[p] = "session-intent"
    /\ Save(p, Put(p, [Rec(p) EXCEPT !.logical_session_calls = Null,
                                     !.remote_command_attempts = 1,
                                     !.confirmed = Null, !.ssh_calls = Null]),
            "session-launch", "session-none")
    /\ UNCHANGED <<files, lock, cur, environment>>

SessionLaunch(p) ==
    /\ pc[p] = "session-launch"
    /\ \/ /\ Goto(p, "session-none")
          /\ UNCHANGED <<mem, ledger, environment>>
       \/ /\ Update(p, [Rec(p) EXCEPT !.logical_session_calls = 1, !.ssh_calls = 2],
                    "session-running")
          /\ StartClient(p)
    /\ UNCHANGED <<files, lock, cur>>

\* The session client was never created.
SessionNotLaunched(p) ==
    /\ pc[p] = "session-none"
    /\ Update(p, [Rec(p) EXCEPT !.status = "LOCAL_STOP", !.logical_session_calls = 0,
                                !.confirmed = 0, !.ssh_calls = 1], "final")
    /\ UNCHANGED <<files, lock, cur, environment>>

SessionRunning(p) ==
    /\ pc[p] = "session-running"
    /\ Save(p, mem[p], "session-wait", "session-abort")
    /\ UNCHANGED <<files, lock, cur, environment>>

SessionEnds(p, socket) ==
    /\ pc[p] = "session-wait"
    /\ \E kind \in {"marker", "fatal", "loss", "other"} :
           ClientEnds(p, kind) /\ Update(p, MasterOutcome(p, kind, socket), "final")
    /\ UNCHANGED <<files, lock, cur>>

SessionAborts(p) ==
    /\ pc[p] \in {"session-wait", "session-abort"}
    /\ KillClient(p)
    /\ Update(p, [Rec(p) EXCEPT !.status = "UNKNOWN"], "final")
    /\ UNCHANGED <<files, lock, cur>>

-----------------------------------------------------------------------------
(* The final record, and the end of an invocation.                         *)

\* capture() and save(); finish() of the master path turns a failure into
\* OutcomeRecordingError, the direct path lets it propagate.
Finish(p) ==
    /\ pc[p] = "final"
    /\ Save(p, Put(p, [Rec(p) EXCEPT !.output = output[cur[p]]]), "return",
            IF TransportOf(p) = "direct" THEN "raise" ELSE "unrecorded")
    /\ UNCHANGED <<files, lock, cur, environment>>

\* The status main() prints for a probe that reserved an execution.
Reported(p) ==
    CASE pc[p] = "return" -> Rec(p).status
      [] pc[p] = "unrecorded" /\ Rec(p).logical_session_calls # 0 -> "UNKNOWN"
      [] OTHER -> "LOCAL_STOP"

\* The lock's descriptor is closed and the process ends.
Leave(p) ==
    /\ pc[p] \in LeaveSteps
    /\ lock' = Null
    /\ Goto(p, "idle")
    /\ mem' = [mem EXCEPT ![p] = EmptyLedger]
    /\ cur' = [cur EXCEPT ![p] = Null]
    /\ UNCHANGED <<durable, environment>>

\* The process dies: the kernel releases the flock, the client lives on.
Crash(p) ==
    /\ pc[p] # "idle"
    /\ Goto(p, "idle")
    /\ lock' = IF lock = p THEN Null ELSE lock
    /\ mem' = [mem EXCEPT ![p] = EmptyLedger]
    /\ cur' = [cur EXCEPT ![p] = Null]
    /\ UNCHANGED <<durable, environment>>

-----------------------------------------------------------------------------
(* The environment: probe.sh on the remote host and orphaned clients.      *)

\* A request that reached the server starts the command, even if the client
\* has been killed since.
RemoteStarts(e) ==
    /\ client[e] \in {"live", "gone"}
    /\ remote[e] = "none"
    /\ remote' = [remote EXCEPT ![e] = "running"]
    /\ UNCHANGED <<durable, lock, local, client, launches>>

RemoteEnds(e) ==
    /\ remote[e] = "running"
    /\ \E exit \in {"exit0", "exitN"} : remote' = [remote EXCEPT ![e] = exit]
    /\ UNCHANGED <<durable, lock, local, client, launches>>

ClientWrites(e) ==
    /\ client[e] = "live"
    /\ output[e] < MaxOutput
    /\ output' = [output EXCEPT ![e] = @ + 1]
    /\ UNCHANGED <<created, logs, checked, ledger, lock, local, environment>>

OrphanEnds(e) ==
    /\ client[e] = "live"
    /\ \A p \in Procs : cur[p] # e
    /\ client' = [client EXCEPT ![e] = "gone"]
    /\ UNCHANGED <<durable, lock, local, remote, launches>>

-----------------------------------------------------------------------------
Initialize(p) == BeginInitialize(p) \/ CreateCoordination(p) \/ Populate(p)

\* Steps that wait for an answer of a client.
ClientAnswers(p) ==
    \/ DirectEnds(p)
    \/ CheckPasses(p)
    \/ \E socket \in SocketStates : SessionEnds(p, socket)

ProbeDirect(p) ==
    LaunchDirect(p) \/ DirectNotLaunched(p) \/ SaveRunning(p) \/ DirectAborts(p)

ProbeMaster(p) ==
    \/ \E socket \in SocketStates : SocketCheck(p, socket) \/ Recheck(p, socket)
    \/ CheckIntent(p) \/ CheckLaunch(p) \/ CheckNotLaunched(p) \/ CheckRunning(p)
    \/ CheckFails(p) \/ CheckAborts(p) \/ SaveAlive(p) \/ DeadlinePassed(p) \/ SessionIntent(p) \/ SessionLaunch(p)
    \/ SessionNotLaunched(p) \/ SessionRunning(p) \/ SessionAborts(p)

\* What an invocation that holds the lock does of its own accord.
Proceed(p) ==
    \/ RecoverStep(p)
    \/ \E a \in Approvals, transport \in Transports : Approve(p, a, transport)
    \/ Reject(p)
    \/ \E a \in Approvals, e \in Executions : CreateLogs(p, a, e)
    \/ Reserve(p) \/ ProbeDirect(p) \/ ProbeMaster(p) \/ Finish(p) \/ Leave(p)

Environment ==
    \E e \in Executions :
        RemoteStarts(e) \/ RemoteEnds(e) \/ ClientWrites(e) \/ OrphanEnds(e)

Next ==
    \/ \E p \in Procs : Initialize(p) \/ Lock(p) \/ Proceed(p) \/ ClientAnswers(p) \/ Crash(p)
    \/ Environment

Spec == Init /\ [][Next]_vars

\* A live invocation keeps running.  No client is assumed to answer: every
\* wait of the code has a timeout.
Fairness == \A p \in Procs : WF_vars(Proceed(p))
FairSpec == Spec /\ Fairness

-----------------------------------------------------------------------------
(* The abstract specification this one implements.                         *)

\* The life of an approval, read from a ledger.
Phase(l, a) ==
    LET used(statuses) == \E e \in Executions : /\ l.executions[e].approval = a
                                                /\ l.executions[e].status \in statuses
    IN  IF l.approvals[a] = "absent" THEN "unknown"
        ELSE IF used(Pending) THEN "open"
        ELSE IF used({"UNKNOWN", "MASTER_LOST"}) THEN "lost"
        ELSE IF used(Statuses) THEN "closed"
        ELSE "granted"

Budget == INSTANCE ProbeBudget WITH phase <- [a \in Approvals |-> Phase(ledger, a)],
                                    launches <- launches

\* The ledger, its crashes and its failed writes implement the promise of
\* ProbeBudget: one reservation and one session per approval, in sequence.
ImplementsBudget == Budget!Spec

-----------------------------------------------------------------------------
(* Properties.                                                             *)

\* Every variable keeps the shape the code gives it (Store.validate checks
\* the same of the ledger it reads).
TypeOK ==
    /\ created \in 0..StoreObjects
    /\ lock \in Procs \cup {Null}
    /\ ledger \in Ledger
    /\ logs \subseteq Executions
    /\ output \in [Executions -> Nat]
    /\ checked \subseteq Executions
    /\ pc \in [Procs -> Steps]
    /\ mem \in [Procs -> Ledger]
    /\ cur \in [Procs -> Executions \cup {Null}]
    /\ client \in [Executions -> {"none", "live", "gone", "refused"}]
    /\ remote \in [Executions -> {"none", "running", "exit0", "exitN"}]
    /\ launches \in [Approvals -> Nat]

\* An approval pays for at most one ssh session, whatever crashes, failed
\* writes, retries and new execution identifiers follow it.
AtMostOneLaunch == \A a \in Approvals : launches[a] <= 1

\* The durable record of a client that was started never says that none was:
\* the reservation is on disk before the spawn, and a count of zero or a
\* status that stands for "nothing ran" is never stored afterwards.
NeverFalselyZero ==
    \A e \in Executions :
        client[e] # "none" =>
            LET r == ledger.executions[e]
            IN  /\ r.status \notin {"absent", "LAUNCH_FAILED", "MASTER_UNAVAILABLE", "LOCAL_STOP"}
                /\ IF ledger.approvals[r.approval] = "direct"
                     THEN r.ssh_calls # 0
                     ELSE r.logical_session_calls # 0

\* A stored COMPLETE or REMOTE_FAILED is what the remote command did.
ConfirmedIsTrue ==
    \A e \in Executions :
        /\ ledger.executions[e].status = "COMPLETE" => remote[e] = "exit0"
        /\ ledger.executions[e].status = "REMOTE_FAILED" => remote[e] = "exitN"

InFlight(e) == client[e] = "live" \/ remote[e] = "running"

\* Two sessions overlap only across a recorded CONNECTION_STOP: every other
\* undecided outcome keeps the next probe from starting.
SerializedUnlessStopped ==
    \A e, f \in Executions :
        e # f /\ InFlight(e) /\ InFlight(f) =>
            \E g \in {e, f} : ledger.executions[g].status = "CONNECTION_STOP"

\* Every ledger any sequence of crashes and failed writes leaves on disk
\* passes the record and budget checks of Store.validate: the transport never
\* locks itself out by what it wrote.
RecordsSelfConsistent == RecordsValid(ledger)

\* The output an outcome was decided on is still what its digest covers; only
\* an orphaned client can write after recovery took its digest.
EvidenceStable ==
    \A e \in Recorded(ledger) :
        ledger.executions[e].status \notin Pending \cup {"UNKNOWN"} =>
            ledger.executions[e].output = output[e]

\* A session is attempted only while the answer that proved the master alive
\* is on disk, and the answer of an attempted session is never lost.
AliveEvidenceKept ==
    \A e \in Executions :
        ledger.executions[e].remote_command_attempts = 1 => e \in checked

\* A control-master invocation never reports LOCAL_STOP for a session it has
\* started, even when the final record cannot be written.
MasterReportHonest ==
    \A p \in Procs :
        pc[p] \in LeaveSteps /\ cur[p] # Null /\ Reported(p) = "LOCAL_STOP" =>
            TransportOf(p) = "direct" \/ client[cur[p]] = "none"

\* What is on disk and what is reported never hides a session: the records pass the
\* store's own checks, count every client that was started, keep the answer that
\* allowed it, and the report of the invocation that started it agrees.
LaunchOnRecord ==
    RecordsSelfConsistent /\ NeverFalselyZero /\ AliveEvidenceKept /\ MasterReportHonest

\* A decided outcome is what the remote command did, and its evidence is still what
\* it was decided on.
OutcomeIsTrue == ConfirmedIsTrue /\ EvidenceStable

\* A decided execution and an approval are never rewritten, by recovery, by
\* another process or by a late save of an earlier copy of the ledger.
NeverRewritten ==
    [][/\ \A e \in Executions :
              ledger.executions[e].status \notin Pending \cup {"absent"} =>
                  ledger'.executions[e] = ledger.executions[e]
       /\ \A a \in Approvals :
              ledger.approvals[a] # "absent" => ledger'.approvals[a] = ledger.approvals[a]]_vars

\* No invocation keeps the global lock for ever.
LockReleased == \A p \in Procs : lock = p ~> lock # p

\* CONNECTION_STOP, "direct authentication refusal, host-key anomaly, or
\* connection-limit signal" (jobs/sirius/README.md), is a client that was
\* turned away: the remote command never ran.
StopMeansRefused ==
    \A e \in Executions :
        ledger.executions[e].status = "CONNECTION_STOP" => remote[e] = "none"
=============================================================================
