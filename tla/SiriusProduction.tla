---------------------------- MODULE SiriusProduction ------------------------------
(***************************************************************************)
(* The two measurement waves of a Sirius production campaign:              *)
(* amd_wave.run around amd_production.run_master, the MPI ranks it starts  *)
(* on every node, the collection of their evidence, and the adoption of a  *)
(* wave 0 with one failed node.                                            *)
(*                                                                         *)
(* The state is the campaign directory (campaign to adoption) and the      *)
(* processes that write it (master, rank).  A signal handler raises        *)
(* StopRequested between any two steps, a process can die at any step, and *)
(* the inputs and the source tree can be replaced while a job runs.        *)
(***************************************************************************)
EXTENDS ChildProcesses, Naturals, FiniteSets

CONSTANTS NODES,         \* hosts of an allocation, one rank each
          INVOCATIONS,   \* benchmark calls of a node's schedule
          Faults         \* bound: signals, deaths, replacements, lost evidence

ASSUME ProductionAssumption ==
    NODES \in Nat \ {0} /\ INVOCATIONS \in Nat \ {0} /\ Faults \in Nat

VARIABLES
    disk,        \* versions of the input files and of the source tree now
    campaign,    \* run-metadata.json and the frozen inputs
    plan,        \* wave -> the sealed request of its last job
    launch,      \* wave -> launch/<wave> exists
    prepared,    \* wave -> waves/<wave>/wave-metadata.json exists
    node,        \* wave -> rank -> waves/<wave>/nodes/<host>/
    report,      \* wave -> waves/<wave>/artifact-manifest.json
    status,      \* wave -> launch/<wave>/status.json
    summary,     \* wave -> status.json of amd_wave's own directory
    adoption,    \* adoptions/wave-0-adoption.json
    master,      \* wave -> the process in amd_wave.run and run_master
    rank,        \* wave -> rank -> the process in run_worker
    faults       \* faults so far

files == <<campaign, launch, prepared, node, report, status, summary, adoption>>
vars == <<disk, plan, files, master, rank, faults>>

Ranks == 0 .. NODES - 1
Waves == {0, 1}
Versions == 0 .. Faults
Verdicts == {"absent", "COMPLETE", "FAILED", "UNKNOWN"}

\* calls: the outcomes in node-status.json and the logs; from: the versions of
\* the inputs while the rows were measured; whole: the files are as written.
NodeFiles == [made : BOOLEAN, calls : BoundedSeq(Outcome, INVOCATIONS),
              from : SUBSET Versions, status : Verdicts, whole : BOOLEAN]
NoNode == [made |-> FALSE, calls |-> <<>>, from |-> {}, status |-> "absent",
           whole |-> TRUE]
NoNodes == [r \in Ranks |-> NoNode]
NoReport == [status |-> "absent", mpi |-> "none", passed |-> {}, files |-> NoNodes]

\* error: the exception on its way; timed: a record of run_master's Processes says
\* timed_out; verdict: the status its document is about to be saved with; mpi:
\* mpi_exit; passed: the nodes collect_wave found complete.  History: stopped, when
\* the first signal came, before its report or before its status; masked, a signal
\* came when run_master was already leaving with an earlier verdict; broke, mpirun
\* or a git child failed by itself.
Idle == [at |-> "idle", error |-> "none", timed |-> FALSE, verdict |-> "FAILED",
         mpi |-> "none", passed |-> {}, stopped |-> "no", masked |-> FALSE,
         broke |-> FALSE]

\* except and closing are the except and finally clauses of run_master; summary is
\* what amd_wave.run does after run_master.
Steps == {"idle", "placing", "launching", "preflight", "prepare", "measure",
          "recheck", "collect", "save", "except", "closing", "summary", "left"}
Masters == [at : Steps, error : {"none", "other", "stop"}, timed : BOOLEAN,
            verdict : Verdicts, mpi : {"none", "0"}, passed : SUBSET Ranks,
            stopped : {"no", "early", "late"}, masked : BOOLEAN, broke : BOOLEAN]
Reports == [status : {"absent", "COMPLETE", "FAILED"}, mpi : {"none", "0"},
            passed : SUBSET Ranks, files : [Ranks -> NodeFiles]]

Init ==
    /\ disk = [inputs |-> 0, source |-> 0]
    /\ campaign = [at |-> "absent", inputs |-> 0, source |-> 0]
    /\ plan = [w \in Waves |-> [inputs |-> 0, source |-> 0, adopted |-> FALSE]]
    /\ launch = [w \in Waves |-> FALSE]
    /\ prepared = [w \in Waves |-> FALSE]
    /\ node = [w \in Waves |-> NoNodes]
    /\ report = [w \in Waves |-> NoReport]
    /\ status = [w \in Waves |-> "absent"]
    /\ summary = [w \in Waves |-> "absent"]
    /\ adoption = "absent"
    /\ master = [w \in Waves |-> Idle]
    /\ rank = [w \in Waves |-> [r \in Ranks |-> "none"]]
    /\ faults = 0

Fault == faults < Faults /\ faults' = faults + 1
\* A failure with its cause at hand, or one out of the bounded number.
Unless(cause) == IF cause THEN UNCHANGED faults ELSE Fault
At(w, s) == master[w].at = s
Sets(w, m, s) == master' = [master EXCEPT ![w] = [m EXCEPT !.at = s]]
Becomes(w, m, s) == Sets(w, m, s) /\ UNCHANGED <<disk, rank, faults>>
Goes(w, s) == Becomes(w, master[w], s)
Raises(w, e, s) == Becomes(w, [master[w] EXCEPT !.error = e], s)

\* What is left of a process that is gone: its history.
Gone(m) == [Idle EXCEPT !.timed = m.timed, !.stopped = m.stopped, !.masked = m.masked,
                        !.broke = m.broke]

\* The child of the moment is stopped: at its deadline, or because of a signal.
TimesOut(w, s) == Becomes(w, [master[w] EXCEPT !.error = "other", !.timed = TRUE], s)

\* checked_file of every input the plan pins: it still has the pinned bytes.
InputsIntact(w) == disk.inputs = plan[w].inputs
\* HEAD is the plan's launcher commit and nothing is modified.
CleanSource(w) == disk.source = plan[w].source

-----------------------------------------------------------------------------
(* Adoption and the gate between the waves.                                *)

CompleteNode(n) ==
    n.status = "COMPLETE" /\ Len(n.calls) = INVOCATIONS /\ AllUsable(n.calls)

\* A failure that left an exit status in the last record, after successes.
RecordedFailure(n) ==
    /\ n.status = "FAILED" /\ n.calls # <<>> /\ Last(n.calls) = "failed"
    /\ MayRun(Front(n.calls))

\* review_wave0_adoption: all nodes but one are complete and were accepted by
\* the collection, one has a recorded failure, and the files are still those
\* that were collected.
Adoptable ==
    /\ status[0] = "FAILED" /\ report[0].status = "FAILED" /\ report[0].mpi = "0"
    /\ node[0] = report[0].files
    /\ \E f \in Ranks :
          /\ RecordedFailure(node[0][f])
          /\ \A r \in Ranks \ {f} : CompleteNode(node[0][r])
          /\ report[0].passed = Ranks \ {f}

AdoptDirectory ==
    /\ adoption = "absent" /\ Adoptable
    /\ adoption' = "empty"
    /\ UNCHANGED <<disk, campaign, plan, launch, prepared, node, report, status,
                   summary, master, rank, faults>>

Adopt ==
    /\ adoption = "empty"
    /\ adoption' = "saved"
    /\ UNCHANGED <<disk, campaign, plan, launch, prepared, node, report, status,
                   summary, master, rank, faults>>

\* Mutant of CheckPriorWave: the collection alone stands for wave 0.
CheckPriorCollection(p) ==
    /\ campaign.at = "sealed" /\ campaign.inputs = p.inputs
    /\ \/ ~p.adopted /\ campaign.source = p.source /\ report[0].status = "COMPLETE"
       \/ p.adopted /\ adoption = "saved" /\ Adoptable

\* Mutant of CheckPriorWave: the inputs are not compared with the campaign's.
CheckPriorStatus(p) ==
    /\ campaign.at = "sealed"
    /\ \/ /\ ~p.adopted /\ campaign.source = p.source
          /\ report[0].status = "COMPLETE" /\ status[0] = "COMPLETE"
       \/ p.adopted /\ adoption = "saved" /\ Adoptable

\* check_prior_wave: a complete wave 0 of the same campaign and source, or an
\* adopted one whose review still gives the same.
CheckPriorWave(p) ==
    /\ campaign.at = "sealed" /\ campaign.inputs = p.inputs
    /\ \/ /\ ~p.adopted /\ campaign.source = p.source
          /\ report[0].status = "COMPLETE" /\ status[0] = "COMPLETE"
       \/ p.adopted /\ adoption = "saved" /\ Adoptable

-----------------------------------------------------------------------------
(* amd_wave.run up to run_master.                                          *)

\* A request is sealed over the files as they are; it asks for adoption or not.
BeginWave(w) ==
    /\ master[w].at \in {"idle", "left"} /\ ~launch[w] /\ ~prepared[w]
    /\ \E adopted \in BOOLEAN :
          LET p == [inputs |-> disk.inputs, source |-> disk.source,
                    adopted |-> adopted]
          IN  /\ IF w = 0 THEN campaign.at = "absent" /\ ~adopted
                          ELSE CheckPriorWave(p)
              /\ plan' = [plan EXCEPT ![w] = p]
    /\ summary' = [summary EXCEPT ![w] = "absent"]
    /\ Becomes(w, Idle, "placing")
    /\ UNCHANGED <<campaign, launch, prepared, node, report, status, adoption>>

\* The placement MPI job: it proves the placement, fails, or is stopped, at its
\* deadline too: amd_wave.run handles a stopped child like a signal.
Place(w) ==
    /\ At(w, "placing")
    /\ \/ CleanSource(w) /\ Goes(w, "launching")
       \/ \E e \in {"other", "stop"} : Raises(w, e, "summary")
    /\ UNCHANGED <<plan, files>>

-----------------------------------------------------------------------------
(* run_master up to the measurement.                                       *)

MayLaunch(w) ==
    /\ InputsIntact(w)
    /\ IF w = 0 THEN campaign.at = "absent" ELSE CheckPriorWave(plan[w])

Launch(w) ==
    /\ At(w, "launching") /\ MayLaunch(w)
    /\ campaign' = IF w = 0 THEN [campaign EXCEPT !.at = "empty"] ELSE campaign
    /\ launch' = [launch EXCEPT ![w] = TRUE]
    /\ Goes(w, "preflight")
    /\ UNCHANGED <<plan, prepared, node, report, status, summary, adoption>>

\* A check refuses, or a directory cannot be made: no launch, no status.
LaunchFails(w) ==
    /\ At(w, "launching")
    /\ \E made \in BOOLEAN :
          /\ made => campaign.at = "absent" /\ w = 0
          /\ campaign' = IF made THEN [campaign EXCEPT !.at = "empty"] ELSE campaign
    /\ Raises(w, "other", "summary")
    /\ UNCHANGED <<plan, launch, prepared, node, report, status, summary, adoption>>

\* What is still to be written outside of the try can fail: no status.
Preflight(w) ==
    /\ At(w, "preflight")
    /\ \/ CleanSource(w) /\ InputsIntact(w) /\ Goes(w, "prepare")
       \/ Raises(w, "other", "summary")
       \/ Raises(w, "other", "except")
       \/ TimesOut(w, "except")
    /\ UNCHANGED <<plan, files>>

MayPrepare(w) == InputsIntact(w) /\ (w = 0 \/ CheckPriorWave(plan[w]))

PrepareWave(w) ==
    /\ At(w, "prepare") /\ MayPrepare(w)
    /\ campaign' = IF w = 0 THEN [at |-> "sealed", inputs |-> plan[w].inputs,
                                  source |-> plan[w].source] ELSE campaign
    /\ prepared' = [prepared EXCEPT ![w] = TRUE]
    /\ Goes(w, "measure")
    /\ UNCHANGED <<plan, launch, node, report, status, summary, adoption>>

\* A check refuses or a file cannot be written, before or after run-metadata.
PrepareFails(w) ==
    /\ At(w, "prepare")
    /\ \/ UNCHANGED campaign
       \/ w = 0 /\ campaign' = [at |-> "sealed", inputs |-> plan[w].inputs,
                                source |-> plan[w].source]
    /\ Raises(w, "other", "except")
    /\ UNCHANGED <<plan, launch, prepared, node, report, status, summary, adoption>>

-----------------------------------------------------------------------------
(* The measurement: run_worker on every rank.                              *)

RankIs(w, r, s) == rank' = [rank EXCEPT ![w][r] = s]
Writes(w, r, n) ==
    /\ node' = [node EXCEPT ![w][r] = n]
    /\ UNCHANGED <<disk, campaign, plan, launch, prepared, report, status, summary,
                   adoption, master>>

StartRank(w, r) ==
    /\ At(w, "measure") /\ rank[w][r] = "none"
    /\ InputsIntact(w) /\ CleanSource(w)
    /\ RankIs(w, r, "bench")
    /\ Writes(w, r, [NoNode EXCEPT !.made = TRUE])
    /\ UNCHANGED faults

\* The rank is not what it was in the preflight, or a check of its inputs fails.
RefuseRank(w, r) ==
    /\ At(w, "measure") /\ rank[w][r] = "none"
    /\ RankIs(w, r, "1") /\ Unless(~(InputsIntact(w) /\ CleanSource(w)))
    /\ Writes(w, r, node[w][r])

\* Mutant of Bench: the calls are not counted against the schedule.
BenchUncounted(w, r) ==
    LET n == node[w][r]
    IN  /\ rank[w][r] = "bench" /\ AllUsable(n.calls) /\ InputsIntact(w)
        /\ \E o \in Outcome :
              Writes(w, r, [n EXCEPT !.calls = Append(@, o),
                                     !.from = @ \cup {disk.inputs}])
        /\ UNCHANGED <<rank, faults>>

\* execute_schedule through LoggedRunner.run: the binary still has its recorded
\* bytes and is run.  A production campaign does not continue after a failure.
Bench(w, r) ==
    LET n == node[w][r]
    IN  /\ rank[w][r] = "bench" /\ AllUsable(n.calls) /\ Len(n.calls) < INVOCATIONS
        /\ InputsIntact(w)
        /\ \E o \in Outcome :
              Writes(w, r, [n EXCEPT !.calls = Append(@, o),
                                     !.from = @ \cup {disk.inputs}])
        /\ UNCHANGED <<rank, faults>>

\* mpirun passes signals on when it is stopped or a rank has failed.
Signalled(w) == ~At(w, "measure") \/ \E r \in Ranks : rank[w][r] = "1"

\* StopRequested outside of a benchmark; in one, it is a timeout of Bench.
StopRank(w, r) ==
    /\ rank[w][r] = "bench" /\ Signalled(w)
    /\ RankIs(w, r, "halted")
    /\ Writes(w, r, node[w][r])
    /\ UNCHANGED faults

NodeVerdict(w, r) ==
    IF CompleteNode([node[w][r] EXCEPT !.status = "COMPLETE"]) /\ rank[w][r] = "bench"
    THEN "COMPLETE"
    ELSE IF rank[w][r] = "halted" \/ AnyTimedOut(node[w][r].calls)
         THEN "UNKNOWN" ELSE "FAILED"

\* Mutant of FinishRank: the rank exits with the code of its measurement.
FinishRankWithCode(w, r) ==
    LET n == node[w][r]
    IN  /\ \/ rank[w][r] = "halted"
           \/ rank[w][r] = "bench"
              /\ \/ ~AllUsable(n.calls) \/ Len(n.calls) = INVOCATIONS
                 \/ ~InputsIntact(w)
        /\ RankIs(w, r, IF NodeVerdict(w, r) = "COMPLETE" THEN "0" ELSE "1")
        /\ Writes(w, r, [n EXCEPT !.status = NodeVerdict(w, r)])
        /\ UNCHANGED faults

\* finish_worker_rank: the result is recorded and the rank succeeds.
FinishRank(w, r) ==
    LET n == node[w][r]
    IN  /\ \/ rank[w][r] = "halted"
           \/ rank[w][r] = "bench"
              /\ \/ ~AllUsable(n.calls) \/ Len(n.calls) = INVOCATIONS
                 \/ ~InputsIntact(w)
        /\ RankIs(w, r, "0")
        /\ Writes(w, r, [n EXCEPT !.status = NodeVerdict(w, r)])
        /\ UNCHANGED faults

\* Killed, or node-status.json cannot be written.
RankDies(w, r) ==
    /\ rank[w][r] \in {"bench", "halted"}
    /\ RankIs(w, r, "1") /\ Fault
    /\ Writes(w, r, node[w][r])

-----------------------------------------------------------------------------
(* run_master from the end of the measurement.                             *)

\* Whatever the ranks did, a child can fail by itself: it cannot be launched, it
\* exits non-zero, its log is too long or no text, its record cannot be written.
ChildFails(w) ==
    /\ Sets(w, [master[w] EXCEPT !.error = "other", !.broke = TRUE], "collect")
    /\ Fault /\ UNCHANGED <<disk, rank>>

MpiReturns(w) ==
    /\ At(w, "measure")
    /\ \/ (\A r \in Ranks : rank[w][r] = "0") /\ Goes(w, "recheck")
       \/ (\E r \in Ranks : rank[w][r] = "1") /\ Raises(w, "other", "collect")
       \/ ChildFails(w)
    /\ UNCHANGED <<plan, files>>

\* The deadline or a signal: mpirun is stopped, its ranks may go on.
MpiStopped(w) ==
    /\ At(w, "measure")
    /\ TimesOut(w, "collect")
    /\ UNCHANGED <<plan, files>>

\* mpi_exit is assigned only if the children of clean_source and of
\* check_tool_transition succeed and find the source still clean.
Recheck(w) ==
    /\ At(w, "recheck")
    /\ \/ CleanSource(w) /\ Becomes(w, [master[w] EXCEPT !.mpi = "0"], "collect")
       \/ ~CleanSource(w) /\ Raises(w, "other", "collect")
       \/ ChildFails(w)
       \/ TimesOut(w, "collect")
    /\ UNCHANGED <<plan, files>>

\* Mutant of Judge: the rows and the logs are judged, the node's status is not.
JudgeByRows(w) ==
    /\ At(w, "collect")
    /\ Becomes(w, [master[w] EXCEPT !.passed =
          IF InputsIntact(w)
          THEN {r \in Ranks : CompleteNode([node[w][r] EXCEPT !.status = "COMPLETE"])}
          ELSE {}],
          "save")
    /\ UNCHANGED <<plan, files>>

\* collect_wave, its judgement: without the plan's inputs no node can be judged.
Judge(w) ==
    /\ At(w, "collect")
    /\ Becomes(w, [master[w] EXCEPT !.passed =
          IF InputsIntact(w)
          THEN {r \in Ranks : CompleteNode(node[w][r]) /\ node[w][r].whole} ELSE {}],
          "save")
    /\ UNCHANGED <<plan, files>>

\* collect_wave, its inventory: every file is hashed again, whatever was judged.
\* Without an exception so far, the report is the verdict.
SaveReport(w) ==
    LET m == master[w]
        whole == m.mpi = "0" /\ m.passed = Ranks
    IN  /\ At(w, "save")
        /\ report' = [report EXCEPT ![w] =
              [status |-> IF whole THEN "COMPLETE" ELSE "FAILED", mpi |-> m.mpi,
               passed |-> m.passed, files |-> node[w]]]
        /\ IF whole
           THEN Becomes(w, [m EXCEPT !.mpi = "none", !.passed = {}, !.verdict = "COMPLETE"],
                        "closing")
           ELSE Becomes(w, [m EXCEPT !.mpi = "none", !.passed = {},
                                     !.error = IF @ = "none" THEN "other" ELSE @],
                        "except")
        /\ UNCHANGED <<campaign, plan, launch, prepared, node, status, summary, adoption>>

\* The exception of a failed write replaces the one that led here.
SaveReportFails(w) ==
    At(w, "save") /\ Raises(w, "other", "except") /\ UNCHANGED <<plan, files>>

\* Mutant of Interrupted: only the records of children are asked for a stop.
InterruptedChild(m) == m.timed

Interrupted(m) == m.error = "stop" \/ m.timed

\* The except clause of run_master.
Handle(w) ==
    LET m == master[w]
    IN  /\ At(w, "except")
        /\ Becomes(w, [m EXCEPT !.error = "none",
                                !.verdict = IF Interrupted(m) THEN "UNKNOWN" ELSE @],
                   "closing")
        /\ UNCHANGED <<plan, files>>

\* The finally of run_master: it returns and amd_wave.run takes its status over, or
\* an exception goes on.
SaveStatus(w) ==
    LET m == master[w]
    IN  /\ At(w, "closing")
        /\ status' = [status EXCEPT ![w] = m.verdict]
        /\ Becomes(w, [m EXCEPT !.verdict = IF m.error = "none" THEN @ ELSE "FAILED"],
                   "summary")
        /\ UNCHANGED <<campaign, plan, launch, prepared, node, report, summary, adoption>>

SaveStatusFails(w) ==
    /\ At(w, "closing")
    /\ Becomes(w, [master[w] EXCEPT !.error = "other", !.verdict = "FAILED"], "summary")
    /\ UNCHANGED <<plan, files>>

\* The except and finally clauses of amd_wave.run.
SaveSummary(w) ==
    LET m == master[w]
    IN  /\ At(w, "summary")
        /\ summary' = [summary EXCEPT ![w] = IF m.error = "stop" THEN "UNKNOWN" ELSE m.verdict]
        /\ Becomes(w, Gone(m), "left")
        /\ UNCHANGED <<campaign, plan, launch, prepared, node, report, status, adoption>>

-----------------------------------------------------------------------------
(* Signals, deaths and replacements.                                       *)

Working == Steps \ {"idle", "left"}

\* A signal's exception leads to step to, with the verdict so far.
StopTo(w, to, verdict) ==
    LET m == master[w]
        first == IF report[w].status = "absent" THEN "early" ELSE "late"
    IN  Sets(w, [m EXCEPT !.error = "stop", !.verdict = verdict,
                          !.stopped = IF @ # "no" \/ m.at = "summary" THEN @ ELSE first,
                          !.masked = @ \/ to = "closing"], to)

\* StopRequested, where no child is running.  In a try it leads to the except clause
\* and replaces the exception on its way; collect_wave does not catch it.  In an
\* except clause it leads to the finally, with the verdict as it is; out of a
\* finally, to the caller.
Stop(w) ==
    LET m == master[w]
    IN  /\ \/ m.at \in {"placing", "launching", "preflight"}
              /\ StopTo(w, "summary", m.verdict)
           \/ m.at \in {"preflight", "prepare", "collect", "save", "except"}
              /\ StopTo(w, "except", m.verdict)
           \/ m.at = "measure" /\ (\A r \in Ranks : rank[w][r] # "bench")
              /\ StopTo(w, "collect", m.verdict)
           \/ m.at = "recheck" /\ StopTo(w, "collect", m.verdict)
           \/ m.at = "closing" /\ m.error = "none" /\ m.verdict = "COMPLETE"
              /\ \E v \in {"FAILED", "COMPLETE"} : StopTo(w, "except", v)
           \/ m.at \in {"except", "closing"} /\ StopTo(w, "closing", m.verdict)
           \/ m.at = "closing" /\ StopTo(w, "summary", "FAILED")
           \/ m.at = "summary" /\ m.error = "none"
              /\ \E v \in {"FAILED", m.verdict} : StopTo(w, "summary", v)
           \/ m.at = "summary" /\ m.error # "none"
              /\ Sets(w, [m EXCEPT !.error = "other"], "summary")
           \/ m.at = "summary" /\ Sets(w, Gone(m), "left")
        /\ Fault /\ UNCHANGED <<disk, plan, files, rank>>

Die(w) ==
    /\ master[w].at \in Working /\ Fault
    /\ Sets(w, Gone(master[w]), "left")
    /\ UNCHANGED <<disk, plan, files, rank>>

Replace ==
    /\ Fault
    /\ \E f \in {"inputs", "source"} : disk' = [disk EXCEPT ![f] = @ + 1]
    /\ UNCHANGED <<plan, files, master, rank>>

\* A file of wave 0's evidence is lost or changed after its collection, while
\* there is still a check to read it.
LoseEvidence(r) ==
    /\ Fault
    /\ report[0].status # "absent" /\ node[0][r].made /\ ~prepared[1]
    /\ node' = [node EXCEPT ![0][r].whole = FALSE]
    /\ UNCHANGED <<disk, plan, campaign, launch, prepared, report, status, summary,
                   adoption, master, rank>>

MasterStep(w) ==
    \/ BeginWave(w) \/ Place(w) \/ Launch(w) \/ LaunchFails(w) \/ Preflight(w)
    \/ PrepareWave(w) \/ PrepareFails(w) \/ MpiReturns(w) \/ MpiStopped(w)
    \/ Recheck(w) \/ Judge(w) \/ SaveReport(w)
    \/ SaveReportFails(w) \/ Handle(w) \/ SaveStatus(w) \/ SaveStatusFails(w)
    \/ SaveSummary(w)

RankStep(w, r) ==
    \/ StartRank(w, r) \/ RefuseRank(w, r) \/ Bench(w, r) \/ StopRank(w, r)
    \/ FinishRank(w, r) \/ RankDies(w, r)

Next ==
    \/ \E w \in Waves : MasterStep(w) \/ Stop(w) \/ Die(w)
    \/ \E w \in Waves, r \in Ranks : RankStep(w, r)
    \/ AdoptDirectory \/ Adopt \/ Replace \/ \E r \in Ranks : LoseEvidence(r)

Spec == Init /\ [][Next]_vars

-----------------------------------------------------------------------------
(* Properties.                                                             *)

\* Every variable keeps the shape the code gives it.
TypeOK ==
    /\ disk \in [inputs : Versions, source : Versions]
    /\ campaign \in [at : {"absent", "empty", "sealed"}, inputs : Versions, source : Versions]
    /\ plan \in [Waves -> [inputs : Versions, source : Versions, adopted : BOOLEAN]]
    /\ launch \in [Waves -> BOOLEAN] /\ prepared \in [Waves -> BOOLEAN]
    /\ node \in [Waves -> [Ranks -> NodeFiles]]
    /\ report \in [Waves -> Reports] /\ master \in [Waves -> Masters]
    /\ status \in [Waves -> Verdicts] /\ summary \in [Waves -> Verdicts]
    /\ adoption \in {"absent", "empty", "saved"}
    /\ rank \in [Waves -> [Ranks -> {"none", "bench", "halted", "0", "1"}]]
    /\ faults \in 0 .. Faults

\* A node of wave w was measured to its end, with the campaign's own inputs.
MeasuredBy(w, r, seen) ==
    rank[w][r] = "0" /\ CompleteNode(seen[r]) /\ seen[r].from = {campaign.inputs}

\* A COMPLETE that amd_wave or the master leaves behind stands for a wave whose
\* ranks have all ended and measured the inputs frozen with the campaign, whatever
\* was replaced, interrupted or lost on the way, and in whichever job.
CompleteIsMeasured ==
    \A w \in Waves :
        /\ summary[w] = "COMPLETE" => status[w] = "COMPLETE"
        /\ status[w] = "COMPLETE" =>
              /\ report[w].status = "COMPLETE"
              /\ \A r \in Ranks : MeasuredBy(w, r, report[w].files)

\* Wave 1 follows only on a wave 0 that nobody is still measuring, whose measurement
\* and collection no signal and no deadline ended, and that lacks at most one node,
\* whose failure left its own exit status; an adoption never turns another end into a
\* start.  A later signal did not leave wave 0 UNKNOWN only if its verdict had fallen.
NextWaveJustified ==
    launch[1] =>
        /\ status[0] \in {"COMPLETE", "FAILED"}
        /\ \A r \in Ranks : rank[0][r] = "0"
        /\ ~master[0].timed /\ master[0].stopped # "early"
        /\ master[0].stopped = "late" => master[0].masked
        /\ \E f \in Ranks :
              /\ \A r \in Ranks \ {f} : MeasuredBy(0, r, report[0].files)
              /\ ~MeasuredBy(0, f, report[0].files) =>
                    RecordedFailure(report[0].files[f]) /\ adoption = "saved"

\* What collect_wave hashed of a node it passed is what it judged, although ranks
\* whose mpirun is gone go on writing while it reads: a recorded completion is the
\* last thing a rank writes.
CollectedIsJudged ==
    \A w \in Waves : \A r \in report[w].passed :
        /\ MeasuredBy(w, r, report[w].files)
        /\ node[w][r].whole => node[w][r] = report[w].files[r]

\* A wave that a deadline or a signal ended is never recorded as FAILED, a state an
\* operator could adopt, with two exceptions: the failed save of the collection took
\* the signal's place, or a signal, after another failure, a deadline or a first
\* signal, left run_master's except clause before it had written UNKNOWN.
StopIsUnknown ==
    \A w \in Waves :
        status[w] = "FAILED" =>
            \/ master[w].masked
            \/ ~master[w].timed /\ (master[w].stopped # "no" => report[w].status = "absent")

\* A node that failed with a recorded status does not end the others: the exit
\* status of the measurement is missing only after a deadline, a signal, a changed
\* source, a failure of mpirun or of git themselves, or with a rank that left no
\* record.
FailureStaysLocal ==
    \A w \in Waves :
        report[w].status # "absent" /\ report[w].mpi = "none" =>
            \/ master[w].timed \/ master[w].stopped = "early" \/ ~CleanSource(w)
            \/ master[w].broke
            \/ \E r \in Ranks : rank[w][r] = "1" /\ node[w][r].status = "absent"
=================================================================================
