------------------------------- MODULE SiriusSmoke -------------------------------
(***************************************************************************)
(* The smoke job of prebuilt Sirius artifacts, amd_smoke.main: the gate of *)
(* an approved packet, the proof of the retained build, and the campaigns  *)
(* that run its benchmarks.  The focused smoke runs some libraries with    *)
(* two cases each and stops at the first failure; the diagnostic smoke     *)
(* runs all of them, goes on after a failed row and traces the loader,     *)
(* twice before the campaigns it then compares with what it saw.           *)
(*                                                                         *)
(* disk holds the versions of the proof's files and of the libraries; any  *)
(* of them can be replaced between two steps, and is then never put back.  *)
(* A child's command runs between two steps as well.                       *)
(***************************************************************************)
EXTENDS SmokeRecords, ChildProcesses

CONSTANTS Libraries,    \* the families, in the order of the suite
          Configured,   \* profile -> the dependencies its build metadata names
          Builds,       \* what the retained evidence may say of the build
          Links,        \* what the build may have recorded of its links
          Rows,         \* what a benchmark may write
          Controllers,  \* processes started with the same packet
          Faults        \* bound: signals, failures, replaced files

ASSUME SmokeAssumption ==
    /\ Libraries \in Seq(DOMAIN CpuProvider) /\ Libraries # <<>>
    /\ DOMAIN Configured = Range(Profiles)
    /\ Rows \subseteq RowKinds /\ Verified \in Rows
    /\ Faults \in Nat /\ Controllers # {}

VARIABLES
    disk,      \* versions of the proof's files and of the libraries now
    build,     \* what the retained evidence says of the build and of its links
    gate,      \* controller -> how far it got
    job,       \* the controller that made the smoke directory
    observed,  \* diagnostic: [item, threads] -> the objects the child initialised
    history,   \* what the children read (not part of the program)
    faults

vars == <<disk, build, gate, job, observed, history, faults>>

Versions == 0 .. Faults

\* In the order of the first and of the second inspection.  The links are the one
\* file of the build whose hash nobody approved.
ProofFiles == <<"evidence", "source", "logs", "binaries", "links", "harness">>
SecondLook == <<"evidence", "logs", "binaries", "links", "source", "harness">>
Files == Range(ProofFiles)
Libc == Dep("libc", 0)
LibraryFiles == {Libc} \cup UNION {Configured[p] : p \in DOMAIN Configured}

\* campaign_configs; the diagnostic smoke runs two of the four before.
Campaign(name, threads, diagnostic) ==
    [name |-> name, threads |-> threads, diagnostic |-> diagnostic]
Finals == <<Campaign("serial-jsonl", 1, FALSE), Campaign("serial-csv", 1, FALSE),
            Campaign("threaded-jsonl", 2, FALSE), Campaign("threaded-csv", 2, FALSE)>>
Diagnostics == <<Campaign("serial-jsonl", 1, TRUE), Campaign("threaded-jsonl", 2, TRUE)>>
Campaigns == [focused \in BOOLEAN |-> IF focused THEN Finals ELSE Diagnostics \o Finals]

\* The second case of a focused library is its own; both orders are the runner's.
Schedules == [focused \in BOOLEAN |->
    BuildSchedule(Libraries, IF focused THEN 2 ELSE 1)]
Entries == [k \in 1 .. Len(Libraries) * 6 |->
    [library |-> Libraries[1 + ((k - 1) \div 6)],
     implementation |-> Profiles[1 + (((k - 1) % 6) \div 2)],
     role |-> IF k % 2 = 1 THEN "benchmark" ELSE "example"]]

Init ==
    /\ disk = [file |-> [f \in Files |-> 0], lib |-> [n \in LibraryFiles |-> 0]]
    /\ build \in [evidence : Builds, links : Links]
    /\ gate = [c \in Controllers |-> "outside"]
    /\ job \in {[at |-> "start", focused |-> f, look |-> 1, next |-> 1, seen |-> disk.file,
                 proof |-> <<>>, code |-> <<>>, campaign |-> 0, failed |-> FALSE,
                 good |-> TRUE, error |-> "none", timed |-> FALSE, status |-> "none",
                 exit |-> "none"] : f \in BOOLEAN}
    /\ observed = <<>>
    /\ history = [instant |-> <<>>, stopped |-> FALSE, masked |-> FALSE,
                  last |-> [p \in Range(Profiles) |-> <<>>],
                  before |-> [p \in Range(Profiles) |-> {}], rows |-> {}, calls |-> 0,
                  binaries |-> {}]
    /\ faults = 0

Approved(f) == f = "links" \/ disk.file[f] = 0
Fault == faults < Faults /\ faults' = faults + 1
At(s) == job.at = s
Goes(j, s) == job' = [j EXCEPT !.at = s]
Job(j, s) == Goes(j, s) /\ UNCHANGED <<disk, build, gate, observed, history>>
\* A check that holds or leads to the except clause of main; it may always fail
\* for a reason the model leaves out.
Check(condition, j, s) ==
    \/ condition /\ Job(j, s) /\ UNCHANGED faults
    \/ /\ Job([job EXCEPT !.error = "other"], "except")
       /\ \/ ~condition /\ UNCHANGED faults
          \/ condition /\ Fault

-----------------------------------------------------------------------------
(* The gate.                                                               *)

Root == ~At("start")    \* the smoke directory exists
Enters(c, s) == gate' = [gate EXCEPT ![c] = s] /\ UNCHANGED <<disk, build, observed, history>>

\* validate_packet: nothing is run or written before it returns.
PassGate(c) ==
    /\ gate[c] = "outside" /\ ~Root /\ Approved("harness")
    /\ Enters(c, "passed")
    /\ UNCHANGED <<job, faults>>

RefusePacket(c) ==
    /\ gate[c] = "outside"
    /\ \/ (Root \/ ~Approved("harness")) /\ UNCHANGED faults
       \/ Fault
    /\ Enters(c, "refused")
    /\ UNCHANGED job

\* The directory is made exclusively; the second to get here has an exception.
MakeRoot(c) ==
    /\ gate[c] = "passed" /\ ~Root
    /\ Enters(c, "inside")
    /\ Goes(job, "proof")
    /\ UNCHANGED faults

LoseRace(c) ==
    /\ gate[c] = "passed" /\ Root
    /\ Enters(c, "broken")
    /\ UNCHANGED <<job, faults>>

-----------------------------------------------------------------------------
(* verify_prebuilt_source, before and after.                               *)

First == job.proof = <<>>
ThisFile == IF job.look = 1 THEN ProofFiles[job.next] ELSE SecondLook[job.next]

\* What is read must say that the build is complete.
Convincing(f) ==
    CASE f = "logs" -> CompleteBuild(build.evidence)
      [] f = "links" -> CommandProves(build.links.command)
      [] OTHER -> TRUE

\* Mutant of LookAgain: the second inspection is left out.
LookAgainNever ==
    /\ At("proof") /\ job.look = 2 /\ job.next <= Len(ProofFiles)
    /\ Job([job EXCEPT !.next = Len(ProofFiles) + 1], "proof")
    /\ UNCHANGED faults

LookFirst ==
    /\ At("proof") /\ job.look = 1 /\ job.next <= Len(ProofFiles)
    /\ Check(Approved(ThisFile) /\ Convincing(ThisFile),
             [job EXCEPT !.seen[ThisFile] = disk.file[ThisFile], !.next = @ + 1], "proof")

TurnBack ==
    /\ At("proof") /\ job.look = 1 /\ job.next > Len(ProofFiles)
    /\ Goes([job EXCEPT !.look = 2, !.next = 1], "proof")
    /\ history' = [history EXCEPT !.instant = disk.file]
    /\ UNCHANGED <<disk, build, gate, observed, faults>>

LookAgain ==
    /\ At("proof") /\ job.look = 2 /\ job.next <= Len(ProofFiles)
    /\ Check(disk.file[ThisFile] = job.seen[ThisFile], [job EXCEPT !.next = @ + 1], "proof")

\* The proof; the one after the campaigns must equal the first.
Prove ==
    /\ At("proof") /\ job.look = 2 /\ job.next > Len(ProofFiles)
    /\ LET j == [job EXCEPT !.look = 1, !.next = 1]
       IN  IF First THEN Check(TRUE, [j EXCEPT !.proof = job.seen], "import")
                    ELSE Check(job.seen = job.proof, j, "harness")

-----------------------------------------------------------------------------
(* execute, up to the campaigns.                                           *)

DependenciesIntact(p) == Unchanged(Configured[p], disk.lib)
Artifact(e) == LinkProves(e, build.links, Configured[e.implementation])
               /\ Required(e) \subseteq Configured[e.implementation]
               /\ Unchanged(Selected(e, Configured[e.implementation]), disk.lib)

\* load_pinned_runner and the helpers: the code of the rest of the job.
Import ==
    /\ At("import")
    /\ Check(TRUE, [job EXCEPT !.code = disk.file], "link")

\* validate_manifest_artifacts and preflight_link_evidence, for every artifact
\* before the first child, and the four complete schedules.
Preflight ==
    /\ At("link")
    /\ Check(/\ Approved("binaries") /\ \A p \in Range(Profiles) : DependenciesIntact(p)
             /\ \A k \in DOMAIN Entries : Artifact(Entries[k]),
             job, "resolve")

\* A child ends usably or the job does: Processes.run raises after any other exit.
Child(o, j, s) ==
    IF o = "ok" THEN Goes(j, s) /\ UNCHANGED faults
    ELSE Goes([job EXCEPT !.error = "other", !.timed = o = "timeout"], "except") /\ Fault

\* ldd of one artifact: what it resolves is hashed, and what was configured is there.
Resolve ==
    /\ At("resolve") /\ job.next <= Len(Entries)
    /\ LET e == Entries[job.next]
           bound == Artifact(e) /\ Bound(e, Configured[e.implementation], disk.lib)
       IN  \/ bound /\ \E o \in Outcome : Child(o, [job EXCEPT !.next = @ + 1], "resolve")
           \/ ~bound /\ Goes([job EXCEPT !.error = "other"], "except") /\ UNCHANGED faults
    /\ UNCHANGED <<disk, build, gate, observed, history>>

Resolved ==
    /\ At("resolve") /\ job.next > Len(Entries)
    /\ Check(TRUE, [job EXCEPT !.next = 1], "example")

LoadedBy(a) == [n \in Elf(Selected(a, Configured[a.implementation])) \cup {Libc} |-> disk.lib[n]]

\* Only the diagnostic smoke reads a child's trace.
TraceVerdicts(objects) ==
    IF job.focused THEN {TRUE} ELSE {TraceAccepted(t) : t \in Traces(DOMAIN objects)}

\* What it asks of the objects a child initialised.
Proves(e, objects) ==
    /\ Approved("binaries") /\ Artifact(e)
    /\ Bound(e, Configured[e.implementation], objects)

RunExample ==
    /\ At("example") /\ job.next <= Len(Entries)
    /\ LET e == Entries[job.next]
           j == [job EXCEPT !.next = @ + 1]
       IN  IF e.role # "example" THEN Goes(j, "example") /\ UNCHANGED faults
           ELSE \/ /\ ~Approved("binaries") \/ (~job.focused /\ ~Proves(e, LoadedBy(e)))
                   /\ Goes([job EXCEPT !.error = "other"], "except") /\ UNCHANGED faults
                \/ /\ Approved("binaries")
                   /\ job.focused \/ Proves(e, LoadedBy(e))
                   /\ \E o \in Outcome, accepted \in TraceVerdicts(LoadedBy(e)) :
                         Child(IF accepted THEN o ELSE "bad", j, "example")
    /\ UNCHANGED <<disk, build, gate, observed, history>>

ExamplesDone ==
    /\ At("example") /\ job.next > Len(Entries)
    /\ Check(TRUE, [job EXCEPT !.next = 1, !.campaign = 1], "item")

-----------------------------------------------------------------------------
(* execute_campaign.                                                       *)

Schedule == Schedules[job.focused]
Item == Schedule[job.next]
Current == Campaigns[job.focused][job.campaign]

\* Mutant of Key: both scopes of an artifact share one observation.
KeyOfArtifact == [item |-> [Item EXCEPT !.scope = "both"], threads |-> Current.threads]

Key == [item |-> Item, threads |-> Current.threads]

\* The runner and its adapter hash the dependencies of the item's profile and its
\* binary; a difference ends the campaign with rows that say so.
CheckItem ==
    /\ At("item") /\ job.next <= Len(Schedule)
    /\ Check(DependenciesIntact(Item.implementation) /\ Approved("binaries"), job, "launch")

\* What the adapter asks of a traced child: the objects of the diagnostic campaign.
TracedRun(objects) ==
    /\ Proves(Item, objects)
    /\ IF Current.diagnostic THEN Key \notin DOMAIN observed
       ELSE Key \in DOMAIN observed /\ observed[Key] = objects

Remembers(objects, row) ==
    history' = IF Current.diagnostic THEN history ELSE
        [history EXCEPT !.last[Item.implementation] = objects, !.rows = @ \cup {row},
            !.before[Item.implementation] = @ \cup ({history.last[Item.implementation]} \ {<<>>}),
            !.calls = @ + 1, !.binaries = @ \cup {disk.file["binaries"]}]

WithKey(objects) ==
    [k \in DOMAIN observed \cup {Key} |-> IF k = Key THEN objects ELSE observed[k]]

\* The child loads its libraries and writes its rows.
RunItem ==
    /\ At("launch")
    /\ LET objects == LoadedBy(Item)
           fails(row) == ~RunnerAccepts(row) \/ row.status = "failure"
           goes(row) == IF job.focused /\ fails(row)
                        THEN Goes([job EXCEPT !.error = "other"], "except")
                        ELSE Goes([job EXCEPT !.next = @ + 1, !.failed = @ \/ fails(row),
                                              !.good = @ /\ SmokeAccepts(row)], "item")
       IN  \/ \E o \in Outcome \ {"ok", "bad"} :
                 Child(o, job, "item") /\ UNCHANGED <<observed, history>>
           \/ \E row \in Rows, accepted \in TraceVerdicts(objects) :
                 IF accepted /\ (job.focused \/ TracedRun(objects))
                 THEN /\ goes(row) /\ Remembers(objects, row)
                      /\ observed' = IF Current.diagnostic THEN WithKey(objects) ELSE observed
                      /\ IF row = Verified THEN UNCHANGED faults ELSE Fault
                 ELSE /\ Goes([job EXCEPT !.error = "other"], "except")
                      /\ UNCHANGED <<observed, history>>
                      /\ IF TracedRun(objects) THEN Fault ELSE UNCHANGED faults
    /\ UNCHANGED <<disk, build, gate>>

\* The exit status of the runner, the number of calls, and validate_smoke_rows.
EndCampaign ==
    /\ At("item") /\ job.next > Len(Schedule)
    /\ Check(~job.failed /\ job.good,
             [job EXCEPT !.next = 1, !.campaign = @ + 1],
             IF job.campaign < Len(Campaigns[job.focused]) THEN "item" ELSE "set")

\* validate_campaign_set, and the second proof.
CombineSet ==
    /\ At("set")
    /\ Check(TRUE, [job EXCEPT !.next = 1], "proof")

CheckHarness ==
    /\ At("harness")
    /\ Check(Approved("harness"), job, "complete")

-----------------------------------------------------------------------------
(* main.                                                                   *)

Complete ==
    /\ At("complete")
    /\ Job([job EXCEPT !.status = "SMOKE_COMPLETE"], "exit0")
    /\ UNCHANGED faults

ExitZero0 ==
    /\ At("exit0")
    /\ Job([job EXCEPT !.exit = "0"], "finally")
    /\ UNCHANGED faults

\* Mutant of Except: only a signal that no child met makes the outcome unknown.
ExceptSignal ==
    /\ At("except")
    /\ Job([job EXCEPT !.status = IF job.error = "stop" THEN "UNKNOWN" ELSE "FAILED"],
           "finally")
    /\ UNCHANGED faults

\* FAILED from the start, unless a signal or a record of a child says unknown.
Except ==
    /\ At("except")
    /\ Job([job EXCEPT !.status = IF job.error = "stop" \/ job.timed THEN "UNKNOWN"
                                                                     ELSE "FAILED"],
           "finally")
    /\ UNCHANGED faults

\* summary.json, exclusively; the exit status is 1 unless it was set.
SaveSummary ==
    /\ At("finally")
    /\ Job([job EXCEPT !.exit = IF @ = "none" THEN "1" ELSE @], "left")
    /\ UNCHANGED faults

\* No summary: an exception leaves main.
SaveSummaryFails ==
    /\ At("finally") /\ Fault
    /\ Job([job EXCEPT !.status = "none", !.exit = "1"], "left")

-----------------------------------------------------------------------------
(* Signals and replacements.                                               *)

\* StopRequested between two steps; in a child it is a timeout.  Before the try is
\* left it leads to the except clause, with exit status 0 if that was set; in the
\* except clause the summary says what it said, FAILED at the start; in the finally
\* clause it may have been written.
Stop ==
    /\ job.at \notin {"start", "left"} /\ Fault
    /\ \/ /\ ~At("except") /\ (At("finally") => job.status = "SMOKE_COMPLETE")
          /\ Goes([job EXCEPT !.error = "stop"], "except")
          /\ history' = [history EXCEPT !.stopped = TRUE]
       \/ /\ At("except")
          /\ Goes([job EXCEPT !.status = IF @ = "none" THEN "FAILED" ELSE @, !.exit = "1"],
                  "finally")
          /\ history' = [history EXCEPT !.masked = TRUE]
       \/ /\ At("finally")
          /\ \E saved \in {job.status, "none"} :
                Goes([job EXCEPT !.status = saved, !.exit = "1"], "left")
          /\ UNCHANGED history
    /\ UNCHANGED <<disk, build, gate, observed>>

Replace ==
    /\ job.at # "left" /\ Fault
    /\ \/ \E f \in Files : disk' = [disk EXCEPT !.file[f] = @ + 1]
       \/ \E n \in LibraryFiles : disk' = [disk EXCEPT !.lib[n] = @ + 1]
    /\ UNCHANGED <<build, gate, job, observed, history>>

Next ==
    \/ \E c \in Controllers : PassGate(c) \/ RefusePacket(c) \/ MakeRoot(c) \/ LoseRace(c)
    \/ LookFirst \/ TurnBack \/ LookAgain \/ Prove \/ Import \/ Preflight
    \/ Resolve \/ Resolved \/ RunExample \/ ExamplesDone
    \/ CheckItem \/ RunItem \/ EndCampaign \/ CombineSet \/ CheckHarness
    \/ Complete \/ ExitZero0 \/ Except \/ SaveSummary \/ SaveSummaryFails
    \/ Stop \/ Replace

Spec == Init /\ [][Next]_vars

-----------------------------------------------------------------------------
(* Properties.                                                             *)

Places == {"start", "proof", "import", "link", "resolve", "example", "item", "launch",
           "set", "harness", "complete", "exit0", "except", "finally", "left"}

\* Every variable keeps the shape the code gives it.
TypeOK ==
    /\ disk \in [file : [Files -> Versions], lib : [LibraryFiles -> Versions]]
    /\ build \in [evidence : Builds, links : Links]
    /\ gate \in [Controllers -> {"outside", "passed", "refused", "inside", "broken"}]
    /\ job.at \in Places /\ job.look \in {1, 2} /\ job.next \in 1 .. Len(Schedule) + 1
    /\ job.seen \in [Files -> Versions] /\ job.campaign \in 0 .. Len(Campaigns[job.focused]) + 1
    /\ job.error \in {"none", "other", "stop"} /\ job.exit \in {"none", "0", "1"}
    /\ job.status \in {"none", "SMOKE_COMPLETE", "FAILED", "UNKNOWN"}
    /\ DOMAIN observed \subseteq [item : Range(Schedule), threads : {1, 2}]
    /\ faults \in 0 .. Faults

\* One packet makes one attempt: of all the controllers that passed its gate, at
\* most one ever works, and none starts after a directory is there.
OneAttempt == Cardinality({c \in Controllers : gate[c] = "inside"}) <= 1

\* Once a smoke is complete, every invocation of the four campaigns ran, with code
\* and binaries of the proof and numbers within the configured bounds, whatever the
\* benchmark said of them.  What the children loaded was, in the diagnostic smoke,
\* the same all along and as configured; in the focused one nothing looks at a
\* library after a profile's last invocation, nor ever at one the loader adds.
\* And it is the work of one controller, whatever others were started for its packet.
SmokeIsProved ==
    /\ OneAttempt
    /\ job.status = "SMOKE_COMPLETE" =>
        /\ CompleteBuild(build.evidence)
        /\ history.calls = Len(Finals) * Len(Schedule) /\ history.binaries = {0}
        /\ \A row \in history.rows : row.metrics = "within" /\ row.status = "success"
        /\ job.code = job.proof
        /\ LET before == UNION {history.before[p] : p \in Range(Profiles)}
               last == {history.last[p] : p \in Range(Profiles)}
               configured(loads) == \A o \in loads : \A n \in DOMAIN o \ {Libc} : o[n] = 0
           IN  IF job.focused THEN configured(before)
               ELSE /\ configured(before \cup last)
                    /\ \A o, q \in before \cup last : o[Libc] = q[Libc]

\* The files a proof describes were as it says at one instant, although they are
\* read one after the other while anyone may write them; and the second proof
\* finds them as they were at the instant of the first.
ProofIsOneInstant ==
    job.proof # <<>> /\ job.error = "none" /\ ~At("proof") =>
        job.proof = history.instant

\* A smoke whose checks a signal or a time limit ended is never recorded as FAILED,
\* unless a signal meets the handling of the first or of the limit, and no other end
\* is UNKNOWN; exit status 0 is left by a complete smoke, or by one that a signal met
\* between its completion and its summary.
StopIsUnknown ==
    At("left") =>
        /\ job.status = "FAILED" => history.masked \/ (~history.stopped /\ ~job.timed)
        /\ job.status = "UNKNOWN" => history.stopped \/ job.timed
        /\ job.exit = "0" =>
              job.status = "SMOKE_COMPLETE" \/ (job.status = "UNKNOWN" /\ history.stopped)
=================================================================================
