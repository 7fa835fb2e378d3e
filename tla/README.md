# Verification of gpu-library-suite

TLA+ models of the parts of gpu-library-suite whose correctness depends on the
order of steps: what survives a crash, a lost connection, a benchmark that dies
between two rows, two invocations at once, a file replaced between its check and
its use. They are checked with TLC on small
instances. The safety of all of them (the probe transport, the suite runner, a Pegasus
wave and campaign, the Sirius build, smoke and production), with the two refinements, is
proved with TLAPS for instances of any size.

* Sections 1 and 2: the system's components and the plan.
* Section 3: the modules and how they correspond to the code.
* Section 4: the runs, their bounds, the fairness.
* Section 5: the proofs.
* Section 6: findings. Section 7: what is not modelled.

## 1. Inventory

The suite builds benchmark executables (CUDA, HIP, OpenACC, OpenMP, Fortran and
CPU implementations of the same library calls), launches them in a prescribed
order on every node of a batch job, collects one raw result file per node,
validates the campaign and aggregates it. Two sites are supported: Pegasus
(NQSV batch, bash and Python scripts) and Sirius (PBS, a Python controller and
an ssh probe transport with a durable ledger).

```
 prepare_wave / amd_production --> node script / worker --> run_suite (runner)
                                                              |  pipe, one process per invocation
                                                              v
                                                        benchmark executable
 raw-results.{jsonl,csv} --> collect_results / collect_wave --> validate_results --> aggregate, plot
 remote.py (approve, probe) --ssh--> probe.sh on the Sirius login node
```

| Component | State it keeps | Operations | Interaction | Hard behaviour | What makes it correct |
|---|---|---|---|---|---|
| Probe transport (`jobs/sirius/remote.py`, `probe.sh`) | `ledger.json`, a lock file, a directory of logs per execution; an in-memory copy per invocation | initialize, approve, probe (direct or through a ControlMaster); approve and probe begin with a recovery | several command-line invocations share the store; ssh clients outlive a dead invocation | crash or failed write between any two saves; a client that never answers; a late answer after a timeout; two invocations | an approval pays for one session; nothing that ran is recorded as not run; decided records never change; an undecided outcome stops everything |
| Suite runner (`gpu_suite/runner.py`, `results_io.py`, `run_suite.py`) | position in the schedule, two flags, the raw file | skip, refuse, launch, accept rows, synthesize rows, stop | pipe from the benchmark, exclusive file read by every later stage | benchmark dies or strays anywhere; the runner is killed between rows; a failed write; a second run | each trial once, measured rows kept, one synthetic failure, a stop is final, exit status and validation tell the truth |
| Benchmark process (`benchmark.c`, `benchmark.hpp`, the `*_bench` mains, the Fortran bridge) | trial index, failure flag | set up, measure, verify, report unmeasured trials | stdout to the runner | a crash between a row and the rows it implies | rows in trial order, only skips after a fatal row |
| Campaign validator (`validation.py`) | none | validate | reads the files of all nodes | files of interrupted runs | accepts what a runner completes and nothing truncated |
| Ordering (`ordering.py`, `scheduler.py`) | none | permutation and size order per node and wave | schedule and validator compute it separately | off-by-one in index arithmetic | each implementation equally often first, both directions |
| Manifests (`manifest.py`, `merge_manifests.py`) | none | merge, validate | build to runner | duplicate or conflicting entries | a merge loses and invents nothing |
| Aggregation (`aggregation.py`) | none | select, count, summarise | after validation | failed or partial units | only complete units are summarised |
| Pegasus wave (`prepare_wave.py`, `run_benchmarks.pbs.in`, `run_node.sh`, `node_tools.py`, `collect_results.py`) | run and wave directories, a scratch directory per node | prepare, run, trap signals, collect, classify | MPI ranks on several nodes write into one shared directory | a signal during the run or during collection; which exit status survives | each node is published once, a failed node is seen as one |
| Sirius build and preparation (`amd_build.py`, `amd_prepare.py`) | one run root: rows of 36 slots, manifests per profile, the job summary; recorded versions of source, libraries, build trees | select AOCL, configure, build shared dependencies and targets, generate, certify, compare the source again, freeze inputs, resolve libraries | child processes under two deadlines; whoever writes to the trees it reads | an input replaced between check and use; a command that fails half way; a failure after everything was certified | BUILT and PREPARED stand for one approved source, one set of libraries, a complete build; a failure costs only what depends on it |
| Sirius smoke (`amd_smoke.py`, `amd_smoke_source.py`, `amd_smoke_evidence.py`, `amd_smoke_campaign.py`) | one exclusive directory, the proof of the build, observed libraries, the summary | gate, prove the build (twice), resolve, run examples and campaigns, judge rows, conclude | children traced through the loader; several controllers with one packet | files replaced while some hundred of them are read; a signal between completion and summary; a benchmark's own verdict | a complete smoke ran everything with the proved code and numbers within bounds; a stopped one is UNKNOWN |
| Sirius production (`amd_production.py`, `amd_wave.py`) | run root, two waves, node files, two statuses per wave, the adoption | observe, measure, collect, adopt, check the prior wave | MPI workers, a controller with timeouts, the job of the other wave | a worker's failure must not cancel the others, stop requests, ranks that outlive mpirun, a second wave after an unknown first | COMPLETE only over measured nodes; wave 1 only on a wave 0 that nobody doubts |
| C support (`result.c`, `json.c`, `cli.c`, `checked.c`, `clock.c`) | none | parse, check, serialise | linked into benchmarks | integer limits | no wrap, only valid rows |
| Benchmarks' numerics, telemetry, runtime inventory, plotting, CMake | - | - | - | floating point and I/O | not for a model checker |

The hazards of this code, each at its line with the properties that cover it,
are the list `hazards` of `PROJECT.json`.

## 2. Plan

1. **Probe transport** - done: `ProbeRecords`, `SiriusLedger`, the abstract
   `ProbeBudget`, proofs in `SiriusLedgerProofs`.
2. **Suite runner with benchmark and validator** - done: `TrialRecords`,
   `SuiteRunner`, the abstract `TrialMatrix`.
3. **Pegasus node and wave** - done: `NodeRecords`, `PegasusWave`, proofs in
   `PegasusWaveProofs`. **Campaign preparation** - done: `NodeOrdering`,
   `PegasusCampaign`, proofs in `PegasusCampaignProofs`.
4. **Sirius production** - done: `ChildProcesses`, `SiriusProduction` (master, ranks,
   collection, adoption, the gate between the waves).
5. **Sirius build and preparation** - done: `SiriusBuild`. **Sirius smoke** - done:
   `SmokeRecords`, `SiriusSmoke`.
6. **Proofs** - done: every invariant and action property of the runs, with
   `ImplementsBudget` and `ImplementsMatrix`. Open: an abstract specification of the two
   waves of a production, and the balance of schedules of other sizes.

## 3. Modules

### ProbeRecords, SiriusLedger, ProbeBudget

`ProbeRecords` holds the shape of the ledger (`approvals` and `executions`), the
rules `Store.validate` applies to it, and `Recover`, a pure function of the
ledger and the log sizes. `SiriusLedger` is the state machine:

* `created`, `lock`, `ledger`, `logs`, `output`, `checked` are the store on disk:
  how many objects `initialize` has made, the holder of the `flock`, the JSON
  file, the directories and the logs in them.
* `pc`, `mem`, `cur` are one command-line invocation: its next durable step, its
  copy of the ledger, the execution it works on.
* `client`, `remote` are the ssh client of each execution and the command on the
  login node; `launches` is history: sessions started per approval.

`Save` is `save_json`: it takes effect and returns, takes effect and raises (the
fsync of the directory), or raises first. Every `save` in the code is a step of
its own, so that `Crash` can fall between any two; everything between two saves
that only the process can see is one step. `ssh` clients survive a crash
(`OrphanEnds`), remote commands survive both (`RemoteEnds`). A wait ends by the
client's answer or by the code's timeout.

`ProbeBudget` is the promise: an approval goes from granted through at most one
session to a final phase, and an undecided one stops the others.
`ImplementsBudget` checks it under the mapping `Phase`.

Abstracted: digests are the size of the output they cover; the texts searched in
stderr are the classes of answer they lead to; identifiers are model values;
dry runs change nothing and are left out; the disk keeps
what a returned `fsync` promised (no power loss).

### TrialRecords, SuiteRunner, TrialMatrix

`TrialRecords` holds a row's state (trial, status, attempted, origin), the
schema's rules for it, the runner's functions from a benchmark's output to the
rows it writes (`Accepted`, `Contaminated`, `Synthetic`, `Materialized`), and the
validator's rules for one invocation. Every other field of a row is compared
with the plan by the runner, so a row is either as planned or `Junk`.

`SuiteRunner` is `execute_schedule` with the process it launches:

* `campaign` is the schedule with `continue_on_failure` and `output_format`, and
  the stray lines its benchmarks may write;
* `pc`, `item`, `pending`, `anyFailure`, `stop` are the runner's loop;
* `child`, `out` are the benchmark's main and what it has flushed;
* `file`, `exists` are the raw file, `exits` the exit status of each run;
* `history` remembers what each launched process wrote and how it ended.

`Collect` is the code after `subprocess.run` returns: it reads the whole output,
so the rows only reach the file afterwards, one `WriteRow` per flush. The
benchmark follows the common shape of the mains: reject its arguments, report
every trial unmeasured (`emit_unmeasured`), or loop over the trials, going on
after a failed verification and breaking off after a failed measurement; it can
die anywhere (`ChildDies`) and, in the campaigns that allow it, write wrong lines
(`ChildStrays`). `LaunchFails`, `Undecodable` and `WriteFails` are the exceptions
that leave `execute_schedule`; `Kill` is the batch system, `Rerun` a second
`run_suite` on the same output.

`ValidCampaign` is `validate_campaign` on the file as it stands, whether or not
the run has ended. `TrialMatrix` is the promise to readers of the file: a table
filled in order, never changed, quiet after a failure unless the campaign is
patient, and a pass only over a full table of successes.

### NodeRecords, PegasusWave

`NodeRecords` holds the constant part: the states a raw file can be in, how a
suite can end, `classify_raw` and `build_node_status` of `node_tools.py`, the shape
of `node-status.json` and of a node's directory, and what `collect_results.py`
demands of one node (`NodeAccepted`). `PegasusWave` is one measurement wave:

* `node` is each node's `run_node.sh`: where it is, the variables
  `runner_exit_code`, `process_exit_code` and `termination_signal` under short
  names, what its scratch directory holds, a TERM that is caught and not yet
  handled (`pending`), and a child that outlives its shell (`orphan`);
* `tree` is each node's directory on the shared file system. A file is absent,
  torn or whole;
* `placed` is the rank the measurement's mpirun gives each node, which need not be
  the `Rank` the preflight's mpirun gave it;
* `mpi` and `collector` are mpirun and the collector the job script runs after it;
  the collector reads and then hashes one node per step, in rank order.

| Code | Actions |
|---|---|
| set-up before the trap, existing directories | `SetUp`, `NoScratch` |
| metadata, suite, `runner_exit_code=$?`, `exit` | `WriteMetadata`, `MetadataFails`, `StartSuite`, `EndSuite`, `AssignRunnerExit`, `Leave` |
| `handle_signal` | `HandleSignal` |
| `collect_node` | `MakeNodeDirectory`, `NoNodeDirectory`, `Copy`, `CopyFails`, `WriteStatus`, `StatusFails`, `Finish` |
| signals, deaths, what goes on after them | `Term`, `Kill`, `OrphanEnds` |
| mpirun (external) | `MpirunAborts`, `MpirunEnds`, `MpirunLost` |
| `collect_results.py` | `StartCollector`, `ReadNode`, `StartHashing`, `HashNode`, `WriteManifest` |

bash runs a trap between two commands, so a TERM during the suite waits for it and
is handled *before* `runner_exit_code=$?`; `collect_node` begins by clearing the
traps, so a TERM during collection ends the shell at once, while `cp` or the status
tool may go on. Both facts are in the guards (`Caught`, `HandleSignal`, `Dies`).

Abstracted: until `cp -R` ends, every file it copies is torn, whichever of
absent, cut or whole it is (the collector treats a torn file as one it may have
read whole); a failed `cp` leaves any member of `Leftovers`. HUP and INT behave as
TERM. Telemetry and the GPU query add messages only. An existing node directory
is the failure of `mkdir` (`NoNodeDirectory`). `classify_raw` is a function of the
scratch file. The evidence the collector checks beside the nodes is one boolean.

### NodeOrdering, PegasusCampaign

`NodeOrdering` is `ordering.py`: the permutations, the index arithmetic, and the
counts `assignment_counts` and `multiwave_assignment_counts` make of them.
`PegasusCampaign` is what comes before a wave: jobs submitted with one run ID, each
in the job script's preflight or in `prepare_wave.py`, until it measures.

* `source` is the content of the source config and manifest, which `Edit` may
  change at any time;
* `job` is each job: where it is, and what it has read and hashed so far. `steady`
  is history: no source was edited while this job read them;
* `runRoot` is the run directory: who made it, how many of its four files are
  complete, what they hold, whether `waves` exists;
* `wave` is each wave directory: who made it, its metadata, and what its nodes
  measure with.

| Code | Actions |
|---|---|
| runtime environment of the preflight | `CollectRuntime` |
| the reads of config and manifest, one action per read | `LoadConfig`, `CheckConfig`, `LoadManifest`, `HashManifest`, `CheckManifest`, `HashConfig` |
| `run_root.exists()`, `_validate_existing_campaign` | `Look`, `Validate` |
| a new run directory | `MakeRunRoot`, `WriteRunFile` (four times), `MakeWaves` |
| the wave | `Enter`, `MakeWave`, `MakeNodes`, `WriteWaveMetadata` |
| the measuring mpirun | `Measure` |

`exists()` and the `mkdir` after it are two steps, so two jobs may both find a
directory absent; `mkdir` and the exclusive creation of files are what keeps them
apart. A job that fails or is killed is a job that takes no further step, which
the specification allows everywhere, since it assumes no fairness. An
incompletely written file counts as missing: it fails the same checks. A job reads
the metadata and the three files of an existing campaign in one step (`Validate`):
whoever could still change them is their creator, and a complete set never changes.

Abstracted: a content is a model value and its hash is itself; the runtime
environment is a host (what it probes there) and the manifest it was collected
for; its evidence, the build metadata and the Git provenance are read once, are
checked against these, and add no step that another job or an edit can disturb.

### ChildProcesses, SiriusProduction

`ChildProcesses` is `Processes` of `amd_smoke.py`, which production and smoke share:
how a child can end, and that no child is run after one that did not end with 0.
`SiriusProduction` is the two waves of a campaign:

* `disk` is the version of the input files and of the source tree now;
* `campaign`, `launch`, `prepared`, `node`, `report`, `status`, `summary`, `adoption`
  are the campaign directory; a node's files are the calls it made, the inputs they
  were made with (history), and its status;
* `plan` is the sealed request of each wave's job;
* `master` and `rank` are the processes: where they are, the exception on its way,
  whether a record says `timed_out`, `mpi_exit`.

| Code | Actions |
|---|---|
| `amd_wave.run` | `BeginWave`, `Place`, `SaveSummary` |
| `run_master` to the measurement | `Launch`, `LaunchFails`, `Preflight`, `PrepareWave`, `PrepareFails` |
| `run_worker`, `finish_worker_rank` | `StartRank`, `RefuseRank`, `Bench`, `StopRank`, `FinishRank`, `RankDies` |
| `run_master` after it, `collect_wave` | `MpiReturns`, `MpiStopped`, `Recheck` (with `ChildFails`), `Judge`, `SaveReport`, `SaveReportFails` |
| `run_master`, its `except` and `finally` | `Handle`, `SaveStatus`, `SaveStatusFails` |
| `adopt-wave0`, `check_prior_wave` | `AdoptDirectory`, `Adopt`, `CheckPriorWave` in the guards of `BeginWave`, `Launch`, `PrepareWave` |
| signals, deaths, replaced files | `Stop`, `Die`, `Replace`, `LoseEvidence` |

`Stop` is `StopRequested`, raised between any two steps; which clause it meets is
the step the master is at. One in `collect_wave` takes the place of the exception
that led there. One in the `except` clause of `run_master` leaves it for the
`finally`, which saves the status as it is: FAILED, if UNKNOWN was not yet assigned
(`masked` remembers this). One in the `finally` leaves `run_master`, before or after
its save.
Ranks go on after mpirun was stopped (`MpiStopped`). mpirun and the git children of the
second source check can also fail by themselves, whatever the ranks did
(`ChildFails`): not launchable, a non-zero exit of their own, a log over the limit;
`broke` remembers it. Abstracted: the rows of a node
are the outcomes of its calls; the checks of packet, placement and observations
are one check each that may fail; the clauses of `amd_wave.run` are one step, `SaveSummary`.

### SiriusBuild

One attempt of `amd_build.main`, with `amd_prepare.prepare` behind it in the clean
mode. `disk` holds the present versions of the source tree, of the CPU and GPU
libraries, of each configured profile and its binaries; `job` holds what the
process has recorded of them, in `before`, `aocl`, `libs`, `manifest`, `certified`,
`runtime`; `rows` are the slots of `job.slots`; `late` says which deadline has
passed. `madeFrom` is history: the source each binary was compiled from.

| Code | Actions |
|---|---|
| `execute`, set-up | `TakeEvidence`, `EvidenceFails`, `SetUp`, `SetUpFails` |
| `execute`, a profile | `StartProfile`, `SourceChanged`, `Configure`, `ConfigureFails` |
| `build_profile`, targets | `TryDependency`, `BlockTarget`, `TryTarget` (both with `AttemptBreaks`), `ProfileStops` |
| `build_profile`, certificates | `Generate`, `GenerateFails`, `Certify`, `CertifyFails` |
| `execute`, the end | `Combine`, `Conclude` |
| `main` | `BuildStatus`, `Demote` |
| `prepare` | `Freeze`, `ProvePlacement`, `Collect`, `Prepared`, `PreparationFails` |
| clocks and other writers | `Deadline`, `Replace` |

`attempt` catches the failure of a command only. What else `Build.run` raises after it (a
log that cannot be hashed or is no text, a record that cannot be written) ends the profile
with the exception clause of `execute`, and the targets not yet tried stay
NOT_ATTEMPTED: `AttemptBreaks`, which `job.broken` remembers per profile.
A replaced file is never put back: a hash could not tell. The parsing of CMake's
files, ELF headers and tool output is a check that may fail.

### SmokeRecords, SiriusSmoke

`SmokeRecords` is what the smoke job reads and believes: the planned schedule,
the libraries an artifact must name and the ones it was linked with
(`LinkProves`), the loader's trace of a child (`ParseTrace` and `TraceAccepted`, the
parser as a fold over the events of a trace), the numbers of a row (`SmokeAccepts`
beside `RunnerAccepts`), the retained evidence of the build (`CompleteBuild`).
`SiriusSmoke` is the job:

* `disk` and `build`: the versions of the files a proof reads and of the libraries, and
  what the evidence says;
* `gate`: each controller started with the packet, up to the exclusive directory;
* `job`: where it is, the inspection it is in (`look`, `next`, `seen`), the `proof`,
  the code it imported, the campaign, the exception, status and exit;
* `observed`: the objects the diagnostic campaign saw, per invocation and number of threads;
* `history`: what the children read.

| Code | Actions |
|---|---|
| `validate_packet`, `main` to the directory | `PassGate`, `RefusePacket`, `MakeRoot`, `LoseRace` |
| `verify_prebuilt_source` | `LookFirst`, `TurnBack`, `LookAgain`, `Prove` |
| `execute` to the campaigns | `Import`, `Preflight`, `Resolve`, `Resolved`, `RunExample`, `ExamplesDone` |
| `execute_campaign` and the adapter | `CheckItem`, `RunItem`, `EndCampaign` |
| `execute`, the end | `CombineSet`, `CheckHarness` |
| `main` | `Complete`, `ExitZero0`, `Except`, `SaveSummary`, `SaveSummaryFails` |
| signals, other writers | `Stop`, `Replace` |

The focused smoke stops at the first failed row and does not trace; the diagnostic
one goes on, traces every child, and runs two campaigns before the four whose
children it compares with what it saw. Abstracted: the files of one kind of
evidence are one file, read in one step.

## 4. What is checked

| Run | Instance | Result |
|---|---|---|
| `sirius_ledger` | 2 invocations, 2 approvals, 2 executions, 1 write of output, symmetric | the invariants and action properties of the transport, and `ImplementsBudget` |
| `sirius_live` | 2 invocations, 1 approval, 1 execution, no symmetry | the lock is always released |
| `sirius_stop` | as `sirius_ledger` | violated: finding 1 |
| `suite_runner` | 10 campaigns of no item to 3 items and 1 to 3 trials, two runs, strays in the first two lines | the runner's properties, `ImplementsMatrix`, and that every run ends |
| `suite_skip_origins` | the same campaigns without strays | violated: finding 2 |
| `suite_after_fatal` | the same campaigns without strays | violated: finding 3 |
| `pegasus_node` | 1 node, every end of the suite, every remainder of a failed `cp`, up to 3 signals or losses | the properties of a node's status and directory, and that the job comes to a manifest |
| `pegasus_wave` | 2 nodes, a passing and a failing end of the suite, 1 signal or loss | what the nodes mean to each other and to the collector |
| `pegasus_campaign` | 3 jobs, two of them for wave 0 and one for wave 1, 2 contents, 2 hosts, 1 edit, symmetric | the properties of a campaign; `Balanced` is an assumption of its MC module, evaluated for 1 to 13 nodes and waves 0 to 7 |
| `sirius_production` | two waves of 2 ranks with 1 call each, 1 signal, death, replacement or loss; failed checks and saves unbounded | what COMPLETE, FAILED and a passed collection stand for, when wave 1 may follow, that a node's failure ends no other |
| `sirius_build` | 2 of the 6 families in 3 profiles, with and without the preparation, 2 faults | what BUILT and PREPARED stand for and what a failure costs |
| `sirius_smoke` | 1 family, focused and diagnostic, 2 controllers (symmetric), 6 states of the evidence, 9 of the links, 6 kinds of row, 2 faults | what a complete smoke stands for, that a proof is one instant, how a stop is recorded |

**Why the bounds are enough.** Two invocations are needed for a race and a third
adds no step the second does not have, since all but `initialize` hold the one
lock; two approvals and executions are needed for one undecided outcome to
stand in the way of another, and for an approval to be tried twice. One write
of output tells an empty log from one that has changed. For the runner, three
trials in one invocation give a measured row, a failure and a row after it;
two or three items give every kind of item before and after one that
runs; no item is the configuration with every benchmark disabled; trials of different invocations interact through `anyFailure` and `stop`
only. `MaxOutput` bounds the lines after which a benchmark no longer strays:
two give a wrong line first, last, and before a right one. `MaxRuns = 2` gives
the second run. In the wave, nodes meet in mpirun (one failure ends the others) and in the
collector (all must be acceptable) only, so two show both; what one node can do
to itself does not depend on the others, and `pegasus_node` covers it in full:
three interruptions are a caught TERM, a second one that kills, and the loss of
mpirun while the orphan still writes. `Interrupts` bounds what comes from
outside; the signals of an aborting mpirun are not counted. The proofs of
section 5 hold for any number of nodes and interruptions. In the campaign, three
jobs give the creator, a job that races it for the directory and for the same
wave, and one of another wave; `Edits = 1` puts one change between any two reads of
any job, and two contents and two hosts tell every part of the identity from
another. The proofs hold for any number of each. In the production campaign, two ranks
give the failed node and one that must not suffer from it, which is also the most an
adoption allows; what ends a rank, fails a check or a save is free, and
`Faults = 1` bounds only what comes from outside, so that each such event meets each
step of both waves. In the build, a family with an AOCL provider and one with the
OpenMP wrapper give every kind of shared dependency and every reason for a blocked
target, and two faults a failure and its consequence, or an input replaced in a
job that also fails. In the smoke, one family has six artifacts, two scopes and all three
profiles, and twelve calls in a focused campaign; families meet only in the order of the schedule.
Two faults are a replaced file and a signal, two signals, or two replaced files.

**Deadlock** is not checked: a store that `initialize` left half made, and one
whose logs a crash left without a record, really do refuse everything from then
on, and a finished run, wave or campaign has no next step. `LockReleased` and `EveryRunEnds` say
that nothing stops where it should not.

**Fairness.** `SiriusLedger`: an invocation that lives and holds the lock keeps
running (weak fairness of `Proceed`). No client, remote command or waiting
invocation is assumed to make progress: the code's timeouts are part of
`Proceed`. `SuiteRunner`: the runner's loop and the benchmark's own code keep
running. The benchmark's fairness is an assumption about the benchmarks and not
something the runner enforces: `subprocess.run` has no timeout there, and a hung
benchmark ends with the batch job (`Kill`, of which nothing is assumed). `PegasusWave`: a
shell that lives goes on, with the same assumption about its suite; mpirun
returns once its processes have; the job script runs its collector. No signal,
no orphan and no abort is assumed to happen. `PegasusCampaign`,
`SiriusProduction`, `SiriusBuild` and `SiriusSmoke` assume none: their properties are all
of safety, and an attempt that dies is one that takes no further step.

**What the properties say.** Each is stated in the comment before it, in the
section "Properties" of its module; where a property is a conjunction, its parts
are definitions of their own.

* Transport: `AtMostOneLaunch`; `LaunchOnRecord` (the code never writes a ledger its own
  `validate` refuses, nothing that ran is counted as zero, alive-evidence is kept, the
  master's report is honest); `OutcomeIsTrue` (confirmed outcomes happened, their
  evidence does not change); `SerializedUnlessStopped`, `NeverRewritten`,
  `ImplementsBudget`, `LockReleased`.
* Runner: `TrialsAccounted` (each trial once, measured rows kept, at most one invented
  failure), `CompleteIsValid` (a broken run's file is rejected, a complete one's only
  for findings 2 and 3), `PassIsMeasured`, `StopIsFinal`, `ImplementsMatrix`,
  `EveryRunEnds`.
* Pegasus wave: `SuccessIsMeasured`, `StatusSealsTree`, `AcceptedForGood` (an accepted node
  is measured, and the manifest stays true of it), `FailureStaysLocal`,
  `ManifestWritten`. Campaign: `OneWriter`, `OneIdentity`, `MeasuredAsRecorded`,
  `RefusedForCause`.
* Production: `CompleteIsMeasured`, `NextWaveJustified`, `CollectedIsJudged`,
  `StopIsUnknown`, `FailureStaysLocal`. Build: `BuiltIsCertified` (with `NoSubstitute`),
  `NothingSkipped`, `PreparedIsBuilt`. Smoke: `SmokeIsProved` (with `OneAttempt`),
  `ProofIsOneInstant`, `StopIsUnknown`.

Every property has a mutant of a modelled definition, kept beside it and
named for the mistake, that breaks it.

`PassIsMeasured` has no converse: a benchmark that reports every trial as a
success and then ends with a bad status leaves a file that validates as a pass
under a run that exits with 1. Only the exit status tells. `run_node.sh` hands that
status to `build_node_status`, and `SuccessIsMeasured` shows what for: a suite that
is killed between two rows leaves successes only.

`StopIsUnknown`, in both modules, names the exceptions of the rule. In the smoke, a
signal between the assignment of the exit code and the end of the `try` gives the status
UNKNOWN with exit status 0. In production, a save of the collection that fails after a
signal replaces the signal's exception, and the wave is FAILED. In both, so does a
signal in the `except` clause, before UNKNOWN is assigned. The clause may be
handling a failure, a deadline or an earlier signal: the `finally` saves the FAILED the run
began with. A wave 0 left this way can be adopted if its collection qualifies:
`NextWaveJustified` therefore promises that no signal and no deadline touched the
measurement and its collection, not that wave 0 met none at all.

`FailureStaysLocal` of production does not say that a lost exit status is the
fault of a rank without a record: mpirun and git can fail by themselves (`broke`). It says
that a rank *with* a recorded failure is never the cause. In the same way `NothingSkipped`
excludes that one target's failed command costs another target; an exception outside of a
command (`broken`) may.

`SuccessIsMeasured` allows a success without a row to a suite that ended with 0: with
every benchmark disabled in the configuration nothing is planned, and the node calls that a
success. The collector does not (`NodeAccepted`), so `AcceptedForGood` needs all rows.

`SmokeIsProved` claims less of the focused smoke than of the diagnostic one: nothing
looks at a library after a profile's last invocation, and nothing ever at a library
that only the loader adds.

`MeasuredAsRecorded` excuses one case: `prepare_wave.py` takes the config's bytes
(line 238) and its hash (line 256) in different reads. If the config is edited
between them, the creator of a campaign stores the one and records the other, its
rows carry a hash that its metadata does not, and every later wave is refused
(`_validate_existing_campaign`). A job that joins is not exposed: it compares what
it read with the stored files. `OneIdentity` and `OneWriter` hold in this case too.

`RefusedForCause` also says what a dead creator leaves: a run directory without
`waves`, which refuses every later job of that run ID.

## 5. What is proved

`SiriusLedgerProofs` proves, for any sets of invocations, approvals and
executions, from the assumptions that `Null` is none of their elements:

* `TypeCorrect`: `Spec => []TypeOK`;
* `BudgetKept`: `Spec => []AtMostOneLaunch`;
* `Invariance`: `Spec => []Inductive`, from which both follow.

`AtMostOneLaunch` is not inductive: nothing in it says why a launch happens only
when the count is zero. The argument of the code is that the approval was seen
unused on a copy of the ledger that is still current, that the reservation is on
disk before the launch, and that nobody else writes in between. `Inductive` says
so: only the lock's holder is between acquisition and release (`Exclusive`), one
process fills the store (`OneCreator`), the copy equals the disk until the
reservation (`CopyFresh`) and differs from it in the record in hand only
afterwards (`ProbeCopy`), and every launch is accounted for by a record on disk
(`Accounted`). The steps of a probe have three shapes (an update in memory, a
save with its three outcomes, a decision), and each shape has a lemma
(`UpdateStep`, `SaveStep`, `GotoStep`) on top of `ProbeStep`; the lemma of an action
only shows which shape it is.

`PegasusWaveProofs` proves, for any finite set of nodes and any injective `Rank`,
any subset of the ends of a suite, any remainders of a failed `cp` and any number
of interruptions (`WaveAssumption`):

* `TypeCorrect`: `Spec => []TypeOK`;
* `Sealed`: `Spec => StatusSealsTree`;
* `SuccessMeasured`, `AcceptedStays`: `SuccessIsMeasured` and `AcceptedForGood` always hold,
  the latter from `AcceptedMeasured` and `ManifestCurrent` for its two parts;
* `Invariant`: `Spec => []IInv`, from which all follow.

That a readable status seals its directory needs to know who can still write
there: a live shell before `finishing`, or an orphan, which only a dead shell has.
`NodeInv` says that a readable status excludes both, that `runner_exit_code` is 0 only
after a suite that ended with 0, that a copy which succeeded is whole and
stays so, and that the status tells the truth about the variables it was made
from (`SaysTrue`). `CollectorInv` says that every node the collector has read and
every directory it has hashed is still as it was then. It is preserved because
an acceptable node has a readable status, so `SealedStep` applies: it needs no
assumption that mpirun waited for its processes. Steps of one node leave the
others alone (`Others`, `Framed`), so each action is examined for its own node
only: `MeasuringKeepsInv` while nothing is published, `CollectingKeepsInv` after
that, `SignalKeepsInv` at any time.

`PegasusCampaignProofs` proves, for any set of jobs and waves, any contents, hosts
and number of edits (`CampaignAssumption`):

* `TypeCorrect`, `Exclusive`, `Identical`, `Recorded`: `TypeOK`, `OneWriter`,
  `OneIdentity` and `MeasuredAsRecorded` always hold;
* `Causes`: `Spec => RefusedForCause`;
* `Invariant`: `Spec => []IndInv`, from which all follow.

`OneIdentity` relates waves to the run directory, but a wave takes its identity
from its job, so `IndInv` has to say what the job knows: one that is inside the
campaign has the identity the run directory records (`JobInv`), since it wrote it or
compared it, and the record never changes because `mkdir` succeeds once. `Reads` says
what the reads of an unedited job are worth, `RunRootInv` that the copies of a
steady creator have the recorded hashes, and `WaveInv` carries both over to the
waves. Steps before the campaign need only `Reads` (`OutsideKeeps`), the steps in a
wave only their own wave (`WaveStep`).

It also proves `TwoWavesBalance` of `NodeOrdering`, for any two consecutive waves: the node
that runs a permutation moves by one from wave to wave, so its parity, and with it
the size order, changes.

`SiriusRecordProofs` proves the rest of the transport's safety, from the same
assumptions:

* `RecordsHonest`, `OutcomeTrue`, `Serialized`: `LaunchOnRecord`, `OutcomeIsTrue` and
  `SerializedUnlessStopped` always hold;
* `DecidedStays`: `Spec => NeverRewritten`;
* `BudgetImplemented`: `Spec => ImplementsBudget`;
* `RecordsSound`: `Spec => []Sound`, from which they follow together with `Inductive`.

A crash, or a save that raises after it took effect, leaves on disk whatever record
the probe had in hand, so every record a probe ever has must be one that may stay. `Sound`
says what that means. `Shape` gives the counters of a record at each step of a probe,
`Fits` what a record may say of an execution with that client and that remote
command, and `ShapeFits` derives the second from the first. `DiskOK` asks `Fits` of every
record on disk, whoever wrote it, and `OneUndecided` says that the undecided one is
alone. `NeverRewritten` is then a matter of who writes: only the execution in hand,
whose record is still pending (`Probing`), and recovery, which touches undecided records
only. For the refinement each step of the ledger is a step of `ProbeBudget` for
the approval in hand or a stutter (`Phase` depends on the records and the number of
launches only).

`SuiteRunnerProofs` proves, for any schedule, any strays and any number of runs
(`RunnerAssumption`):

* `TypeCorrect`, `TrialsAreAccounted`, `StopsAreFinal`, `PassesAreMeasured`,
  `CompleteFilesAreValid`: the five invariants of the run `suite_runner`;
* `MatrixImplemented`: `Spec => ImplementsMatrix`;
* `Invariance`: `Spec => []Inductive`, from which all follow.

`Inductive` rests on one picture of the raw file: what is there of an item is a beginning
of what the runner made of that item's output (`Whole`, `Filed`), items are in order
and only the last line can be torn (`InOrder`). `AtFrontier` says that file and
`pending` together are the whole of the item at hand, and that nothing is known of the
items to come. `Standing` says what `anyFailure` and `stop` stand for, and `Passed`
carries this over to the exit status of 0. What a later run can do is in
`OneRun`: it finds the file and leaves. That `Materialized` gives one row for each trial, in
order, is a chain of lemmas on `Accepted`, `Contaminated` and `Synthetic`. Under the
refinement mapping a `WriteRow` is `Fill`, the end of the first run `Pass` or
`Fail`, and everything else a stutter; `Fill`'s guard is `AtFrontier` (`WrittenIsFill`).

`PegasusWaveProofs` also proves `FailuresStayLocal`: `FailureStaysLocal` always holds. mpirun
aborts because of a nonzero exit, so `ExitInv` says what an exit status means: a node that
exits with 0 has published its directory, one that exits with anything else has not.
A node that has ended stays as it is (`EndedStays`), and with it the reason of an abort.

`SiriusProductionProofs` proves, for any number of ranks, calls and faults
(`ProductionAssumption`):

* `TypeCorrect`, `CompletionMeasured`, `SecondWaveJustified`, `CollectionJudged`,
  `StopLeavesUnknown`, `FailureIsLocal`: all invariants of the run `sirius_production`;
* `Invariance`: `Spec => []Inductive`, from which they follow.

What a status stands for was decided when the evidence was collected, by which time
ranks may still be running, and a signal may still change which status is saved. `Inductive` follows a wave from its ranks (`RankInv`: the
status is the last thing a rank writes) through the master (`MasterInv`: what it
knows at a step, from the way it came there) to the report and the statuses (`ReportInv`,
`StatusInv`), and says which of them no longer change. `Founded` is what stands behind
the verdict in hand at every step of the `except` and `finally` clauses, so that
it does not matter which of them a signal meets. `CampaignInv` says that the
campaign is sealed once, so that the inputs of wave 1 are those of wave 0.

`SiriusBuildProofs` proves, for any sequence of targets of the two families and any
number of faults (`BuildAssumption`):

* `TypeCorrect`, `BuiltCertified`, `NoneSkipped`, `PreparedBuilt`: all invariants of the
  run `sirius_build`;
* `Invariant`: `Spec => []IInv`, from which they follow.

Versions only grow, so a source that is the approved one at the end was so all
the time (`Sourced`): this is why comparing it once more after everything was
certified is enough. `Justified` says of each target a profile left unattempted why, in
terms that stay true (a deadline, a dependency that failed, a build tree that was
replaced, an exception that `attempt` does not catch); `Visited` says it of every target of a
profile that was left and of those already visited in the profile at hand, also when the
profile breaks between the two. `BuiltMeans` and `Selected` tie a row to its certificate and to the providers it
was certified with, `Ends` says that without an error all profiles were
visited or the job was late, `Summarised` what the summary stands for. Steps fall
into groups with a lemma each: outside of a profile (`QuietKeeps`), in it (`StayKeeps`,
`StopKeeps`, `LeaveKeeps`), and the two that conclude.

`SiriusSmokeProofs` proves, for any families, configuration, evidence, links, rows,
controllers and number of faults (`SmokeAssumption`):

* `TypeCorrect`, `SmokeProved`, `OneInstant`, `StopLeavesUnknown`: all invariants of the
  run `sirius_smoke`;
* `Invariant`: `Spec => []IInv`, from which they follow.

Versions only grow, which is what makes looking twice worth anything. `Looking` puts what
was seen before the instant between the two looks and that before the present; a file
that the second look finds unchanged therefore had that version at the instant. The
second proof equals the first, and the code and the binaries used lie between them, so
they are those of the proof. `Counted` ties the number of calls to the campaign and the
item. `Loaded` says that what a child loaded is older than what is there: when the
dependencies of a profile are as configured before its next child, they were for the
last one, whence `SmokeIsProved` leaves out a profile's last load in the focused smoke.
`Traced` is about the C library, which nobody configures: the first diagnostic child saw
the oldest version of all, the first child of the four campaigns must have seen the same
one, and by then it is the newest, so that all in between saw it too. A step that ends the
job is covered by `FailingKeeps` or `EndingKeeps`, one that only goes on by `ForwardKeeps`
and, once the code is imported, `ProvenOn`.

The proofs about sequences and counts need induction over numbers. The library's rules
take an operator as a parameter, which the provers cannot instantiate;
`SuiteRunnerProofs` states it for sets instead (`NatSet`) and proves it from the
library's well-founded order of the numbers.

Only model-checked: the liveness properties `LockReleased`, `EveryRunEnds` and
`ManifestWritten`, since reasoning about fairness is out of the prover's reach; and the
balance of schedules other than six nodes in two waves (`Balanced`).

## 6. Findings

1. `CONNECTION_STOP` is decided by a phrase in the whole captured stderr, before
   the completion proof is looked at, and stderr also carries what the remote
   command printed. A session that ran can be recorded as refused, and the next
   approval may overlap it (`sirius_stop`).
2. A benchmark that finds a prerequisite unmet reports its first trial as
   `prerequisite` and the others as `prior-failure`. With two or more trials the
   runner accepts and writes these rows, and `validate_campaign` refuses the file:
   "one invocation mixes skipped origins" (`suite_skip_origins`).
3. A benchmark that dies after flushing its fatal row and before the skips that
   follow it gets a synthetic *started* failure for the next trial, which
   `validate_campaign` refuses: "trials after failure must be prior-failure
   skips" (`suite_after_fatal`).

`CompleteIsValid` shows that 2 and 3 are the only two ways in which the file of a
completed run fails the validator's rules on invocations, whatever the schedule (section 5). An
empty schedule is none of them, but a third kind of file: a configuration with every
benchmark disabled is run to the end with exit status 0 and an empty raw file, which
`validate_campaign` refuses ("campaign has no raw records").

Three smaller disagreements are visible in the models and have no run. On the direct
transport a final save that fails is reported as `LOCAL_STOP` although a session was
started (remote.py:811), where the control-master path reports `UNKNOWN`. A TERM handled after
`runner_exit_code=$?` has become 0 gives a node status of success with
`termination_signal` TERM (run_node.sh:316), which the repository's test of
such a status expects to be a failure; the measurement is complete all the same. A TERM during
the suite is handled before its exit status is assigned, so the status says "suite
runner exited with 125", whatever it exited with (run_node.sh:209).

## 7. Not modelled

Benchmark numerics and verification thresholds (floating point), CMake, plotting,
telemetry parsing, module inventories (external tools and pure I/O), the contents
of provenance fields, the merging of manifests and the aggregation (sequential and
without state), checked arithmetic and option parsing in C, the earlier rocFFT-only
jobs of Sirius. Of modelled components:

* the fields of a row other than its state, the Fortran bridge's row state (it
  emits rows of the same shapes), power loss;
* of the Pegasus wave, the contents of `node-metadata.json`, the local one-host mode,
  directories and links no node makes; of the campaign, the local mode, the
  preflight's rank-host mapping (`placed` in `PegasusWave`), the rendering of the job script;
* of the production campaign, the approved change of tools between the waves
  (part of `CleanSource`), the contents of observations;
* of the build, the parsing of CMake and ELF files, signals to the job itself
  (`amd_build.py` installs no handler for them: it dies without a summary);
* of the smoke, digests and formats of single records.

That a second signal can end a Pegasus node before it has published its
raw file is known to the authors (docs/IMPLEMENTATION_PLAN.md) and no finding.
