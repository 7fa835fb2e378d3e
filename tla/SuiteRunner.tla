------------------------------ MODULE SuiteRunner ------------------------------
(***************************************************************************)
(* The suite runner (execute_schedule), the benchmark process it launches  *)
(* for each planned invocation, and the raw result file it alone writes.   *)
(*                                                                         *)
(* The benchmark writes rows to a pipe, one flush each, and may crash      *)
(* anywhere; the runner reads the whole output once the process has ended, *)
(* keeps the rows it can, completes the invocation with synthetic rows and *)
(* appends them to the file one flush at a time.  The runner itself may be *)
(* killed, or a write may fail, between any two rows.                      *)
(***************************************************************************)
EXTENDS TrialRecords, SequencesExt

CONSTANTS Campaigns,   \* the campaigns considered
          MaxOutput,   \* bound: lines of output after which none strays
          MaxRuns      \* bound: runs started on the same output path

Items == [trials : Nat \ {0},
          entry : {"usable", "unsupported", "absent"},  \* in the manifest
          checked : BOOLEAN]                            \* AMD: re-verified before launch

ASSUME RunnerAssumption ==
    /\ \A c \in Campaigns : /\ c.schedule \in Seq(Items)
                            /\ c.patient \in BOOLEAN
                            /\ c.format \in Formats
                            /\ c.strays \subseteq Rows \cup {Junk}
    /\ MaxOutput \in Nat
    /\ MaxRuns \in Nat \ {0}

VARIABLES
    campaign,    \* the schedule, continue_on_failure, output_format, and the
                 \* lines its benchmarks may write beside their own
    pc,          \* the runner: "start", "item", "wait", "write", "ended"
    item,        \* index of the current item
    pending,     \* rows of the current item not yet written
    anyFailure, stop,
    file,        \* lines of the raw file, << >> also while it does not exist
    exists,      \* whether the raw file exists
    child,       \* the benchmark process of the current item
    out,         \* what it has written to its standard output
    exits,       \* exit status of every run so far
    history      \* per item: the output and exit of the process launched for it

vars == <<campaign, pc, item, pending, anyFailure, stop,
          file, exists, child, out, exits, history>>

NotLaunched == [launched |-> FALSE, out |-> << >>, failed |-> FALSE]
NoChild == [pc |-> "none", trial |-> 0, failed |-> FALSE, origin |-> None]
Killed == 137
schedule == campaign.schedule
patient  == campaign.patient
format   == campaign.format
Current  == schedule[item]

\* A line of the file: the row of an item, or a torn one.
Line(i, r) == [item |-> i, row |-> r]

\* The rows of item i among the lines, in their order, without those of drop.
Taken(lines, i, drop) ==
    LET rows[n \in 0 .. Len(lines)] ==
            IF n = 0 THEN << >>
            ELSE IF lines[n].item = i /\ lines[n].row \notin drop
                 THEN Append(rows[n - 1], lines[n].row)
                 ELSE rows[n - 1]
    IN  rows[Len(lines)]

RowsOf(i) == Taken(file, i, {})

Init ==
    /\ campaign \in Campaigns
    /\ pc = "start"
    /\ item = 1
    /\ pending = << >>
    /\ anyFailure = FALSE
    /\ stop = FALSE
    /\ file = << >>
    /\ exists = FALSE
    /\ child = NoChild
    /\ out = << >>
    /\ exits = << >>
    /\ history = [i \in DOMAIN schedule |-> NotLaunched]

-----------------------------------------------------------------------------
(* The benchmark process.                                                  *)

Put(lines) == out' = out \o lines

\* Argument or output error: nothing is written.
ChildRejects ==
    /\ child.pc = "setup"
    /\ child' = [child EXCEPT !.pc = "exited", !.failed = TRUE]
    /\ UNCHANGED out

\* A trial that cannot be measured at all is reported, then every later one:
\* overflow and a missing backend before anything started, an allocation or
\* set-up failure after.
ChildCannotMeasure(origin) ==
    /\ child.pc = "setup"
    /\ child' = [child EXCEPT !.pc = "unmeasured", !.failed = TRUE, !.origin = origin]
    /\ UNCHANGED out

ChildSetsUp ==
    /\ child.pc = "setup"
    /\ child' = [child EXCEPT !.pc = "trials"]
    /\ UNCHANGED out

\* One row of emit_unmeasured: the first has the given origin.
ChildEmitsUnmeasured ==
    LET t == child.trial
    IN  /\ child.pc = "unmeasured" /\ t < Current.trials
        /\ Put(<<IF child.origin \in UnstartedOrigins
                 THEN Skip(t, child.origin) ELSE Failure(t, child.origin)>>)
        /\ child' = [child EXCEPT !.trial = t + 1, !.origin = "prior-failure"]

\* A failed verification does not end the trial loop.
ChildMeasures(pass) ==
    LET t == child.trial
    IN  /\ child.pc = "trials" /\ t < Current.trials
        /\ Put(<<IF pass THEN Success(t) ELSE Failure(t, "verification")>>)
        /\ child' = [child EXCEPT !.trial = t + 1, !.failed = @ \/ ~pass]

\* A failed measurement does: the remaining trials become skips.
ChildBreaks ==
    LET t == child.trial
    IN  /\ child.pc = "trials" /\ t < Current.trials
        /\ Put(<<Failure(t, "benchmark")>>)
        /\ child' = [pc |-> "unmeasured", trial |-> t + 1, failed |-> TRUE,
                     origin |-> "prior-failure"]

\* Main returns; closing the output may still turn success into failure.
ChildReturns ==
    /\ child.pc \in {"trials", "unmeasured"} /\ child.trial = Current.trials
    /\ \E failed \in BOOLEAN :
        /\ child.failed => failed
        /\ child' = [child EXCEPT !.pc = "exited", !.failed = failed]
    /\ UNCHANGED out

\* A signal, an abort in a library or a row that cannot be written, leaving
\* perhaps an unfinished line.
ChildDies ==
    /\ child.pc \in {"setup", "trials", "unmeasured"}
    /\ \E lines \in {<< >>, <<Junk>>} : Put(lines)
    /\ child' = [child EXCEPT !.pc = "exited", !.failed = TRUE]

\* Output the benchmark's own code would not produce: a library's message on
\* stdout, a wrong or repeated row.
ChildStrays ==
    /\ child.pc \in {"setup", "trials", "unmeasured"}
    /\ Len(out) < MaxOutput
    /\ \E line \in campaign.strays : Put(<<line>>)
    /\ UNCHANGED child

ChildStep ==
    /\ \/ ChildRejects
       \/ \E origin \in {"prerequisite", "benchmark"} : ChildCannotMeasure(origin)
       \/ ChildSetsUp
       \/ ChildEmitsUnmeasured
       \/ \E pass \in BOOLEAN : ChildMeasures(pass)
       \/ ChildBreaks
       \/ ChildReturns
       \/ ChildDies
    /\ UNCHANGED <<campaign, pc, item, pending, anyFailure, stop,
                   file, exists, exits, history>>

-----------------------------------------------------------------------------
(* The runner.                                                             *)

End(status) == pc' = "ended" /\ exits' = Append(exits, status)

\* Mutant of Open: an existing file is truncated.
OpenTruncates ==
    /\ pc = "start"
    /\ exists' = TRUE
    /\ file' = << >>
    /\ pc' = "item"
    /\ UNCHANGED <<campaign, item, pending, anyFailure, stop, child, out, exits, history>>

\* The raw file is created exclusively.
Open ==
    /\ pc = "start" /\ ~exists
    /\ exists' = TRUE
    /\ pc' = "item"
    /\ UNCHANGED <<campaign, item, pending, anyFailure, stop,
                   file, child, out, exits, history>>

OpenRefused ==
    /\ pc = "start" /\ exists
    /\ End(1)
    /\ UNCHANGED <<campaign, item, pending, anyFailure, stop,
                   file, exists, child, out, history>>

\* Mutant of SkipItem: the stop is looked at first.
SkipItemStopFirst ==
    /\ pc = "item" /\ item <= Len(schedule)
    /\ stop \/ Current.entry # "usable"
    /\ pending' = AllSkipped(Current.trials, IF stop THEN "prior-failure" ELSE "prerequisite")
    /\ anyFailure' = TRUE
    /\ stop' = (stop \/ ~patient)
    /\ pc' = "write"
    /\ UNCHANGED <<campaign, item, file, exists, child, out, exits, history>>

\* An item without a usable executable, or any item after a stop, is skipped.
SkipItem ==
    /\ pc = "item" /\ item <= Len(schedule)
    /\ stop \/ Current.entry # "usable"
    /\ pending' = AllSkipped(Current.trials,
                             IF Current.entry # "usable" THEN "prerequisite" ELSE "prior-failure")
    /\ anyFailure' = TRUE
    /\ stop' = (stop \/ ~patient)
    /\ pc' = "write"
    /\ UNCHANGED <<campaign, item, file, exists, child, out, exits, history>>

Launchable == pc = "item" /\ item <= Len(schedule) /\ ~stop /\ Current.entry = "usable"

\* The executable or what it depends on changed since the manifest was made:
\* the item is skipped and, whatever the campaign's patience, so is the rest.
RefuseItem ==
    /\ Launchable /\ Current.checked
    /\ pending' = AllSkipped(Current.trials, "prerequisite")
    /\ anyFailure' = TRUE
    /\ stop' = TRUE
    /\ pc' = "write"
    /\ UNCHANGED <<campaign, item, file, exists, child, out, exits, history>>

Launch ==
    /\ Launchable
    /\ child' = [NoChild EXCEPT !.pc = "setup"]
    /\ out' = << >>
    /\ pc' = "wait"
    /\ UNCHANGED <<campaign, item, pending, anyFailure, stop,
                   file, exists, exits, history>>

\* The executable cannot be started, or its output cannot be decoded: the
\* error ends the whole run.
LaunchFails ==
    /\ Launchable
    /\ End(1)
    /\ UNCHANGED <<campaign, item, pending, anyFailure, stop,
                   file, exists, child, out, history>>

Remember == history' = [history EXCEPT ![item] =
                            [launched |-> TRUE, out |-> out, failed |-> child.failed]]

Undecodable ==
    /\ pc = "wait" /\ child.pc = "exited"
    /\ \E k \in DOMAIN out : out[k] = Junk
    /\ Remember
    /\ End(1)
    /\ UNCHANGED <<campaign, item, pending, anyFailure, stop,
                   file, exists, child, out>>

\* Mutant of FailedNow: only the rows count.
FailedNowByRows == \E k \in 1 .. Len(pending') : pending'[k].status # "success"

FailedNow ==
    \/ child.failed
    \/ Contaminated(out, Current.trials, format)
    \/ \E k \in 1 .. Len(pending') : pending'[k].status # "success"

\* Mutant of Collect: a row for every trial is waited for.
CollectWhenFull ==
    /\ pc = "wait" /\ Len(out) >= Current.trials
    /\ pending' = Materialized(out, Current.trials, format, child.failed)
    /\ anyFailure' = (anyFailure \/ FailedNow)
    /\ stop' = (stop \/ (anyFailure' /\ ~patient))
    /\ Remember
    /\ child' = NoChild
    /\ out' = << >>
    /\ pc' = "write"
    /\ UNCHANGED <<campaign, item, file, exists, exits>>

Collect ==
    /\ pc = "wait" /\ child.pc = "exited"
    /\ pending' = Materialized(out, Current.trials, format, child.failed)
    /\ anyFailure' = (anyFailure \/ FailedNow)
    /\ stop' = (stop \/ (anyFailure' /\ ~patient))
    /\ Remember
    /\ child' = NoChild
    /\ out' = << >>
    /\ pc' = "write"
    /\ UNCHANGED <<campaign, item, file, exists, exits>>

\* One row, one flush.
WriteRow ==
    /\ pc = "write" /\ pending # << >>
    /\ file' = Append(file, Line(item, Head(pending)))
    /\ pending' = Tail(pending)
    /\ UNCHANGED <<campaign, pc, item, anyFailure, stop,
                   exists, child, out, exits, history>>

\* A full disk: the row is lost or torn, and the run ends.
WriteFails ==
    /\ pc = "write" /\ pending # << >>
    /\ \E torn \in {<< >>, <<Line(item, Junk)>>} : file' = file \o torn
    /\ End(1)
    /\ UNCHANGED <<campaign, item, pending, anyFailure, stop,
                   exists, child, out, history>>

NextItem ==
    /\ pc = "write" /\ pending = << >>
    /\ item' = item + 1
    /\ pc' = "item"
    /\ UNCHANGED <<campaign, pending, anyFailure, stop,
                   file, exists, child, out, exits, history>>

Finish ==
    /\ pc = "item" /\ item > Len(schedule)
    /\ End(IF anyFailure THEN 1 ELSE 0)
    /\ UNCHANGED <<campaign, item, pending, anyFailure, stop,
                   file, exists, child, out, history>>

RunnerStep ==
    \/ Open \/ OpenRefused \/ SkipItem \/ RefuseItem \/ Launch \/ Collect
    \/ WriteRow \/ NextItem \/ Finish

Mishap == LaunchFails \/ Undecodable \/ WriteFails

-----------------------------------------------------------------------------
(* The surroundings: the job's time limit, and a second attempt            *)

\* The job's processes go together; a run killed before it opens the file
\* leaves nothing behind.
Kill ==
    /\ pc \notin {"start", "ended"}
    /\ End(Killed)
    /\ child' = NoChild /\ out' = << >>
    /\ UNCHANGED <<campaign, item, pending, anyFailure, stop, file, exists, history>>

\* run_suite is started again with the same --output.
Rerun ==
    /\ pc = "ended" /\ Len(exits) < MaxRuns
    /\ pc' = "start"
    /\ item' = 1
    /\ pending' = << >>
    /\ anyFailure' = FALSE
    /\ stop' = FALSE
    /\ child' = NoChild
    /\ out' = << >>
    /\ UNCHANGED <<campaign, file, exists, exits, history>>

StrayStep ==
    /\ ChildStrays
    /\ UNCHANGED <<campaign, pc, item, pending, anyFailure, stop,
                   file, exists, exits, history>>

Next == ChildStep \/ StrayStep \/ RunnerStep \/ Mishap \/ Kill \/ Rerun

\* A benchmark's own code ends after finitely many steps and the runner is
\* scheduled; nothing is assumed about strays, mishaps, kills or a rerun.
Fairness == WF_vars(ChildStep) /\ WF_vars(RunnerStep)

Spec == Init /\ [][Next]_vars
FairSpec == Spec /\ Fairness

-----------------------------------------------------------------------------
(* What the campaign validator makes of the file, whenever it is read.     *)

Torn == \E k \in DOMAIN file : file[k].row = Junk

Readable(i) == Taken(file, i, {Junk})

ValidCampaign ==
    /\ file # << >> /\ ~Torn
    /\ \A i \in DOMAIN schedule :
        /\ ValidInvocation(RowsOf(i), schedule[i].trials)
        /\ schedule[i].entry = "absent" =>
               \A k \in DOMAIN RowsOf(i) : RowsOf(i)[k] = Skip(k - 1, "prerequisite")

\* Mutant of ValidationPasses: skipped trials are overlooked.
ValidationPassesUnfailed ==
    ValidCampaign /\ \A k \in DOMAIN file : file[k].row.status # "failure"

ValidationPasses ==
    ValidCampaign /\ \A k \in DOMAIN file : file[k].row.status = "success"

-----------------------------------------------------------------------------
(* Properties.                                                             *)

Lines == [item : Nat, row : Rows \cup {Junk}]

\* Every variable has the shape the code gives it.
TypeOK ==
    /\ campaign \in Campaigns
    /\ pc \in {"start", "item", "wait", "write", "ended"}
    /\ item \in 1 .. Len(schedule) + 1
    /\ pending \in Seq(Rows)
    /\ anyFailure \in BOOLEAN /\ stop \in BOOLEAN
    /\ file \in Seq(Lines)
    /\ exists \in BOOLEAN
    /\ child \in [pc : {"none", "setup", "trials", "unmeasured", "exited"}, trial : Nat,
                  failed : BOOLEAN, origin : {None, "prerequisite", "benchmark", "prior-failure"}]
    /\ out \in Seq(Rows \cup {Junk})
    /\ exits \in Seq({0, 1, Killed})
    /\ history \in [DOMAIN schedule -> [launched : BOOLEAN, out : Seq(Rows \cup {Junk}),
                                        failed : BOOLEAN]]

\* The run has been through the whole schedule.
Completed == item > Len(schedule)

\* The runner materializes each expected trial exactly once and in order,
\* and a run that went through its schedule left out none.
EveryTrialOnce ==
    /\ \A i \in DOMAIN schedule :
        /\ \A k \in DOMAIN Readable(i) : Readable(i)[k].trial = k - 1
        /\ Len(Readable(i)) <= schedule[i].trials
        /\ Completed => Len(Readable(i)) = schedule[i].trials
    /\ \A j, k \in DOMAIN file : j < k => file[j].item <= file[k].item

\* Trial k-1 was reported by the benchmark, and nothing was amiss before.
Measured(o, k) ==
    /\ \A j \in 1 .. k : ValidRow(o[j]) /\ o[j].trial = j - 1
    /\ \A j \in 1 .. k - 1 : ~Fatal(o[j])

\* A trial a benchmark completed keeps its row, whatever it did afterwards:
\* the runner never replaces it by a synthetic one.
MeasurementsKept ==
    \A i \in DOMAIN schedule :
        LET o == history[i].out
        IN  \A k \in DOMAIN Readable(i) :
                k <= Len(o) /\ k <= schedule[i].trials /\ Measured(o, k) => Readable(i)[k] = o[k]

\* Row k of item i is not the benchmark's own.
Invented(i, k) ==
    ~(k <= Len(history[i].out) /\ Readable(i)[k] = history[i].out[k])

\* The runner invents at most one started trial per invocation, none for a
\* process it did not launch, and only prior-failure skips after it.
InventsOneFailure ==
    \A i \in DOMAIN schedule : \A k \in DOMAIN Readable(i) :
        Invented(i, k) /\ Readable(i)[k].attempted =>
            /\ history[i].launched
            /\ \A m \in k + 1 .. Len(Readable(i)) : PriorSkip(Readable(i)[m])

\* Every trial of the schedule is accounted for, once, as what it was.
TrialsAccounted == EveryTrialOnce /\ MeasurementsKept /\ InventsOneFailure

\* Nothing is launched after a stop: not after a failure when the campaign
\* does not continue on failure (a bad exit status counts even if every row is
\* a success), and not after an executable was found changed.
StopIsFinal ==
    pc = "wait" =>
        /\ \A j \in 1 .. item - 1 :
               /\ schedule[j].entry = "usable" => history[j].launched
               /\ ~patient => schedule[j].entry = "usable" /\ ~history[j].failed
        /\ ~patient => \A k \in DOMAIN file : file[k].row.status = "success"

\* A run that was killed or broke off with rows still to write never leaves a
\* file the campaign validator takes for a complete one.
BrokenRunRejected ==
    pc \in {"write", "wait", "ended"} /\ ~Completed /\ Len(exits) <= 1 /\ ValidCampaign =>
        item = Len(schedule) /\ pending = << >>

\* Exit status 0 means a file that validates as a pass, every benchmark
\* launched, and every one of them ended well; only a configuration whose
\* benchmarks are all disabled ends well without a row, and is not valid.
ExitZeroIsPass ==
    exits # << >> /\ exits[1] = 0 =>
        /\ ValidationPasses \/ schedule = << >>
        /\ \A i \in DOMAIN schedule : history[i].launched /\ ~history[i].failed

\* A file that validates as a pass holds nothing but what benchmarks measured, and
\* exit status 0 stands for such a file.
PassIsMeasured ==
    /\ ExitZeroIsPass
    /\ ValidationPasses =>
        \A i \in DOMAIN schedule :
            history[i].launched /\ RowsOf(i) = SubSeq(history[i].out, 1, schedule[i].trials)

\* A started failure of the runner's own after a fatal row of the benchmark.
FatalThenInvented(i) ==
    \E k \in DOMAIN RowsOf(i) :
        /\ RowsOf(i)[k].origin \in {"subprocess", "output-validation"}
        /\ \E j \in 1 .. k - 1 : Fatal(RowsOf(i)[j])

\* The file of a completed run validates, with three exceptions only: nothing
\* was planned, a benchmark mixed its skip origins, or it died between its fatal
\* row and the skips that should follow it.
RejectedOnlyFor ==
    Completed =>
        \/ ValidCampaign
        \/ schedule = << >>
        \/ \E i \in DOMAIN schedule : FatalThenInvented(i) \/ ~OneSkipOrigin(RowsOf(i))

\* The validator tells a completed run from one that broke off.
CompleteIsValid == BrokenRunRejected /\ RejectedOnlyFor

\* Within an invocation the skipped rows give one reason: the validator's
\* own requirement on a file the runner completed.
SkipOriginsAgree ==
    Completed => \A i \in DOMAIN schedule : OneSkipOrigin(RowsOf(i))

\* After a fatal failure no later trial of the invocation is reported as
\* started: the validator's requirement, and RESULT_SCHEMA.md's.
NothingStartsAfterFatal ==
    Completed => \A i \in DOMAIN schedule : OnlySkipsAfterFatal(RowsOf(i))

\* Every run ends, if the benchmarks do: the runner itself has no time limit.
EveryRunEnds == (pc # "ended") ~> (pc = "ended")

Statuses(i) == [k \in DOMAIN Readable(i) |-> Readable(i)[k].status]

Matrix == INSTANCE TrialMatrix WITH
    plan    <- [i \in DOMAIN schedule |-> schedule[i].trials],
    patient <- patient,
    table   <- [i \in DOMAIN schedule |-> Statuses(i)],
    verdict <- IF exits = << >> THEN "open" ELSE IF exits[1] = 0 THEN "pass" ELSE "fail"

\* The runner keeps the promises of the trial matrix.
ImplementsMatrix == Matrix!Spec
=============================================================================
