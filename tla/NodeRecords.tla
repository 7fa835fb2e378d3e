------------------------------- MODULE NodeRecords ------------------------------
(***************************************************************************)
(* What one Pegasus node says of itself (classify and status of            *)
(* node_tools.py) and what the collector makes of it (collect_results.py): *)
(* the constant part of PegasusWave.                                       *)
(***************************************************************************)
EXTENDS Integers

None == "none"     \* no termination signal, no orphan
Running == -1      \* no exit status yet

\* The raw file as the suite runner left it: absent, without a row, cut in the
\* middle of a row, with rows of another device, with a failed or skipped row,
\* with a failed verification, or nothing but verified rows: of some of the
\* planned trials, or of all.
Raws == {"absent", "empty", "torn", "alien", "failed", "unverified", "prefix", "full"}

\* How a run of the suite can end: exit status and raw file.  0 is all trials
\* passed, with every benchmark disabled none at all; 1 is a failure or an
\* exception, 137 a killed process.
SuiteEnds ==
    ({0} \X {"full", "alien", "empty"})
        \cup ({1} \X (Raws \ {"full"}))
        \cup ({137} \X Raws)

\* classify_raw: no verdict on rows it cannot load or that contradict the
\* node's metadata; a file without rows has no failed row.
Classifiable(raw) == raw \in {"empty", "failed", "unverified", "prefix", "full"}

Classify(raw) ==
    [benchmark    |-> IF raw = "failed" THEN "failure" ELSE "success",
     verification |-> IF raw = "unverified" THEN "failure" ELSE "success"]

\* Mutant of BenchmarkStatus: only the rows count.
BenchmarkStatusOfRows(runnerExit, raw) ==
    IF Classifiable(raw) THEN Classify(raw).benchmark ELSE "failure"

\* build_node_status: the runner's exit status overrides the classification.
BenchmarkStatus(runnerExit, raw) ==
    IF Classifiable(raw) /\ runnerExit = 0 THEN Classify(raw).benchmark ELSE "failure"

VerificationStatus(raw) ==
    IF Classifiable(raw) THEN Classify(raw).verification ELSE "not-run"

OverallStatus(benchmark, verification, collection) ==
    IF benchmark = "success" /\ verification = "success" /\ collection = "success"
    THEN "success" ELSE "failure"

Results == {"success", "failure"}

Statuses ==
    [rank : Nat, runner : {0, 1, 125, 137}, process : {0, 1, 125, 137, 143},
     term : {None, "TERM"}, benchmark : Results,
     verification : Results \cup {"not-run"}, collection : Results,
     raw : {"success", "missing"}, logs : Results, status : Results]

\* The files of a node that matter, scratch and shared alike.
Parts == {"metadata", "raw", "logs"}
Copies == {"absent", "torn", "whole"}

Files == Parts \cup {"status"}

\* What a status file that is not yet there would say.
NoStatus ==
    [rank |-> 0, runner |-> 125, process |-> 0, term |-> None,
     benchmark |-> "failure", verification |-> "not-run", collection |-> "failure",
     raw |-> "missing", logs |-> "failure", status |-> "failure"]

\* A shared node directory: made or not, the files in it, what its
\* node-status.json says.  A file that is open but not complete is "torn".
Trees == [made : BOOLEAN, files : [Files -> Copies], says : Statuses]

NoTree == [made |-> FALSE, files |-> [f \in Files |-> "absent"], says |-> NoStatus]

\* Mutant of NodeAccepted: the rank is not compared.
NodeAcceptedAnyRank(tree, rank, raw) ==
    /\ tree.files["status"] = "whole"
    /\ tree.files["metadata"] = "whole"
    /\ tree.says.status = "success"
    /\ tree.files["raw"] # "absent"

\* collect_results on one expected host; raw is the content of its raw file.  A
\* copy cut between two rows loads like a whole one, so only the content counts.
NodeAccepted(tree, rank, raw) ==
    /\ tree.made
    /\ tree.files["status"] = "whole"
    /\ tree.says.rank = rank
    /\ tree.files["metadata"] = "whole"
    /\ tree.says.benchmark = "success"
    /\ tree.says.verification = "success"
    /\ tree.says.collection = "success"
    /\ tree.says.raw = "success"
    /\ tree.says.logs = "success"
    /\ tree.files["raw"] # "absent"
    /\ raw \notin {"empty", "torn"}
=================================================================================
