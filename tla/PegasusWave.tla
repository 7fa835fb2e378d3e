------------------------------ MODULE PegasusWave -------------------------------
(***************************************************************************)
(* One measurement wave on a Pegasus allocation: run_node.sh on every node *)
(* under mpirun, and the collector the job script runs after it.           *)
(*                                                                         *)
(* A node measures into node-local scratch and publishes from its EXIT     *)
(* trap.  Signals reach it at any time: TERM is caught once the traps are  *)
(* set and until the EXIT trap clears them, and waits for the foreground   *)
(* command; before, after, and for KILL the shell dies at once, and the    *)
(* cp or status tool it was running may go on without it.                  *)
(***************************************************************************)
EXTENDS NodeRecords, FiniteSets

CONSTANTS Hosts,      \* the nodes of the allocation
          Rank,       \* rank_host_mapping of the preflight, as host -> rank
          Outcomes,   \* the ends of the suite considered: exit status and raw file
          Leftovers,  \* what a failed cp may leave of the files it was to copy
          Interrupts  \* bound: signals and losses that come from outside

ASSUME WaveAssumption ==
    /\ IsFiniteSet(Hosts)
    /\ Rank \in [Hosts -> Nat]
    /\ \A g, h \in Hosts : Rank[g] = Rank[h] => g = h
    /\ Outcomes \subseteq SuiteEnds
    /\ Leftovers \subseteq [Parts -> Copies]
    /\ Interrupts \in Nat

VARIABLES
    placed,     \* host -> the rank the measurement's mpirun gave it
    node,       \* host -> the state of its run_node.sh
    tree,       \* host -> its directory on the shared file system
    mpi,        \* "running", "aborting", "ended", "lost"
    collector,  \* the state of collect_results.py
    interrupts  \* signals and losses from outside so far

vars == <<placed, node, tree, mpi, collector, interrupts>>

\* Where run_node.sh is.  Caught: TERM runs handle_signal at the next command.
Caught == {"trapped", "ready", "suite", "measured", "leaving"}
Collecting == {"collect", "copy", "status", "finishing"}
Ended == {"exited", "dead"}
Steps == {"begin"} \cup Caught \cup Collecting \cup Ended

Nodes ==
    [step : Steps, pending : BOOLEAN,         \* a caught TERM not yet handled
     metadata : BOOLEAN, raw : Raws,          \* what its scratch holds
     suite : {Running, 0, 1, 137},               \* how run_suite.py ended
     runner : {0, 1, 125, 137},               \* runner_exit_code
     process : {0, 1, 125, 137, 143},         \* process_exit_code
     term : {None, "TERM"},                   \* termination_signal
     copied : BOOLEAN,                        \* cp succeeded
     exit : {Running, 0, 90, 91, 137, 143},
     orphan : {None, "copy", "status"}]      \* child that outlives the shell

NewNode ==
    [step |-> "begin", pending |-> FALSE, metadata |-> FALSE, raw |-> "absent",
     suite |-> Running, runner |-> 125, process |-> 0, term |-> None,
     copied |-> FALSE, exit |-> Running, orphan |-> None]

Init ==
    /\ placed \in [Hosts -> {Rank[h] : h \in Hosts}]
    /\ \A g, h \in Hosts : placed[g] = placed[h] => g = h
    /\ node = [h \in Hosts |-> NewNode]
    /\ tree = [h \in Hosts |-> NoTree]
    /\ mpi = "running"
    /\ collector = [phase |-> "waiting", seen |-> {}, failed |-> FALSE,
                    artifacts |-> [h \in Hosts |-> NoTree]]
    /\ interrupts = 0

At(h, s) == node[h].step = s

\* The shell of h moves to step s, after the update n of its variables.
Becomes(h, n, s) ==
    /\ node' = [node EXCEPT ![h] = [n EXCEPT !.step = s]]
    /\ UNCHANGED <<placed, mpi, collector, interrupts>>

Exits(h, status) ==
    Becomes(h, [node[h] EXCEPT !.exit = status], "exited") /\ UNCHANGED tree

-----------------------------------------------------------------------------
(* run_node.sh: set-up and measurement.                                    *)

SetUp(h) == At(h, "begin") /\ Becomes(h, node[h], "trapped") /\ UNCHANGED tree

\* The scratch or the node directory exists, or scratch cannot be made.
NoScratch(h) == At(h, "begin") /\ Exits(h, 90)

WriteMetadata(h) ==
    /\ At(h, "trapped")
    /\ Becomes(h, [node[h] EXCEPT !.metadata = TRUE], "ready")
    /\ UNCHANGED tree

MetadataFails(h) ==
    At(h, "trapped") /\ Becomes(h, node[h], "leaving") /\ UNCHANGED tree

StartSuite(h) ==
    At(h, "ready") /\ ~node[h].pending
    /\ Becomes(h, node[h], "suite") /\ UNCHANGED tree

EndSuite(h) ==
    /\ At(h, "suite")
    /\ \E e \in Outcomes :
          Becomes(h, [node[h] EXCEPT !.suite = e[1], !.raw = e[2]], "measured")
    /\ UNCHANGED tree

AssignRunnerExit(h) ==
    /\ At(h, "measured") /\ ~node[h].pending
    /\ Becomes(h, [node[h] EXCEPT !.runner = node[h].suite], "leaving")
    /\ UNCHANGED tree

\* Mutant of Leave: the exit status is read before the shell has one.
LeaveUnset(h) ==
    /\ At(h, "leaving") /\ ~node[h].pending
    /\ Becomes(h, [node[h] EXCEPT !.process = node[h].exit], "collect")
    /\ UNCHANGED tree

Leave(h) ==
    /\ At(h, "leaving") /\ ~node[h].pending
    /\ Becomes(h, [node[h] EXCEPT !.process = node[h].runner], "collect")
    /\ UNCHANGED tree

\* A pending TERM runs between two commands, never during run_suite.py.
HandleSignal(h) ==
    /\ node[h].pending /\ node[h].step \in Caught \ {"suite"}
    /\ Becomes(h, [node[h] EXCEPT !.pending = FALSE, !.term = "TERM",
                                  !.process = 143], "collect")
    /\ UNCHANGED tree

-----------------------------------------------------------------------------
(* run_node.sh: collect_node, with the traps cleared.                      *)

\* What cp -R finds in the scratch directory.
InScratch(h) ==
    {"logs"} \cup {p \in {"metadata"} : node[h].metadata}
             \cup {p \in {"raw"} : node[h].raw # "absent"}

\* Until cp ends, a file it is to copy may be absent, cut or whole.
MakeNodeDirectory(h) ==
    /\ At(h, "collect")
    /\ Becomes(h, node[h], "copy")
    /\ tree' = [tree EXCEPT ![h].made = TRUE,
                   ![h].files = [f \in Files |-> IF f \in InScratch(h) THEN "torn" ELSE @[f]]]

NoNodeDirectory(h) == At(h, "collect") /\ Exits(h, 90)

Whole(h) ==
    tree' = [tree EXCEPT ![h].files =
                [f \in Files |-> IF f \in InScratch(h) THEN "whole" ELSE @[f]]]

Copy(h) ==
    /\ At(h, "copy")
    /\ Becomes(h, [node[h] EXCEPT !.copied = TRUE], "status")
    /\ Whole(h)

CopyFails(h) ==
    /\ At(h, "copy")
    /\ Becomes(h, node[h], "status")
    /\ \E l \in Leftovers :
          tree' = [tree EXCEPT ![h].files =
                      [f \in Files |-> IF f \in InScratch(h) THEN l[f] ELSE @[f]]]

Found(h, p) == tree[h].files[p] # "absent"

CollectionStatus(h) ==
    IF node[h].copied /\ Found(h, "raw") /\ Found(h, "logs")
    THEN "success" ELSE "failure"

NodeStatus(h) ==
    LET n == node[h]
        b == BenchmarkStatus(n.runner, n.raw)
        v == VerificationStatus(n.raw)
        c == CollectionStatus(h)
    IN  [rank |-> placed[h], runner |-> n.runner, process |-> n.process,
         term |-> n.term, benchmark |-> b, verification |-> v, collection |-> c,
         raw |-> IF Found(h, "raw") THEN "success" ELSE "missing",
         logs |-> IF Found(h, "logs") THEN "success" ELSE "failure",
         status |-> OverallStatus(b, v, c)]

Reported(h) == tree[h].files["status"] = "whole"

Reports(h) ==
    tree' = [tree EXCEPT ![h].files["status"] = "whole", ![h].says = NodeStatus(h)]

\* Mutant of WriteStatus: it may be written while cp runs.
WriteStatusEarly(h) ==
    /\ Reports(h)
    /\ \/ At(h, "status") /\ Becomes(h, node[h], "finishing")
       \/ At(h, "copy") /\ Becomes(h, node[h], "copy")

WriteStatus(h) ==
    At(h, "status") /\ Becomes(h, node[h], "finishing") /\ Reports(h)

StatusFails(h) == At(h, "status") /\ Exits(h, 91)

\* Mutant of Finish: the node exits with the status of its suite.
FinishAsSuite(h) ==
    /\ At(h, "finishing")
    /\ Exits(h, IF tree[h].says.collection = "success" THEN node[h].runner ELSE 91)

\* A failed benchmark is no reason to exit with a failure: mpirun would abort
\* the other nodes.
Finish(h) ==
    /\ At(h, "finishing")
    /\ Exits(h, IF tree[h].says.collection = "success" THEN 0 ELSE 91)

\* cp or the status tool ends after the death of the shell that waited for it.
OrphanEnds(h) ==
    /\ At(h, "dead") /\ node[h].orphan # None
    /\ Becomes(h, [node[h] EXCEPT !.orphan = None], "dead")
    /\ \/ node[h].orphan = "copy" /\ Whole(h)
       \/ node[h].orphan = "status" /\ Reports(h)

-----------------------------------------------------------------------------
(* Signals, and mpirun, which is external.                                 *)

Live(h) == node[h].step \notin Ended

\* From outside, or from an mpirun that tears the job down.
Interrupt ==
    \/ mpi = "aborting" /\ UNCHANGED interrupts
    \/ interrupts < Interrupts /\ interrupts' = interrupts + 1

\* The child of the moment dies too, or not.  A status tool that dies may leave
\* its file open and incomplete.
Dies(h, status) ==
    /\ \E o \in {None} \cup ({node[h].step} \cap {"copy", "status"}) :
          node' = [node EXCEPT ![h] = [@ EXCEPT !.step = "dead", !.exit = status,
                                                !.pending = FALSE, !.orphan = o]]
    /\ \/ UNCHANGED tree
       \/ /\ At(h, "status")
          /\ tree' = [tree EXCEPT ![h].files["status"] = "torn"]
    /\ UNCHANGED <<placed, mpi, collector>>

Term(h) ==
    /\ Live(h) /\ ~node[h].pending /\ Interrupt
    /\ \/ /\ node[h].step \in Caught
          /\ node' = [node EXCEPT ![h].pending = TRUE]
          /\ UNCHANGED <<placed, tree, mpi, collector>>
       \/ node[h].step \notin Caught /\ Dies(h, 143)

Kill(h) == Live(h) /\ Interrupt /\ Dies(h, 137)

\* One process that ends with a failure takes the others with it.
MpirunAborts ==
    /\ mpi = "running"
    /\ \E h \in Hosts : node[h].step \in Ended /\ node[h].exit # 0
    /\ mpi' = "aborting"
    /\ UNCHANGED <<placed, node, tree, collector, interrupts>>

MpirunEnds ==
    /\ mpi \in {"running", "aborting"}
    /\ \A h \in Hosts : node[h].step \in Ended
    /\ mpi' = "ended"
    /\ UNCHANGED <<placed, node, tree, collector, interrupts>>

\* mpirun itself is lost: it returns a failure while nodes still run.
MpirunLost ==
    /\ mpi \in {"running", "aborting"}
    /\ interrupts < Interrupts /\ interrupts' = interrupts + 1
    /\ mpi' = "lost"
    /\ UNCHANGED <<placed, node, tree, collector>>

-----------------------------------------------------------------------------
(* The collector, run by the job script whatever mpirun returned.          *)

Collector(c) ==
    /\ collector' = c
    /\ UNCHANGED <<placed, node, tree, mpi, interrupts>>

\* Mutant of StartCollector: set -e is still on when mpirun fails.
StartCollectorAfterSuccess ==
    /\ collector.phase = "waiting" /\ mpi = "ended"
    /\ \A h \in Hosts : node[h].exit = 0
    /\ \E bad \in BOOLEAN :
          Collector([collector EXCEPT !.phase = "reading", !.failed = bad])

\* The evidence beside the nodes is checked first.
StartCollector ==
    /\ collector.phase = "waiting" /\ mpi \in {"ended", "lost"}
    /\ \E bad \in BOOLEAN :
          Collector([collector EXCEPT !.phase = "reading", !.failed = bad])

\* The next host in rank order.
NextHost(h) ==
    /\ h \notin collector.seen
    /\ \A g \in Hosts \ collector.seen : Rank[h] <= Rank[g]

ReadNode(h) ==
    /\ collector.phase = "reading" /\ NextHost(h)
    /\ Collector([collector EXCEPT
          !.seen = @ \cup {h},
          !.failed = @ \/ ~NodeAccepted(tree[h], Rank[h], node[h].raw)])

StartHashing ==
    /\ collector.phase = "reading" /\ collector.seen = Hosts
    /\ Collector([collector EXCEPT !.phase = "hashing", !.seen = {}])

HashNode(h) ==
    /\ collector.phase = "hashing" /\ NextHost(h)
    /\ Collector([collector EXCEPT !.seen = @ \cup {h}, !.artifacts[h] = tree[h]])

WriteManifest ==
    /\ collector.phase = "hashing" /\ collector.seen = Hosts
    /\ Collector([collector EXCEPT !.phase = "done"])

Accepted == collector.phase = "done" /\ ~collector.failed

-----------------------------------------------------------------------------
NodeStep(h) ==
    \/ SetUp(h) \/ NoScratch(h)
    \/ WriteMetadata(h) \/ MetadataFails(h) \/ StartSuite(h) \/ EndSuite(h)
    \/ AssignRunnerExit(h) \/ Leave(h) \/ HandleSignal(h)
    \/ MakeNodeDirectory(h) \/ NoNodeDirectory(h)
    \/ Copy(h) \/ CopyFails(h)
    \/ WriteStatus(h) \/ StatusFails(h) \/ Finish(h)
    \/ OrphanEnds(h)

MpirunStep == MpirunAborts \/ MpirunEnds

CollectorStep ==
    \/ StartCollector \/ StartHashing \/ WriteManifest
    \/ \E h \in Hosts : ReadNode(h) \/ HashNode(h)

Disturbance == MpirunLost \/ \E h \in Hosts : Term(h) \/ Kill(h)

Next ==
    \/ \E h \in Hosts : NodeStep(h)
    \/ MpirunStep
    \/ CollectorStep
    \/ Disturbance

Spec == Init /\ [][Next]_vars

\* The kernel runs every shell, the suite ends (EveryRunEnds), mpirun returns
\* once its processes have, and the job script goes on to the collector.
FairSpec ==
    /\ Spec
    /\ \A h \in Hosts : WF_vars(Live(h) /\ NodeStep(h))
    /\ WF_vars(MpirunEnds)
    /\ WF_vars(CollectorStep)

-----------------------------------------------------------------------------
(* Properties.                                                             *)

TypeOK ==
    /\ placed \in [Hosts -> Nat]
    /\ node \in [Hosts -> Nodes]
    /\ tree \in [Hosts -> Trees]
    /\ mpi \in {"running", "aborting", "ended", "lost"}
    /\ collector \in [phase : {"waiting", "reading", "hashing", "done"},
                      seen : SUBSET Hosts, failed : BOOLEAN,
                      artifacts : [Hosts -> Trees]]
    /\ interrupts \in 0 .. Interrupts

\* A node status of "success" (build_node_status) is one of a suite that ended
\* with exit status 0 and a whole raw file, whatever signals came in between:
\* rows that merely stop early never look like success.  The one success without
\* a row is that of a suite with nothing to measure.
SuccessIsMeasured ==
    \A h \in Hosts :
       Reported(h) /\ tree[h].says.status = "success"
          => /\ node[h].suite = 0 /\ node[h].raw \in {"full", "empty"}
             /\ tree[h].files["raw"] = "whole"

\* node-status.json is the last thing written to a node directory: from the
\* moment it is readable nothing in the directory changes, not even by a cp that
\* outlived its shell (collect_node).
StatusSealsTree ==
    [][\A h \in Hosts : Reported(h) => tree'[h] = tree[h]]_vars

\* A manifest that says success (collect_results) covers every expected node on
\* the rank the preflight gave it, with a complete measurement and the metadata
\* and logs beside it.
AcceptedIsMeasured ==
    Accepted => \A h \in Hosts :
       /\ node[h].suite = 0 /\ node[h].raw = "full"
       /\ placed[h] = Rank[h]
       /\ \A p \in Parts : tree[h].files[p] = "whole"

\* ... and its hashes are those of the files for good, even when mpirun returned
\* while nodes were still writing.
ManifestIsCurrent == Accepted => collector.artifacts = tree

\* What a successful manifest vouches for was measured and stays as it was hashed.
AcceptedForGood == AcceptedIsMeasured /\ ManifestIsCurrent

\* mpirun tears the job down only for a node that died or could not publish all
\* it had; a failed benchmark or verification never ends another node's
\* measurement (run_node.sh exits 0 after it).
FailureStaysLocal ==
    mpi = "aborting" => \E h \in Hosts :
       /\ node[h].step \in Ended
       /\ \/ node[h].step = "dead"
          \/ ~(Reported(h) /\ node[h].copied /\ node[h].raw # "absent")

\* The job script always comes to a manifest, whatever the nodes did.
ManifestWritten == <>(collector.phase = "done")
=================================================================================
