--------------------------- MODULE PegasusWaveProofs ----------------------------
(***************************************************************************)
(* The safety properties of PegasusWave for any number of nodes, any ends  *)
(* of their suites and any number of interruptions.                        *)
(***************************************************************************)
EXTENDS PegasusWave, TLAPS

\* What holds of one node.  A child outlives only a dead shell; a readable
\* status file is the end of everything that writes; runner_exit_code is the
\* suite's, or 125; a copy that succeeded is whole; the status tells the truth.
SaysTrue(h) ==
    LET says == tree[h].says
        n == node[h]
    IN  /\ says.rank = placed[h]
        /\ says.status = "success"
              => /\ says.benchmark = "success"
                 /\ says.verification = "success"
                 /\ says.collection = "success"
        /\ says.benchmark = "success"
              => n.runner = 0 /\ Classifiable(n.raw) /\ n.raw # "failed"
        /\ says.collection = "success" => n.copied

NodeInv(h) ==
    /\ node[h].step # "dead" => node[h].orphan = None
    /\ Reported(h) => /\ node[h].step \in {"finishing"} \cup Ended
                      /\ node[h].orphan = None
                      /\ SaysTrue(h)
    /\ node[h].runner = 0 => node[h].suite = 0
    /\ node[h].suite = 0 => node[h].raw \in {"full", "alien", "empty"}
    /\ node[h].suite # Running => node[h].step \notin {"begin", "trapped", "ready", "suite"}
    /\ node[h].step = "measured" => node[h].suite # Running
    /\ node[h].copied => /\ node[h].step \in {"status", "finishing"} \cup Ended
                         /\ \A p \in InScratch(h) : tree[h].files[p] = "whole"

\* What the collector has judged acceptable and hashed is so for good.
Judged(h) == NodeAccepted(tree[h], Rank[h], node[h].raw)

CollectorInv ==
    /\ collector.phase = "waiting" => collector.seen = {}
    /\ collector.failed = FALSE =>
          /\ collector.phase = "reading" => \A h \in collector.seen : Judged(h)
          /\ collector.phase \in {"hashing", "done"} => \A h \in Hosts : Judged(h)
          /\ collector.phase = "hashing" =>
                \A h \in collector.seen : collector.artifacts[h] = tree[h]
          /\ collector.phase = "done" =>
                \A h \in Hosts : collector.artifacts[h] = tree[h]

NodesInv == \A h \in Hosts : NodeInv(h)

IInv == TypeOK /\ NodesInv /\ CollectorInv

-----------------------------------------------------------------------------
(* Types.                                                                  *)

\* A node whose signal is noted or handled is a node.
LEMMA PendingTypes ==
    \A n \in Nodes, v \in BOOLEAN : [n EXCEPT !.pending = v] \in Nodes
  BY DEF Nodes

\* A node that moves on keeps the types of all but the directories.
LEMMA BecomesTypes ==
    ASSUME TypeOK, NEW h \in Hosts, NEW n \in Nodes, NEW s \in Steps,
           Becomes(h, n, s)
    PROVE  /\ placed' \in [Hosts -> Nat]
           /\ node' \in [Hosts -> Nodes]
           /\ mpi' \in {"running", "aborting", "ended", "lost"}
           /\ collector' = collector
           /\ interrupts' \in 0 .. Interrupts
<1>1. [n EXCEPT !.step = s] \in Nodes
  BY DEF Nodes
<1> QED
  BY <1>1 DEF TypeOK, Becomes

\* The status a node writes is a status.
LEMMA StatusType ==
    ASSUME TypeOK, NEW h \in Hosts
    PROVE  NodeStatus(h) \in Statuses
<1>1. placed[h] \in Nat /\ node[h] \in Nodes
  BY DEF TypeOK
<1>2. BenchmarkStatus(node[h].runner, node[h].raw) \in Results
  BY DEF BenchmarkStatus, Classify, Results
<1>3. VerificationStatus(node[h].raw) \in Results \cup {"not-run"}
  BY DEF VerificationStatus, Classify, Results
<1>4. CollectionStatus(h) \in Results
  BY DEF CollectionStatus, Results
<1> QED
  BY <1>1, <1>2, <1>3, <1>4 DEF NodeStatus, Statuses, Nodes, Results, OverallStatus

\* The directories keep their types in every step that changes them.
LEMMA TreeTypes ==
    ASSUME TypeOK, NEW h \in Hosts
    PROVE  /\ Whole(h) => tree' \in [Hosts -> Trees]
           /\ Reports(h) => tree' \in [Hosts -> Trees]
           /\ MakeNodeDirectory(h) => tree' \in [Hosts -> Trees]
           /\ CopyFails(h) => tree' \in [Hosts -> Trees]
           /\ tree' = [tree EXCEPT ![h].files["status"] = "torn"]
                 => tree' \in [Hosts -> Trees]
<1> DEFINE t == tree[h]
<1>0. tree \in [Hosts -> Trees] /\ t \in Trees /\ t.files \in [Files -> Copies]
  BY DEF TypeOK, Trees
<1>1. \A f \in [Files -> Copies], m \in BOOLEAN, y \in Statuses :
         [made |-> m, files |-> f, says |-> y] \in Trees
  BY DEF Trees
<1>2. ASSUME Whole(h) PROVE tree' \in [Hosts -> Trees]
  <2> DEFINE f == [g \in Files |-> IF g \in InScratch(h) THEN "whole" ELSE t.files[g]]
  <2>1. f \in [Files -> Copies]
    BY <1>0 DEF Copies
  <2>2. [t EXCEPT !.files = f] \in Trees
    BY <1>0, <2>1 DEF Trees
  <2>3. tree' = [tree EXCEPT ![h] = [t EXCEPT !.files = f]]
    BY <1>2, <1>0 DEF Whole
  <2> QED BY <1>0, <2>2, <2>3
<1>3. ASSUME Reports(h) PROVE tree' \in [Hosts -> Trees]
  <2>1. [t.files EXCEPT !["status"] = "whole"] \in [Files -> Copies]
    BY <1>0 DEF Copies
  <2>2. NodeStatus(h) \in Statuses
    BY StatusType
  <2> QED BY <1>0, <1>3, <2>1, <2>2 DEF Reports, Trees
<1>4. ASSUME MakeNodeDirectory(h) PROVE tree' \in [Hosts -> Trees]
  <2> DEFINE f == [g \in Files |-> IF g \in InScratch(h) THEN "torn" ELSE t.files[g]]
  <2>1. f \in [Files -> Copies]
    BY <1>0 DEF Copies
  <2>2. [t EXCEPT !.made = TRUE, !.files = f] \in Trees
    BY <1>0, <2>1 DEF Trees
  <2>3. tree' = [tree EXCEPT ![h] = [t EXCEPT !.made = TRUE, !.files = f]]
    BY <1>4, <1>0 DEF MakeNodeDirectory
  <2> QED BY <1>0, <2>2, <2>3
<1>5. ASSUME CopyFails(h) PROVE tree' \in [Hosts -> Trees]
  <2>1. PICK l \in Leftovers :
           tree' = [tree EXCEPT ![h].files =
                      [g \in Files |-> IF g \in InScratch(h) THEN l[g] ELSE @[g]]]
    BY <1>5 DEF CopyFails
  <2> DEFINE f == [g \in Files |-> IF g \in InScratch(h) THEN l[g] ELSE t.files[g]]
  <2>2. l \in [Parts -> Copies] /\ InScratch(h) \subseteq Parts
    BY WaveAssumption DEF InScratch, Parts
  <2>3. f \in [Files -> Copies]
    BY <1>0, <2>2
  <2>4. [t EXCEPT !.files = f] \in Trees
    BY <1>0, <2>3 DEF Trees
  <2>5. tree' = [tree EXCEPT ![h] = [t EXCEPT !.files = f]]
    BY <2>1, <1>0
  <2> QED BY <1>0, <2>4, <2>5
<1>6. ASSUME tree' = [tree EXCEPT ![h].files["status"] = "torn"]
      PROVE  tree' \in [Hosts -> Trees]
  <2>1. [t.files EXCEPT !["status"] = "torn"] \in [Files -> Copies]
    BY <1>0 DEF Copies
  <2> QED BY <1>0, <1>6, <2>1 DEF Trees
<1> QED BY <1>2, <1>3, <1>4, <1>5, <1>6

\* Every step of a node keeps the types.
LEMMA NodeStepTypes ==
    ASSUME TypeOK, NEW h \in Hosts, NodeInv(h), NodeStep(h)
    PROVE  TypeOK'
<1>0. /\ node[h] \in Nodes /\ tree \in [Hosts -> Trees]
      /\ collector \in [phase : {"waiting", "reading", "hashing", "done"},
                        seen : SUBSET Hosts, failed : BOOLEAN,
                        artifacts : [Hosts -> Trees]]
  BY DEF TypeOK
<1> DEFINE n == node[h]
<1>1. ASSUME NEW m \in Nodes, NEW s \in Steps, Becomes(h, m, s),
             tree' \in [Hosts -> Trees]
      PROVE  TypeOK'
  BY <1>0, <1>1, BecomesTypes DEF TypeOK
<1>2. ASSUME NEW e \in {0, 90, 91}, Exits(h, e)
      PROVE  TypeOK'
  <2>1. [n EXCEPT !.exit = e] \in Nodes
    BY <1>0 DEF Nodes
  <2> QED BY <1>0, <1>1, <1>2, <2>1 DEF Exits, Steps, Ended
<1>3. CASE \/ SetUp(h) \/ MetadataFails(h) \/ StartSuite(h)
  BY <1>0, <1>1, <1>3 DEF SetUp, MetadataFails, StartSuite, Steps, Caught
<1>4. CASE \/ NoScratch(h) \/ NoNodeDirectory(h) \/ StatusFails(h) \/ Finish(h)
  BY <1>2, <1>4 DEF NoScratch, NoNodeDirectory, StatusFails, Finish
<1>5. CASE WriteMetadata(h)
  <2>1. [n EXCEPT !.metadata = TRUE] \in Nodes
    BY ZenonT(60), <1>0 DEF Nodes
  <2> QED BY <1>0, <1>1, <1>5, <2>1 DEF WriteMetadata, Steps, Caught
<1>6. CASE EndSuite(h)
  <2>1. PICK e \in Outcomes :
           Becomes(h, [n EXCEPT !.suite = e[1], !.raw = e[2]], "measured")
    BY <1>6 DEF EndSuite
  <2>2. e[1] \in {0, 1, 137} /\ e[2] \in Raws
    BY WaveAssumption DEF SuiteEnds, Raws
  <2> DEFINE a == [n EXCEPT !.suite = e[1]]
  <2>a. a \in Nodes
    BY <1>0, <2>2 DEF Nodes
  <2>b. [a EXCEPT !.raw = e[2]] \in Nodes
    BY ZenonT(60), <2>2, <2>a DEF Nodes
  <2>3. [n EXCEPT !.suite = e[1], !.raw = e[2]] \in Nodes
    BY <2>b
  <2> QED BY <1>0, <1>1, <1>6, <2>1, <2>3 DEF EndSuite, Steps, Caught
<1>8. CASE Leave(h)
  <2>1. [n EXCEPT !.process = n.runner] \in Nodes
    BY <1>0 DEF Nodes
  <2> QED BY <1>0, <1>1, <1>8, <2>1 DEF Leave, Steps, Collecting
<1>9. CASE HandleSignal(h)
  <2> DEFINE a == [n EXCEPT !.pending = FALSE]
             b == [a EXCEPT !.term = "TERM"]
  <2>a. a \in Nodes
    BY <1>0, PendingTypes
  <2> HIDE DEF a
  <2>b. b \in Nodes
    BY <2>a DEF Nodes
  <2> HIDE DEF b
  <2>c. [b EXCEPT !.process = 143] \in Nodes
    BY <2>b DEF Nodes
  <2>1. [n EXCEPT !.pending = FALSE, !.term = "TERM", !.process = 143] \in Nodes
    BY <2>c DEF a, b
  <2> QED BY <1>0, <1>1, <1>9, <2>1 DEF HandleSignal, Steps, Collecting
<1>10. CASE MakeNodeDirectory(h) \/ CopyFails(h)
  <2>1. tree' \in [Hosts -> Trees]
    BY <1>10, TreeTypes
  <2> QED BY <1>0, <1>1, <1>10, <2>1 DEF MakeNodeDirectory, CopyFails, Steps, Collecting
<1>11. CASE Copy(h)
  <2>1. [n EXCEPT !.copied = TRUE] \in Nodes
    BY ZenonT(60), <1>0 DEF Nodes
  <2>2. tree' \in [Hosts -> Trees]
    BY <1>11, TreeTypes DEF Copy
  <2> QED BY <1>1, <1>11, <2>1, <2>2 DEF Copy, Steps, Collecting
<1>12. CASE WriteStatus(h)
  <2>1. tree' \in [Hosts -> Trees]
    BY <1>12, TreeTypes DEF WriteStatus
  <2> QED BY <1>0, <1>1, <1>12, <2>1 DEF WriteStatus, Steps, Collecting
<1>13. CASE OrphanEnds(h)
  <2>1. [n EXCEPT !.orphan = None] \in Nodes
    BY <1>0 DEF Nodes
  <2>2. tree' \in [Hosts -> Trees]
    BY <1>13, TreeTypes DEF OrphanEnds
  <2> QED BY <1>1, <1>13, <2>1, <2>2 DEF OrphanEnds, Steps, Ended
<1>7. CASE AssignRunnerExit(h)
  <2>1. [n EXCEPT !.runner = n.suite] \in Nodes
    BY <1>0, <1>7 DEF Nodes, NodeInv, AssignRunnerExit, At
  <2> QED BY <1>0, <1>1, <1>7, <2>1 DEF AssignRunnerExit, Steps, Caught
<1> QED
  BY <1>3, <1>4, <1>5, <1>6, <1>7, <1>8, <1>9, <1>10, <1>11, <1>12, <1>13 DEF NodeStep

\* So does a death, with or without a child that goes on.
LEMMA DiesTypes ==
    ASSUME TypeOK, NEW h \in Hosts, NEW e \in {137, 143}, Dies(h, e)
    PROVE  node' \in [Hosts -> Nodes] /\ tree' \in [Hosts -> Trees]
<1> DEFINE n == node[h]
<1>1. n \in Nodes /\ node \in [Hosts -> Nodes] /\ tree \in [Hosts -> Trees]
  BY DEF TypeOK
<1>2. PICK o \in {None} \cup ({n.step} \cap {"copy", "status"}) :
         node' = [node EXCEPT ![h] = [@ EXCEPT !.step = "dead", !.exit = e,
                                               !.pending = FALSE, !.orphan = o]]
  BY DEF Dies
<1> DEFINE a == [n EXCEPT !.pending = FALSE]
           b == [a EXCEPT !.step = "dead"]
           c == [b EXCEPT !.exit = e]
           d == [c EXCEPT !.orphan = o]
<1>3. a \in Nodes
  BY <1>1, PendingTypes
<1> HIDE DEF a
<1>4. b \in Nodes
  BY <1>3 DEF Nodes, Steps, Ended
<1> HIDE DEF b
<1>5. c \in Nodes
  BY <1>4 DEF Nodes
<1> HIDE DEF c
<1>6. d \in Nodes
  BY <1>5 DEF Nodes
<1>7. [n EXCEPT !.step = "dead", !.exit = e, !.pending = FALSE, !.orphan = o] \in Nodes
  <2>1. d = [n EXCEPT !.step = "dead", !.exit = e, !.pending = FALSE, !.orphan = o]
    BY <1>1 DEF Nodes, a, b, c
  <2> QED BY <2>1, <1>6
<1>8. node' \in [Hosts -> Nodes]
  BY <1>1, <1>2, <1>7
<1>9. tree' \in [Hosts -> Trees]
  BY <1>1, TreeTypes DEF Dies
<1> QED BY <1>8, <1>9

\* Signals, mpirun and the collector keep the types.
LEMMA OtherTypes ==
    ASSUME TypeOK, MpirunStep \/ CollectorStep \/ Disturbance
    PROVE  TypeOK'
<1>0. /\ node \in [Hosts -> Nodes] /\ tree \in [Hosts -> Trees]
      /\ interrupts \in 0 .. Interrupts /\ Interrupts \in Nat
      /\ collector \in [phase : {"waiting", "reading", "hashing", "done"},
                        seen : SUBSET Hosts, failed : BOOLEAN,
                        artifacts : [Hosts -> Trees]]
  BY WaveAssumption DEF TypeOK
<1>1. ASSUME Interrupt PROVE interrupts' \in 0 .. Interrupts
  BY <1>0, <1>1 DEF Interrupt
<1>2. CASE MpirunStep
  BY <1>2 DEF MpirunStep, MpirunAborts, MpirunEnds, TypeOK
<1>3. CASE MpirunLost
  BY <1>0, <1>3 DEF MpirunLost, TypeOK
<1>4. ASSUME NEW h \in Hosts, Kill(h) PROVE TypeOK'
  <2>1. node' \in [Hosts -> Nodes] /\ tree' \in [Hosts -> Trees]
    BY <1>4, DiesTypes DEF Kill
  <2> QED BY <1>1, <1>4, <2>1 DEF Kill, Dies, TypeOK
<1>5. ASSUME NEW h \in Hosts, Term(h) PROVE TypeOK'
  <2>1. CASE /\ node' = [node EXCEPT ![h].pending = TRUE]
             /\ UNCHANGED <<placed, tree, mpi, collector>>
    <3>1. [node[h] EXCEPT !.pending = TRUE] \in Nodes
      BY <1>0, PendingTypes
    <3>2. node' \in [Hosts -> Nodes]
      BY <1>0, <2>1, <3>1
    <3> QED BY <1>1, <1>5, <2>1, <3>2 DEF Term, TypeOK
  <2>2. CASE Dies(h, 143)
    <3>1. node' \in [Hosts -> Nodes] /\ tree' \in [Hosts -> Trees]
      BY <2>2, DiesTypes
    <3> QED BY <1>1, <1>5, <2>2, <3>1 DEF Term, Dies, TypeOK
  <2> QED BY <1>5, <2>1, <2>2 DEF Term
<1>6. CASE CollectorStep
  <2> DEFINE C == [phase : {"waiting", "reading", "hashing", "done"},
                   seen : SUBSET Hosts, failed : BOOLEAN,
                   artifacts : [Hosts -> Trees]]
  <2>1. \A c \in C, v \in BOOLEAN : [c EXCEPT !.failed = v] \in C
    OBVIOUS
  <2>2. ASSUME NEW c \in C, Collector(c) PROVE TypeOK'
    BY <2>2 DEF Collector, TypeOK
  <2>3. CASE StartCollector
    <3>1. PICK v \in BOOLEAN :
             Collector([collector EXCEPT !.phase = "reading", !.failed = v])
      BY <2>3 DEF StartCollector
    <3>2. [collector EXCEPT !.failed = v] \in C
      BY <1>0, <2>1
    <3>3. [[collector EXCEPT !.failed = v] EXCEPT !.phase = "reading"] \in C
      BY <3>2
    <3>4. [collector EXCEPT !.phase = "reading", !.failed = v] \in C
      BY <1>0, <3>3
    <3> QED BY <2>2, <3>1, <3>4
  <2>4. ASSUME NEW h \in Hosts, ReadNode(h) PROVE TypeOK'
    <3> DEFINE v == collector.failed \/ ~NodeAccepted(tree[h], Rank[h], node[h].raw)
               s == collector.seen \cup {h}
    <3>1. v \in BOOLEAN
      OBVIOUS
    <3>2. s \in SUBSET Hosts
      BY <1>0
    <3>3. [collector EXCEPT !.failed = v] \in C
      BY <1>0, <2>1, <3>1
    <3>4. Collector([collector EXCEPT !.seen = s, !.failed = v])
      BY <2>4 DEF ReadNode
    <3> HIDE DEF v, s
    <3>5. [[collector EXCEPT !.failed = v] EXCEPT !.seen = s] \in C
      BY <3>2, <3>3
    <3>6. [collector EXCEPT !.seen = s, !.failed = v] \in C
      BY <1>0, <3>5
    <3> QED BY <2>2, <3>4, <3>6
  <2>5. ASSUME NEW h \in Hosts, HashNode(h) PROVE TypeOK'
    BY <1>0, <2>5 DEF HashNode, Collector, TypeOK
  <2>6. CASE StartHashing \/ WriteManifest
    BY <1>0, <2>6 DEF StartHashing, WriteManifest, Collector, TypeOK
  <2> QED BY <1>6, <2>3, <2>4, <2>5, <2>6 DEF CollectorStep
<1> QED
  BY <1>2, <1>3, <1>4, <1>5, <1>6 DEF Disturbance

-----------------------------------------------------------------------------
(* The invariant of the nodes.                                             *)

\* A step of one node leaves every other alone, and the placement.
LEMMA Others ==
    ASSUME TypeOK, NEW h \in Hosts, NEW g \in Hosts \ {h},
           NodeStep(h) \/ Term(h) \/ Kill(h)
    PROVE  node'[g] = node[g] /\ tree'[g] = tree[g] /\ placed' = placed
<1>0. node \in [Hosts -> Nodes] /\ tree \in [Hosts -> Trees]
  BY DEF TypeOK
<1>1. CASE NodeStep(h)
  BY <1>0, <1>1 DEF NodeStep, SetUp, NoScratch, WriteMetadata, MetadataFails,
     StartSuite, EndSuite, AssignRunnerExit, Leave, HandleSignal, MakeNodeDirectory,
     NoNodeDirectory, Copy, CopyFails, WriteStatus, StatusFails, Finish, OrphanEnds,
     Becomes, Exits, Whole, Reports
<1>2. CASE Term(h) \/ Kill(h)
  BY <1>0, <1>2 DEF Term, Kill, Dies
<1> QED BY <1>1, <1>2

\* What a node's invariant is about.
LEMMA Framed ==
    ASSUME NEW g, NodeInv(g), node'[g] = node[g], tree'[g] = tree[g], placed' = placed
    PROVE  NodeInv(g)'
BY DEF NodeInv, SaysTrue, Reported, InScratch

\* A shell that dies ends its step, and leaves a child only of the copy or of the
\* status tool it was running; the rest of its state is what it was.
LEMMA Died ==
    ASSUME TypeOK, NEW h \in Hosts, NEW e, Dies(h, e)
    PROVE  /\ node'[h].step = "dead"
           /\ node'[h].orphan = None \/ node[h].step \in {"copy", "status"}
           /\ node'[h].raw = node[h].raw
           /\ node'[h].runner = node[h].runner
           /\ node'[h].suite = node[h].suite
           /\ node'[h].copied = node[h].copied
           /\ node'[h].metadata = node[h].metadata
<1>1. node \in [Hosts -> Nodes] /\ node[h] \in Nodes
  BY DEF TypeOK
<1>2. PICK o \in {None} \cup ({node[h].step} \cap {"copy", "status"}) :
         node' = [node EXCEPT ![h] = [@ EXCEPT !.step = "dead", !.exit = e,
                                               !.pending = FALSE, !.orphan = o]]
  BY DEF Dies
<1>3. PICK v \in BOOLEAN : v = FALSE
  OBVIOUS
<1>4. node'[h] = [node[h] EXCEPT !.step = "dead", !.exit = e, !.pending = v, !.orphan = o]
  BY <1>1, <1>2, <1>3, Zenon
<1> QED BY <1>1, <1>4 DEF Nodes

\* collect_node: once the status is readable, the node's directory and raw file
\* are final.
LEMMA SealedStep ==
    ASSUME TypeOK, NodesInv, [Next]_vars, NEW g \in Hosts, Reported(g)
    PROVE  tree'[g] = tree[g] /\ node'[g].raw = node[g].raw
<1>0. /\ node \in [Hosts -> Nodes] /\ tree \in [Hosts -> Trees]
      /\ node[g].step \in {"finishing"} \cup Ended /\ node[g].orphan = None
  BY DEF TypeOK, NodesInv, NodeInv
<1>1. CASE UNCHANGED vars
  BY <1>1 DEF vars
<1>2. CASE NodeStep(g)
  <2>1. Finish(g)
    BY <1>0, <1>2 DEF NodeStep, SetUp, NoScratch, WriteMetadata, MetadataFails,
       StartSuite, EndSuite, AssignRunnerExit, Leave, HandleSignal,
       MakeNodeDirectory, NoNodeDirectory, Copy, CopyFails, WriteStatus,
       StatusFails, OrphanEnds, At, Caught, Ended
  <2> QED BY <1>0, <2>1 DEF Finish, Exits, Becomes, Nodes
<1>3. CASE Term(g) \/ Kill(g)
  <2>1. node[g] \in Nodes /\ node[g].step \notin Caught /\ ~At(g, "status")
    BY <1>0 DEF At, Caught, Ended
  <2>2. Dies(g, 143) \/ Dies(g, 137)
    BY <1>3, <2>1 DEF Term, Kill
  <2>3. tree' = tree
    BY <2>1, <2>2 DEF Dies
  <2>4. node'[g].raw = node[g].raw
    BY <2>2, Died
  <2> QED BY <2>3, <2>4
<1>4. ASSUME NEW h \in Hosts, h # g, NodeStep(h) \/ Term(h) \/ Kill(h)
      PROVE  tree'[g] = tree[g] /\ node'[g].raw = node[g].raw
  BY <1>4, Others
<1>5. CASE MpirunStep \/ CollectorStep \/ MpirunLost
  BY <1>5 DEF MpirunStep, MpirunAborts, MpirunEnds, MpirunLost, CollectorStep,
     StartCollector, ReadNode, StartHashing, HashNode, WriteManifest, Collector
<1> QED BY <1>1, <1>2, <1>3, <1>4, <1>5 DEF Next, Disturbance

\* A node that measures, or gives up before it collects: nothing is published.
LEMMA MeasuringKeepsInv ==
    ASSUME TypeOK, NEW h \in Hosts, NodeInv(h),
           \/ SetUp(h) \/ NoScratch(h) \/ WriteMetadata(h) \/ MetadataFails(h)
           \/ StartSuite(h) \/ EndSuite(h) \/ AssignRunnerExit(h) \/ Leave(h)
           \/ HandleSignal(h) \/ NoNodeDirectory(h)
    PROVE  NodeInv(h)'
<1> DEFINE n == node[h]
<1>1. /\ node \in [Hosts -> Nodes] /\ n \in Nodes
      /\ placed \in [Hosts -> Nat] /\ tree \in [Hosts -> Trees]
  BY DEF TypeOK
<1>2. /\ n.step \in {"begin", "collect"} \cup Caught
      /\ UNCHANGED tree /\ ~Reported(h)
  <2>1. n.step \in {"begin", "collect"} \cup Caught /\ UNCHANGED tree
    BY DEF SetUp, NoScratch, WriteMetadata, MetadataFails, StartSuite, EndSuite,
       AssignRunnerExit, Leave, HandleSignal, NoNodeDirectory, Exits, At, Caught
  <2> QED BY <2>1 DEF NodeInv, Ended, Caught
<1>3. ~Reported(h)' /\ ~n.copied /\ n.orphan = None
  BY <1>2 DEF Reported, NodeInv, Caught, Ended
<1>a. /\ n.runner = 0 => n.suite = 0
      /\ n.suite = 0 => n.raw \in {"full", "alien", "empty"}
      /\ n.suite # Running => n.step \notin {"begin", "trapped", "ready", "suite"}
      /\ n.step = "measured" => n.suite # Running
  BY DEF NodeInv
<1>b. ASSUME node'[h].orphan = None, ~node'[h].copied,
             node'[h].runner = 0 => node'[h].suite = 0,
             node'[h].suite = 0 => node'[h].raw \in {"full", "alien", "empty"},
             node'[h].suite # Running
                => node'[h].step \notin {"begin", "trapped", "ready", "suite"},
             node'[h].step = "measured" => node'[h].suite # Running
      PROVE  NodeInv(h)'
  BY <1>3, <1>b DEF NodeInv
<1>c. ASSUME NEW m \in Nodes, NEW s, Becomes(h, m, s)
      PROVE  /\ node'[h].step = s
             /\ node'[h].orphan = m.orphan /\ node'[h].copied = m.copied
             /\ node'[h].runner = m.runner /\ node'[h].suite = m.suite
             /\ node'[h].raw = m.raw
  BY <1>1, <1>c DEF Becomes, Nodes
<1>4. ASSUME NEW s, NEW m \in Nodes, Becomes(h, m, s), m.orphan = None, ~m.copied,
             m.runner = 0 => m.suite = 0,
             m.suite = 0 => m.raw \in {"full", "alien", "empty"},
             m.suite # Running => s \notin {"begin", "trapped", "ready", "suite"},
             s = "measured" => m.suite # Running
      PROVE  NodeInv(h)'
  <2>1. /\ node'[h].step = s
        /\ node'[h].orphan = m.orphan /\ node'[h].copied = m.copied
        /\ node'[h].runner = m.runner /\ node'[h].suite = m.suite
        /\ node'[h].raw = m.raw
    BY <1>c, <1>4
  <2> QED BY <1>b, <1>4, <2>1
<1>5. ASSUME NEW s \in {"trapped", "ready", "suite"},
             n.step \in {"begin", "trapped", "ready"}
      PROVE  n.suite = Running /\ s # "measured"
  BY <1>a, <1>5
<1>6. CASE SetUp(h) \/ StartSuite(h)
  <2>1. PICK s \in {"trapped", "suite"} : Becomes(h, n, s)
    BY <1>6 DEF SetUp, StartSuite
  <2>2. n.step \in {"begin", "ready"}
    BY <1>6 DEF SetUp, StartSuite, At
  <2>3. n.suite = Running
    BY <1>5, <2>2
  <2> QED BY <1>1, <1>3, <1>4, <1>a, <2>1, <2>3
<1>7. CASE MetadataFails(h)
  <2>1. Becomes(h, n, "leaving")
    BY <1>7 DEF MetadataFails
  <2> QED BY <1>1, <1>3, <1>4, <1>a, <2>1
<1>8. CASE NoScratch(h) \/ NoNodeDirectory(h)
  <2> DEFINE m == [n EXCEPT !.exit = 90]
  <2>1. Becomes(h, m, "exited")
    BY <1>8 DEF NoScratch, NoNodeDirectory, Exits
  <2>2. /\ m \in Nodes /\ m.orphan = n.orphan /\ m.copied = n.copied
        /\ m.runner = n.runner /\ m.suite = n.suite /\ m.raw = n.raw
    BY <1>1 DEF Nodes
  <2> HIDE DEF m
  <2> QED BY <1>3, <1>4, <1>a, <2>1, <2>2
<1>9. CASE WriteMetadata(h)
  <2> DEFINE m == [n EXCEPT !.metadata = TRUE]
  <2>1. Becomes(h, m, "ready") /\ n.step = "trapped"
    BY <1>9 DEF WriteMetadata, At
  <2>2. /\ m \in Nodes /\ m.orphan = n.orphan /\ m.copied = n.copied
        /\ m.runner = n.runner /\ m.suite = n.suite /\ m.raw = n.raw
    BY ZenonT(60), <1>1 DEF Nodes
  <2>3. n.suite = Running
    BY <1>5, <2>1
  <2> HIDE DEF m
  <2> QED BY <1>3, <1>4, <1>a, <2>1, <2>2, <2>3
<1>10. CASE EndSuite(h)
  <2>1. PICK e \in Outcomes :
           Becomes(h, [n EXCEPT !.suite = e[1], !.raw = e[2]], "measured")
    BY <1>10 DEF EndSuite
  <2>2. /\ e[1] \in {0, 1, 137} /\ e[1] # Running /\ e[2] \in Raws
        /\ e[1] = 0 => e[2] \in {"full", "alien", "empty"}
    BY WaveAssumption DEF SuiteEnds, Running, Raws
  <2>3. n.step = "suite"
    BY <1>10 DEF EndSuite, At
  <2>4. n.suite = Running
    BY <1>a, <2>3
  <2>5. n.runner # 0
    BY <1>a, <2>4 DEF Running
  <2> DEFINE a == [n EXCEPT !.suite = e[1]]
             m == [a EXCEPT !.raw = e[2]]
  <2>6. /\ a \in Nodes /\ a.orphan = n.orphan /\ a.copied = n.copied
        /\ a.runner = n.runner /\ a.suite = e[1]
    BY <1>1, <2>2 DEF Nodes
  <2> HIDE DEF a
  <2>7. /\ m \in Nodes /\ m.orphan = a.orphan /\ m.copied = a.copied
        /\ m.runner = a.runner /\ m.suite = a.suite /\ m.raw = e[2]
    BY <2>2, <2>6 DEF Nodes
  <2>8. Becomes(h, m, "measured")
    BY <2>1 DEF a
  <2> HIDE DEF m
  <2> QED BY <1>3, <1>4, <2>2, <2>5, <2>6, <2>7, <2>8
<1>11. CASE AssignRunnerExit(h)
  <2> DEFINE m == [n EXCEPT !.runner = n.suite]
  <2>1. Becomes(h, m, "leaving") /\ n.step = "measured"
    BY <1>11 DEF AssignRunnerExit, At
  <2>2. n.suite # Running
    BY <1>a, <2>1
  <2>3. /\ m \in Nodes /\ m.orphan = n.orphan /\ m.copied = n.copied
        /\ m.runner = n.suite /\ m.suite = n.suite /\ m.raw = n.raw
    BY <1>1, <2>2 DEF Nodes
  <2> HIDE DEF m
  <2> QED BY <1>3, <1>4, <1>a, <2>1, <2>3
<1>12. CASE Leave(h)
  <2> DEFINE m == [n EXCEPT !.process = n.runner]
  <2>1. Becomes(h, m, "collect")
    BY <1>12 DEF Leave
  <2>2. /\ m \in Nodes /\ m.orphan = n.orphan /\ m.copied = n.copied
        /\ m.runner = n.runner /\ m.suite = n.suite /\ m.raw = n.raw
    BY <1>1 DEF Nodes
  <2> HIDE DEF m
  <2> QED BY <1>3, <1>4, <1>a, <2>1, <2>2
<1>13. CASE HandleSignal(h)
  <2>1. PICK v \in BOOLEAN : v = FALSE
    OBVIOUS
  <2> DEFINE a == [n EXCEPT !.pending = v]
             b == [a EXCEPT !.term = "TERM"]
             m == [b EXCEPT !.process = 143]
  <2>2. a \in Nodes
    BY <1>1, PendingTypes
  <2>3. /\ a.orphan = n.orphan /\ a.copied = n.copied
        /\ a.runner = n.runner /\ a.suite = n.suite /\ a.raw = n.raw
    BY <1>1 DEF Nodes
  <2> HIDE DEF a
  <2>4. /\ b \in Nodes /\ b.orphan = a.orphan /\ b.copied = a.copied
        /\ b.runner = a.runner /\ b.suite = a.suite /\ b.raw = a.raw
    BY <2>2 DEF Nodes
  <2>5. Becomes(h, m, "collect")
    BY <1>13, <2>1, Zenon DEF HandleSignal, a
  <2> HIDE DEF b
  <2>6. /\ m \in Nodes /\ m.orphan = b.orphan /\ m.copied = b.copied
        /\ m.runner = b.runner /\ m.suite = b.suite /\ m.raw = b.raw
    BY <2>4 DEF Nodes
  <2> HIDE DEF m
  <2> QED BY <1>3, <1>4, <1>a, <2>3, <2>4, <2>5, <2>6
<1> QED BY <1>6, <1>7, <1>8, <1>9, <1>10, <1>11, <1>12, <1>13

\* A status that is written tells the truth of the node that wrote it.
LEMMA ReportsTruth ==
    ASSUME TypeOK, NEW h \in Hosts, Reports(h), placed' = placed,
           node'[h].runner = node[h].runner, node'[h].raw = node[h].raw,
           node'[h].copied = node[h].copied
    PROVE  /\ SaysTrue(h)'
           /\ \A p \in Parts : tree'[h].files[p] = tree[h].files[p]
<1> DEFINE b == BenchmarkStatus(node[h].runner, node[h].raw)
           v == VerificationStatus(node[h].raw)
           c == CollectionStatus(h)
           says == NodeStatus(h)
<1>1. tree \in [Hosts -> Trees] /\ tree[h] \in Trees /\ tree[h].files \in [Files -> Copies]
  BY DEF TypeOK, Trees
<1>2. /\ tree'[h].says = says
      /\ \A p \in Parts : tree'[h].files[p] = tree[h].files[p]
  BY <1>1 DEF Reports, Trees, Parts, Files
<1>3. /\ says.rank = placed[h] /\ says.benchmark = b /\ says.verification = v
      /\ says.collection = c /\ says.status = OverallStatus(b, v, c)
  BY DEF NodeStatus
<1>4. b = "success" => /\ node[h].runner = 0
                       /\ Classifiable(node[h].raw) /\ node[h].raw # "failed"
  BY DEF BenchmarkStatus, Classify
<1>5. c = "success" => node[h].copied
  BY DEF CollectionStatus
<1>6. OverallStatus(b, v, c) = "success" => b = "success" /\ v = "success" /\ c = "success"
  BY DEF OverallStatus
<1> HIDE DEF b, v, c, says
<1> QED BY <1>2, <1>3, <1>4, <1>5, <1>6 DEF SaysTrue

\* What cp does to the directory, and that it does not touch the status file.
LEMMA CopiedFiles ==
    ASSUME TypeOK, NEW h \in Hosts
    PROVE  /\ Whole(h) => /\ \A p \in InScratch(h) : tree'[h].files[p] = "whole"
                          /\ tree'[h].files["status"] = tree[h].files["status"]
           /\ MakeNodeDirectory(h) \/ CopyFails(h)
                 => tree'[h].files["status"] = tree[h].files["status"]
           /\ tree' = [tree EXCEPT ![h].files["status"] = "torn"]
                 => /\ tree'[h].files["status"] = "torn"
                    /\ \A p \in InScratch(h) : tree'[h].files[p] = tree[h].files[p]
<1>1. tree \in [Hosts -> Trees] /\ tree[h] \in Trees /\ tree[h].files \in [Files -> Copies]
  BY DEF TypeOK, Trees
<1>2. InScratch(h) \subseteq Files /\ "status" \in Files \ InScratch(h)
  BY DEF InScratch, Files, Parts
<1>3. ASSUME Whole(h)
      PROVE  /\ \A p \in InScratch(h) : tree'[h].files[p] = "whole"
             /\ tree'[h].files["status"] = tree[h].files["status"]
  BY <1>1, <1>2, <1>3 DEF Whole, Trees
<1>4. ASSUME MakeNodeDirectory(h)
      PROVE  tree'[h].files["status"] = tree[h].files["status"]
  BY <1>1, <1>2, <1>4 DEF MakeNodeDirectory, Trees
<1>5. ASSUME CopyFails(h)
      PROVE  tree'[h].files["status"] = tree[h].files["status"]
  BY <1>1, <1>2, <1>5 DEF CopyFails, Trees
<1>6. ASSUME tree' = [tree EXCEPT ![h].files["status"] = "torn"]
      PROVE  /\ tree'[h].files["status"] = "torn"
             /\ \A p \in InScratch(h) : tree'[h].files[p] = tree[h].files[p]
  BY <1>1, <1>2, <1>6 DEF Trees
<1> QED BY <1>3, <1>4, <1>5, <1>6

\* A node that has measured keeps what it knows; what is left to show is that its
\* copies and its status are as the invariant says.
LEMMA MeasuredKeepsInv ==
    ASSUME TypeOK, NEW h \in Hosts, NodeInv(h),
           node'[h].step \in {"copy", "status", "finishing", "exited", "dead"},
           node'[h].runner = node[h].runner, node'[h].suite = node[h].suite,
           node'[h].raw = node[h].raw, node'[h].metadata = node[h].metadata,
           node'[h].step # "dead" => node'[h].orphan = None,
           Reported(h)' => /\ node'[h].step \in {"finishing", "exited", "dead"}
                           /\ node'[h].orphan = None
                           /\ SaysTrue(h)',
           node'[h].copied
              => /\ node'[h].step \in {"status", "finishing", "exited", "dead"}
                 /\ \A p \in InScratch(h) : tree'[h].files[p] = "whole"
    PROVE  NodeInv(h)'
<1>1. InScratch(h)' = InScratch(h)
  BY DEF InScratch
<1>2. /\ node[h].runner = 0 => node[h].suite = 0
      /\ node[h].suite = 0 => node[h].raw \in {"full", "alien", "empty"}
  BY DEF NodeInv
<1> QED BY <1>1, <1>2 DEF NodeInv, Ended

\* A node that collects, or whose child ends after it.
LEMMA CollectingKeepsInv ==
    ASSUME TypeOK, NEW h \in Hosts, NodeInv(h),
           \/ MakeNodeDirectory(h) \/ Copy(h) \/ CopyFails(h) \/ WriteStatus(h)
           \/ StatusFails(h) \/ Finish(h) \/ OrphanEnds(h)
    PROVE  NodeInv(h)'
<1> DEFINE n == node[h]
<1>1. /\ node \in [Hosts -> Nodes] /\ n \in Nodes
      /\ tree \in [Hosts -> Trees] /\ placed' = placed
  BY DEF TypeOK, MakeNodeDirectory, Copy, CopyFails, WriteStatus, StatusFails, Finish,
     OrphanEnds, Exits, Becomes
<1>2. ASSUME NEW m \in Nodes, NEW s, Becomes(h, m, s)
      PROVE  /\ node'[h].step = s /\ node'[h].orphan = m.orphan
             /\ node'[h].copied = m.copied /\ node'[h].metadata = m.metadata
             /\ node'[h].runner = m.runner /\ node'[h].suite = m.suite
             /\ node'[h].raw = m.raw
  BY <1>1, <1>2 DEF Becomes, Nodes
<1>3. /\ n.step # "dead" => n.orphan = None
      /\ Reported(h) => /\ n.step \in {"finishing", "exited", "dead"}
                        /\ n.orphan = None /\ SaysTrue(h)
      /\ n.copied => /\ n.step \in {"status", "finishing", "exited", "dead"}
                     /\ \A p \in InScratch(h) : tree[h].files[p] = "whole"
  BY DEF NodeInv, Ended
<1>4. CASE MakeNodeDirectory(h) \/ CopyFails(h)
  <2>1. PICK s \in {"copy", "status"} : Becomes(h, n, s)
    BY <1>4 DEF MakeNodeDirectory, CopyFails
  <2>2. n.step \in {"collect", "copy"}
    BY <1>4 DEF MakeNodeDirectory, CopyFails, At
  <2>3. ~Reported(h)'
    BY <1>3, <1>4, <2>2, CopiedFiles DEF Reported
  <2> QED BY <1>1, <1>2, <1>3, <2>1, <2>2, <2>3, MeasuredKeepsInv
<1>5. CASE Copy(h)
  <2> DEFINE m == [n EXCEPT !.copied = TRUE]
  <2>1. Becomes(h, m, "status") /\ n.step = "copy" /\ Whole(h)
    BY <1>5 DEF Copy, At
  <2>2. /\ m \in Nodes /\ m.orphan = n.orphan /\ m.metadata = n.metadata
        /\ m.runner = n.runner /\ m.suite = n.suite /\ m.raw = n.raw
    BY ZenonT(60), <1>1 DEF Nodes
  <2>3. ~Reported(h)'
    BY <1>3, <2>1, CopiedFiles DEF Reported
  <2>4. \A p \in InScratch(h) : tree'[h].files[p] = "whole"
    BY <2>1, CopiedFiles
  <2> HIDE DEF m
  <2> QED BY <1>2, <1>3, <2>1, <2>2, <2>3, <2>4, MeasuredKeepsInv
<1>6. CASE WriteStatus(h)
  <2>1. Becomes(h, n, "finishing") /\ n.step = "status" /\ Reports(h)
    BY <1>6 DEF WriteStatus, At
  <2>2. /\ node'[h].step = "finishing" /\ node'[h].orphan = None
        /\ node'[h].copied = n.copied /\ node'[h].metadata = n.metadata
        /\ node'[h].runner = n.runner /\ node'[h].suite = n.suite
        /\ node'[h].raw = n.raw
    BY <1>1, <1>2, <1>3, <2>1
  <2>3. SaysTrue(h)' /\ \A p \in Parts : tree'[h].files[p] = tree[h].files[p]
    BY <1>1, <2>1, <2>2, ReportsTruth
  <2>4. InScratch(h) \subseteq Parts
    BY DEF InScratch, Parts
  <2> QED BY <1>3, <2>2, <2>3, <2>4, MeasuredKeepsInv
<1>7. CASE StatusFails(h) \/ Finish(h)
  <2>1. PICK e \in {0, 91} : Becomes(h, [n EXCEPT !.exit = e], "exited") /\ tree' = tree
    BY <1>7 DEF StatusFails, Finish, Exits
  <2> DEFINE m == [n EXCEPT !.exit = e]
  <2>2. /\ m \in Nodes /\ m.orphan = n.orphan /\ m.metadata = n.metadata
        /\ m.copied = n.copied
        /\ m.runner = n.runner /\ m.suite = n.suite /\ m.raw = n.raw
    BY <1>1 DEF Nodes
  <2>3. n.step \in {"status", "finishing"}
    BY <1>7 DEF StatusFails, Finish, At
  <2> HIDE DEF m
  <2>4. /\ node'[h].step = "exited" /\ node'[h].orphan = None
        /\ node'[h].copied = n.copied /\ node'[h].metadata = n.metadata
        /\ node'[h].runner = n.runner /\ node'[h].suite = n.suite
        /\ node'[h].raw = n.raw
    BY ZenonT(60), <1>2, <1>3, <2>1, <2>2, <2>3 DEF m
  <2>5. Reported(h)' => SaysTrue(h)'
    BY <1>1, <1>3, <2>1, <2>4 DEF Reported, SaysTrue
  <2> QED BY <1>3, <2>1, <2>4, <2>5, MeasuredKeepsInv
<1>8. CASE OrphanEnds(h)
  <2> DEFINE m == [n EXCEPT !.orphan = None]
  <2>1. /\ Becomes(h, m, "dead") /\ n.step = "dead" /\ n.orphan # None
        /\ Whole(h) \/ Reports(h)
    BY <1>8 DEF OrphanEnds, At
  <2>2. /\ m \in Nodes /\ m.orphan = None /\ m.metadata = n.metadata
        /\ m.copied = n.copied
        /\ m.runner = n.runner /\ m.suite = n.suite /\ m.raw = n.raw
    BY <1>1 DEF Nodes
  <2> HIDE DEF m
  <2>3. /\ node'[h].step = "dead" /\ node'[h].orphan = None
        /\ node'[h].copied = n.copied /\ node'[h].metadata = n.metadata
        /\ node'[h].runner = n.runner /\ node'[h].suite = n.suite
        /\ node'[h].raw = n.raw
    BY <1>2, <2>1, <2>2
  <2>4. CASE Whole(h)
    <3>1. ~Reported(h)' /\ \A p \in InScratch(h) : tree'[h].files[p] = "whole"
      BY <1>3, <2>1, <2>4, CopiedFiles DEF Reported
    <3> QED BY <2>3, <3>1, MeasuredKeepsInv
  <2>5. CASE Reports(h)
    <3>1. SaysTrue(h)' /\ \A p \in Parts : tree'[h].files[p] = tree[h].files[p]
      BY <1>1, <2>3, <2>5, ReportsTruth
    <3>2. InScratch(h) \subseteq Parts
      BY DEF InScratch, Parts
    <3> QED BY <1>3, <2>3, <3>1, <3>2, MeasuredKeepsInv
  <2> QED BY <2>1, <2>4, <2>5
<1> QED BY <1>4, <1>5, <1>6, <1>7, <1>8

\* A node that a signal reaches.
LEMMA SignalKeepsInv ==
    ASSUME TypeOK, NEW h \in Hosts, NodeInv(h), Term(h) \/ Kill(h)
    PROVE  NodeInv(h)'
<1> DEFINE n == node[h]
<1>1. /\ node \in [Hosts -> Nodes] /\ n \in Nodes
      /\ tree \in [Hosts -> Trees] /\ placed' = placed
  BY DEF TypeOK, Term, Kill, Dies
<1>2. CASE node' = [node EXCEPT ![h].pending = TRUE] /\ tree' = tree
  <2>1. /\ node'[h].step = n.step /\ node'[h].orphan = n.orphan
        /\ node'[h].copied = n.copied /\ node'[h].metadata = n.metadata
        /\ node'[h].runner = n.runner /\ node'[h].suite = n.suite
        /\ node'[h].raw = n.raw
    BY <1>1, <1>2 DEF Nodes
  <2> QED BY <1>1, <1>2, <2>1 DEF NodeInv, SaysTrue, Reported, InScratch
<1>3. ASSUME NEW e \in {137, 143}, Dies(h, e)
      PROVE  NodeInv(h)'
  <2>1. /\ node'[h].step = "dead"
        /\ node'[h].orphan = None \/ n.step \in {"copy", "status"}
        /\ node'[h].copied = n.copied /\ node'[h].metadata = n.metadata
        /\ node'[h].runner = n.runner /\ node'[h].suite = n.suite
        /\ node'[h].raw = n.raw
    BY <1>3, Died
  <2>2. /\ Reported(h) => n.step \in {"finishing", "exited", "dead"} /\ SaysTrue(h)
        /\ n.copied => \A p \in InScratch(h) : tree[h].files[p] = "whole"
    BY DEF NodeInv, Ended
  <2>3. CASE tree' = tree
    <3>1. Reported(h)' => SaysTrue(h)' /\ node'[h].orphan = None
      BY <1>1, <2>1, <2>2, <2>3 DEF Reported, SaysTrue
    <3> QED BY <2>1, <2>2, <2>3, <3>1, MeasuredKeepsInv
  <2>4. CASE tree' = [tree EXCEPT ![h].files["status"] = "torn"]
    <3>1. /\ tree'[h].files["status"] = "torn"
          /\ \A p \in InScratch(h) : tree'[h].files[p] = tree[h].files[p]
      BY <2>4, CopiedFiles
    <3>2. ~Reported(h)'
      BY <3>1 DEF Reported
    <3>3. n.copied => \A p \in InScratch(h) : tree'[h].files[p] = "whole"
      BY <2>2, <3>1
    <3> QED BY <2>1, <3>2, <3>3, MeasuredKeepsInv
  <2> QED BY <1>3, <2>3, <2>4 DEF Dies
<1> QED BY <1>2, <1>3 DEF Term, Kill

\* Every step keeps the invariant of every node.
LEMMA NodesKeepInv ==
    ASSUME TypeOK, NodesInv, [Next]_vars
    PROVE  NodesInv'
<1> SUFFICES ASSUME NEW g \in Hosts PROVE NodeInv(g)'
  BY DEF NodesInv
<1>0. NodeInv(g)
  BY DEF NodesInv
<1>1. CASE NodeStep(g)
  BY <1>0, <1>1, MeasuringKeepsInv, CollectingKeepsInv DEF NodeStep
<1>2. CASE Term(g) \/ Kill(g)
  BY <1>0, <1>2, SignalKeepsInv
<1>3. ASSUME NEW h \in Hosts, h # g, NodeStep(h) \/ Term(h) \/ Kill(h)
      PROVE  NodeInv(g)'
  <2>1. node'[g] = node[g] /\ tree'[g] = tree[g] /\ placed' = placed
    BY <1>3, Others
  <2> QED BY <1>0, <2>1, Framed
<1>4. CASE UNCHANGED <<placed, node, tree>>
  BY <1>0, <1>4, Framed
<1>5. CASE MpirunStep \/ CollectorStep \/ MpirunLost \/ UNCHANGED vars
  BY <1>4, <1>5 DEF MpirunStep, MpirunAborts, MpirunEnds, MpirunLost, CollectorStep,
     StartCollector, ReadNode, StartHashing, HashNode, WriteManifest, Collector, vars
<1> QED BY <1>1, <1>2, <1>3, <1>5 DEF Next, Disturbance

-----------------------------------------------------------------------------
(* The invariant of the collector.                                         *)

\* The collector's step, or nothing that is its own.
LEMMA CollectorMoves ==
    ASSUME TypeOK, [Next]_vars
    PROVE  \/ UNCHANGED collector
           \/ CollectorStep /\ UNCHANGED <<node, tree>>
BY DEF Next, NodeStep, SetUp, NoScratch, WriteMetadata, MetadataFails, StartSuite,
   EndSuite, AssignRunnerExit, Leave, HandleSignal, MakeNodeDirectory, NoNodeDirectory,
   Copy, CopyFails, WriteStatus, StatusFails, Finish, OrphanEnds, Becomes, Exits,
   Disturbance, Term, Kill, Dies, MpirunStep, MpirunAborts, MpirunEnds, MpirunLost,
   CollectorStep, StartCollector, ReadNode, StartHashing, HashNode, WriteManifest,
   Collector, vars

\* What the collector found acceptable stays so: a node it accepts is sealed.
LEMMA CollectorKeepsInv ==
    ASSUME TypeOK, NodesInv, CollectorInv, [Next]_vars
    PROVE  CollectorInv'
<1>0. collector \in [phase : {"waiting", "reading", "hashing", "done"},
                     seen : SUBSET Hosts, failed : BOOLEAN,
                     artifacts : [Hosts -> Trees]]
  BY DEF TypeOK
<1>1. CASE UNCHANGED collector
  <2>1. ASSUME NEW h \in Hosts, Judged(h)
        PROVE  Judged(h)' /\ tree'[h] = tree[h]
    <3>1. Reported(h)
      BY <2>1 DEF Judged, NodeAccepted, Reported
    <3> QED BY <2>1, <3>1, SealedStep DEF Judged
  <2> QED BY <1>0, <1>1, <2>1 DEF CollectorInv
<1>2. ASSUME UNCHANGED <<node, tree>>, NEW h PROVE Judged(h)' = Judged(h)
  BY <1>2 DEF Judged
<1>3. CASE StartCollector
  <2>1. collector'.phase = "reading" /\ collector'.seen = {}
    BY <1>0, <1>3 DEF StartCollector, Collector, CollectorInv
  <2> QED BY <2>1 DEF CollectorInv
<1>4. CASE StartHashing
  <2>1. /\ collector.phase = "reading" /\ collector.seen = Hosts
        /\ collector'.phase = "hashing" /\ collector'.seen = {}
        /\ collector'.failed = collector.failed /\ UNCHANGED <<node, tree>>
    BY <1>0, <1>4 DEF StartHashing, Collector
  <2> QED BY <1>2, <2>1 DEF CollectorInv
<1>5. ASSUME NEW h \in Hosts, ReadNode(h) PROVE CollectorInv'
  <2>1. /\ collector.phase = "reading" /\ collector'.phase = "reading"
        /\ collector'.seen = collector.seen \cup {h} /\ UNCHANGED <<node, tree>>
    BY <1>0, <1>5 DEF ReadNode, Collector
  <2>2. collector'.failed = (collector.failed \/ ~Judged(h))
    BY <1>0, <1>5 DEF ReadNode, Collector, Judged
  <2>3. collector'.failed = FALSE => collector.failed = FALSE /\ Judged(h)
    BY <1>0, <2>2 DEF Judged, NodeAccepted
  <2> QED BY <1>2, <2>1, <2>3 DEF CollectorInv
<1>6. ASSUME NEW h \in Hosts, HashNode(h) PROVE CollectorInv'
  <2>1. /\ collector.phase = "hashing" /\ collector'.phase = "hashing"
        /\ collector'.seen = collector.seen \cup {h}
        /\ collector'.artifacts = [collector.artifacts EXCEPT ![h] = tree[h]]
        /\ collector'.failed = collector.failed /\ UNCHANGED <<node, tree>>
    BY <1>0, <1>6 DEF HashNode, Collector
  <2>2. \A g \in Hosts : collector'.artifacts[g]
           = IF g = h THEN tree[h] ELSE collector.artifacts[g]
    BY <1>0, <2>1
  <2> QED BY <1>0, <1>2, <2>1, <2>2 DEF CollectorInv
<1>7. CASE WriteManifest
  <2>1. /\ collector.phase = "hashing" /\ collector.seen = Hosts
        /\ collector'.phase = "done" /\ collector'.artifacts = collector.artifacts
        /\ collector'.failed = collector.failed /\ UNCHANGED <<node, tree>>
    BY <1>0, <1>7 DEF WriteManifest, Collector
  <2> QED BY <1>2, <2>1 DEF CollectorInv
<1> QED BY <1>1, <1>3, <1>4, <1>5, <1>6, <1>7, CollectorMoves DEF CollectorStep

-----------------------------------------------------------------------------
(* The inductive invariant, and what follows from it.                      *)

\* The inductive invariant of the wave.
THEOREM Invariant == Spec => []IInv
<1>1. Init => IInv
  <2> SUFFICES ASSUME Init PROVE IInv
    OBVIOUS
  <2>1. NewNode \in Nodes
    BY DEF NewNode, Nodes, Steps, Raws, None, Running
  <2>2. NoTree \in Trees
    BY DEF NoTree, Trees, Files, Parts, Copies, NoStatus, Statuses, Results, None
  <2>3. placed \in [Hosts -> Nat] /\ 0 \in 0 .. Interrupts
    BY WaveAssumption DEF Init
  <2>4. TypeOK
    BY <2>1, <2>2, <2>3 DEF Init, TypeOK
  <2>5. \A h \in Hosts : ~Reported(h) /\ node[h] = NewNode
    BY DEF Init, Reported, NoTree, Files
  <2>6. NodesInv
    BY <2>5 DEF NodesInv, NodeInv, NewNode, None, Running
  <2>7. CollectorInv
    BY DEF Init, CollectorInv
  <2> QED BY <2>4, <2>6, <2>7 DEF IInv
<1>2. IInv /\ [Next]_vars => IInv'
  <2> SUFFICES ASSUME IInv, [Next]_vars PROVE IInv'
    OBVIOUS
  <2>1. TypeOK /\ NodesInv /\ CollectorInv
    BY DEF IInv
  <2>2. TypeOK'
    <3>1. CASE UNCHANGED vars
      BY <2>1, <3>1 DEF TypeOK, vars
    <3>2. ASSUME NEW h \in Hosts, NodeStep(h) PROVE TypeOK'
      BY <2>1, <3>2, NodeStepTypes DEF NodesInv
    <3> QED BY <2>1, <3>1, <3>2, OtherTypes DEF Next
  <2>3. NodesInv' /\ CollectorInv'
    BY <2>1, NodesKeepInv, CollectorKeepsInv
  <2> QED BY <2>2, <2>3 DEF IInv
<1> QED BY <1>1, <1>2, PTL DEF Spec

\* Type correctness of the wave.
THEOREM TypeCorrect == Spec => []TypeOK
<1>1. IInv => TypeOK
  BY DEF IInv
<1> QED BY <1>1, Invariant, PTL

\* Once node-status.json is readable nothing changes in the node's directory.
THEOREM Sealed == Spec => StatusSealsTree
<1>1. IInv /\ [Next]_vars
         => [\A h \in Hosts : Reported(h) => tree'[h] = tree[h]]_vars
  BY SealedStep DEF IInv
<1> QED BY <1>1, Invariant, PTL DEF Spec, StatusSealsTree

\* A node that says success has run its whole suite, unless nothing was planned, and
\* published its raw file.
THEOREM SuccessMeasured == Spec => []SuccessIsMeasured
<1>1. IInv => SuccessIsMeasured
  <2> SUFFICES ASSUME IInv, NEW h \in Hosts, Reported(h),
                      tree[h].says.status = "success"
               PROVE  /\ node[h].suite = 0 /\ node[h].raw \in {"full", "empty"}
                      /\ tree[h].files["raw"] = "whole"
    BY DEF SuccessIsMeasured
  <2>1. NodeInv(h) /\ SaysTrue(h)
    BY DEF IInv, NodesInv, NodeInv
  <2>2. /\ node[h].runner = 0 /\ Classifiable(node[h].raw)
        /\ node[h].copied
    BY <2>1 DEF SaysTrue
  <2>3. node[h].suite = 0 /\ node[h].raw \in {"full", "empty"}
    BY <2>1, <2>2 DEF NodeInv, Classifiable
  <2>4. "raw" \in InScratch(h)
    BY <2>3 DEF InScratch
  <2> QED BY <2>1, <2>2, <2>3, <2>4 DEF NodeInv
<1> QED BY <1>1, Invariant, PTL

\* A manifest that says success covers complete measurements on the right ranks.
THEOREM AcceptedMeasured == Spec => []AcceptedIsMeasured
<1>1. IInv => AcceptedIsMeasured
  <2> SUFFICES ASSUME IInv, Accepted, NEW h \in Hosts
               PROVE  /\ node[h].suite = 0 /\ node[h].raw = "full"
                      /\ placed[h] = Rank[h]
                      /\ \A p \in Parts : tree[h].files[p] = "whole"
    BY DEF AcceptedIsMeasured
  <2>1. NodeAccepted(tree[h], Rank[h], node[h].raw)
    BY DEF IInv, TypeOK, CollectorInv, Accepted, Judged
  <2>2. Reported(h) /\ NodeInv(h) /\ SaysTrue(h)
    BY <2>1 DEF IInv, NodesInv, NodeInv, NodeAccepted, Reported
  <2>3. /\ node[h].runner = 0 /\ Classifiable(node[h].raw)
        /\ node[h].copied /\ placed[h] = Rank[h]
    BY <2>1, <2>2 DEF SaysTrue, NodeAccepted
  <2>4. node[h].suite = 0 /\ node[h].raw = "full"
    BY <2>1, <2>2, <2>3 DEF NodeInv, NodeAccepted, Classifiable
  <2>5. {"raw", "logs"} \subseteq InScratch(h) /\ tree[h].files["metadata"] = "whole"
    BY <2>1, <2>4 DEF InScratch, NodeAccepted
  <2> QED BY <2>2, <2>3, <2>4, <2>5 DEF NodeInv, Parts
<1> QED BY <1>1, Invariant, PTL

\* ... whose hashes stay those of the files.
THEOREM ManifestCurrent == Spec => []ManifestIsCurrent
<1>1. IInv => ManifestIsCurrent
  <2> SUFFICES ASSUME IInv, Accepted PROVE collector.artifacts = tree
    BY DEF ManifestIsCurrent
  <2>1. \A h \in Hosts : collector.artifacts[h] = tree[h]
    BY DEF IInv, TypeOK, CollectorInv, Accepted
  <2> QED BY <2>1 DEF IInv, TypeOK
<1> QED BY <1>1, Invariant, PTL

\* Both at once: what a manifest says success of was measured, and is still what it
\* hashed (collect_results.py).
THEOREM AcceptedStays == Spec => []AcceptedForGood
<1>1. AcceptedIsMeasured /\ ManifestIsCurrent => AcceptedForGood
  BY DEF AcceptedForGood
<1>. QED  BY <1>1, AcceptedMeasured, ManifestCurrent, PTL

-----------------------------------------------------------------------------
(* Why mpirun tears the job down.                                          *)

\* What a node still lacked that exits with a failure: of a copy that succeeded, a
\* raw file that was made and a readable status, at least one.
Published(h) == Reported(h) /\ node[h].copied /\ node[h].raw # "absent"

ExitInv(h) ==
    /\ node[h].step = "finishing" /\ node[h].copied /\ node[h].raw # "absent"
          => tree[h].says.collection = "success"
    /\ node[h].step = "exited" /\ node[h].exit # 0 => ~Published(h)

LocalInv == (\A h \in Hosts : ExitInv(h)) /\ FailureStaysLocal

\* A node that has ended stays as it is, but for the child of a dead shell.
LEMMA EndedStays ==
    ASSUME TypeOK, NodesInv, [Next]_vars, NEW h \in Hosts, node[h].step \in Ended
    PROVE  /\ node'[h].step = node[h].step
           /\ node[h].step = "exited" => node'[h] = node[h] /\ tree'[h] = tree[h]
<1> DEFINE Stays == /\ node'[h].step = node[h].step
                    /\ node[h].step = "exited" => node'[h] = node[h] /\ tree'[h] = tree[h]
<1>0. /\ node \in [Hosts -> Nodes] /\ node[h] \in Nodes
      /\ node[h].step = "exited" => node[h].orphan = None
  BY DEF TypeOK, NodesInv, NodeInv
<1>1. CASE NodeStep(h)
  <2>1. OrphanEnds(h)
    BY <1>1 DEF NodeStep, SetUp, NoScratch, WriteMetadata, MetadataFails, StartSuite,
       EndSuite, AssignRunnerExit, Leave, HandleSignal, MakeNodeDirectory,
       NoNodeDirectory, Copy, CopyFails, WriteStatus, StatusFails, Finish, At, Ended,
       Caught
  <2> QED BY <1>0, <2>1 DEF OrphanEnds, Becomes, At, Nodes
<1>2. ~Term(h) /\ ~Kill(h)
  BY DEF Term, Kill, Live
<1>3. ASSUME NEW g \in Hosts, g # h, NodeStep(g) \/ Term(g) \/ Kill(g)
      PROVE  Stays
  BY <1>3, Others
<1>4. CASE MpirunStep \/ CollectorStep \/ MpirunLost \/ UNCHANGED vars
  BY <1>4 DEF MpirunStep, MpirunAborts, MpirunEnds, MpirunLost, CollectorStep,
     StartCollector, ReadNode, StartHashing, HashNode, WriteManifest, Collector, vars
<1> QED BY <1>1, <1>2, <1>3, <1>4 DEF Next, Disturbance

\* A step of a node that is not its end and writes no status needs no proof.
LEMMA ExitElsewhere ==
    ASSUME NEW h, node'[h].step \notin {"finishing", "exited"}
    PROVE  ExitInv(h)'
BY DEF ExitInv

\* A node's own step: it publishes what the copy brought, and exits with a failure
\* only if that was not all.
LEMMA OwnExit ==
    ASSUME TypeOK, NEW h \in Hosts, NodeInv(h), ExitInv(h), NodeStep(h)
    PROVE  ExitInv(h)'
<1> DEFINE n == node[h]
<1>0. /\ node \in [Hosts -> Nodes] /\ n \in Nodes /\ tree \in [Hosts -> Trees]
      /\ tree[h] \in Trees
  BY DEF TypeOK
<1>1. ASSUME NEW m, NEW s, Becomes(h, m, s), s \notin {"finishing", "exited"}, m \in Nodes
      PROVE  ExitInv(h)'
  <2>1. node'[h].step = s
    BY <1>0, <1>1 DEF Becomes, Nodes
  <2> QED BY <1>1, <2>1, ExitElsewhere
<1>2. ASSUME NEW e, Exits(h, e), ~(Reported(h) /\ n.copied /\ n.raw # "absent")
      PROVE  ExitInv(h)'
  <2>1. /\ node'[h].step = "exited" /\ node'[h].copied = n.copied
        /\ node'[h].raw = n.raw /\ tree' = tree
    BY <1>0, <1>2 DEF Exits, Becomes, Nodes
  <2> QED BY <1>2, <2>1 DEF ExitInv, Published, Reported
<1>3. ~Reported(h) \/ n.step \in {"finishing"} \cup Ended
  BY DEF NodeInv
<1>4. CASE NoScratch(h) \/ NoNodeDirectory(h) \/ StatusFails(h)
  <2>1. ~Reported(h)
    BY <1>3, <1>4 DEF NoScratch, NoNodeDirectory, StatusFails, At, Ended
  <2> QED BY <1>2, <1>4, <2>1 DEF NoScratch, NoNodeDirectory, StatusFails
<1>5. CASE Finish(h)
  <2>1. n.step = "finishing"
    BY <1>5 DEF Finish, At
  <2>2. CASE tree[h].says.collection = "success"
    <3>1. Exits(h, 0)
      BY <1>5, <2>2 DEF Finish
    <3>2. node'[h].step = "exited" /\ node'[h].exit = 0
      BY <1>0, <3>1 DEF Exits, Becomes, Nodes
    <3> QED BY <3>2 DEF ExitInv
  <2>3. CASE tree[h].says.collection # "success"
    <3>1. Exits(h, 91)
      BY <1>5, <2>3 DEF Finish
    <3>2. ~(n.copied /\ n.raw # "absent")
      BY <2>1, <2>3 DEF ExitInv
    <3> QED BY <1>2, <3>1, <3>2
  <2> QED BY <2>2, <2>3
<1>6. CASE WriteStatus(h)
  <2>1. /\ n.step = "status" /\ Becomes(h, n, "finishing") /\ Reports(h)
    BY <1>6 DEF WriteStatus, At
  <2>2. /\ node'[h].step = "finishing" /\ node'[h].copied = n.copied
        /\ node'[h].raw = n.raw
    BY <1>0, <2>1 DEF Becomes, Nodes
  <2>3. tree'[h].says.collection = CollectionStatus(h)
    <3>1. tree'[h].says = NodeStatus(h)
      BY <1>0, <2>1 DEF Reports, Trees
    <3>2. NodeStatus(h).collection = CollectionStatus(h)
      BY DEF NodeStatus
    <3> QED BY <3>1, <3>2
  <2>4. ASSUME n.copied, n.raw # "absent" PROVE CollectionStatus(h) = "success"
    <3>1. {"raw", "logs"} \subseteq InScratch(h)
      BY <2>4 DEF InScratch
    <3>2. \A p \in InScratch(h) : tree[h].files[p] = "whole"
      BY <2>4 DEF NodeInv
    <3> QED BY <2>4, <3>1, <3>2 DEF CollectionStatus, Found
  <2> QED BY <2>2, <2>3, <2>4 DEF ExitInv
<1>7. CASE \/ SetUp(h) \/ MetadataFails(h) \/ StartSuite(h) \/ MakeNodeDirectory(h)
           \/ CopyFails(h)
  BY <1>0, <1>1, <1>7 DEF SetUp, MetadataFails, StartSuite, MakeNodeDirectory, CopyFails
<1>8. CASE \/ WriteMetadata(h) \/ EndSuite(h) \/ AssignRunnerExit(h) \/ Leave(h)
           \/ HandleSignal(h) \/ Copy(h) \/ OrphanEnds(h)
  <2>1. node'[h].step \notin {"finishing", "exited"}
    <3>1. ASSUME NEW m, NEW s, Becomes(h, m, s), DOMAIN m = DOMAIN n
          PROVE  node'[h].step = s
      BY <1>0, <3>1 DEF Becomes, Nodes
    <3>2. CASE WriteMetadata(h) \/ AssignRunnerExit(h) \/ Leave(h)
      BY <3>1, <3>2 DEF WriteMetadata, AssignRunnerExit, Leave
    <3>3. CASE EndSuite(h)
      <4>1. PICK e \in Outcomes :
               Becomes(h, [n EXCEPT !.suite = e[1], !.raw = e[2]], "measured")
        BY <3>3 DEF EndSuite
      <4>2. DOMAIN [n EXCEPT !.suite = e[1], !.raw = e[2]] = DOMAIN n
        OBVIOUS
      <4> QED BY <3>1, <4>1, <4>2
    <3>4. CASE HandleSignal(h)
      <4>1. Becomes(h, [n EXCEPT !.pending = FALSE, !.term = "TERM", !.process = 143],
                    "collect")
        BY <3>4 DEF HandleSignal
      <4>2. DOMAIN [n EXCEPT !.pending = FALSE, !.term = "TERM", !.process = 143]
               = DOMAIN n
        OBVIOUS
      <4> QED BY <3>1, <4>1, <4>2
    <3>5. CASE Copy(h) \/ OrphanEnds(h)
      BY <3>1, <3>5 DEF Copy, OrphanEnds
    <3> QED BY <1>8, <3>2, <3>3, <3>4, <3>5
  <2> QED BY <2>1, ExitElsewhere
<1> QED BY <1>4, <1>5, <1>6, <1>7, <1>8 DEF NodeStep

\* A signal: noted, it changes nothing here; deadly, the node does not exit.
LEMMA SignalledExit ==
    ASSUME TypeOK, NEW h \in Hosts, ExitInv(h), Term(h) \/ Kill(h)
    PROVE  ExitInv(h)'
<1>0. node \in [Hosts -> Nodes] /\ node[h] \in Nodes
  BY DEF TypeOK
<1>1. ASSUME NEW e, Dies(h, e) PROVE ExitInv(h)'
  BY <1>1, Died, ExitElsewhere
<1>2. CASE node' = [node EXCEPT ![h].pending = TRUE] /\ tree' = tree /\ node[h].step \in Caught
  <2>1. node'[h].step = node[h].step
    BY <1>0, <1>2 DEF Nodes
  <2> QED BY <1>2, <2>1, ExitElsewhere DEF Caught
<1> QED BY <1>1, <1>2 DEF Term, Kill

\* Every step keeps what exits mean, and with it the reason of an abort.
LEMMA LocalKept ==
    ASSUME IInv, LocalInv, [Next]_vars
    PROVE  LocalInv'
<1>0. TypeOK /\ NodesInv
  BY DEF IInv
<1>1. ASSUME NEW g \in Hosts PROVE ExitInv(g)'
  <2>0. ExitInv(g) /\ NodeInv(g)
    BY <1>0 DEF LocalInv, NodesInv
  <2>1. CASE NodeStep(g)
    BY <1>0, <2>0, <2>1, OwnExit
  <2>2. CASE Term(g) \/ Kill(g)
    BY <1>0, <2>0, <2>2, SignalledExit
  <2>3. ASSUME node'[g] = node[g], tree'[g] = tree[g] PROVE ExitInv(g)'
    BY <2>0, <2>3 DEF ExitInv, Published, Reported
  <2>4. ASSUME NEW h \in Hosts, h # g, NodeStep(h) \/ Term(h) \/ Kill(h)
        PROVE  ExitInv(g)'
    BY <1>0, <2>3, <2>4, Others
  <2>5. CASE MpirunStep \/ CollectorStep \/ MpirunLost \/ UNCHANGED vars
    BY <2>3, <2>5 DEF MpirunStep, MpirunAborts, MpirunEnds, MpirunLost, CollectorStep,
       StartCollector, ReadNode, StartHashing, HashNode, WriteManifest, Collector, vars
  <2> QED BY <2>1, <2>2, <2>4, <2>5 DEF Next, Disturbance
<1>2. ASSUME mpi' = "aborting"
      PROVE  \E h \in Hosts : /\ node[h].step \in Ended
                              /\ node[h].step = "dead" \/ ~Published(h)
  <2>1. CASE mpi = "aborting"
    BY <2>1 DEF LocalInv, FailureStaysLocal, Published
  <2>2. CASE mpi # "aborting"
    <3>1. MpirunAborts
      BY <1>2, <2>2 DEF Next, NodeStep, SetUp, NoScratch, WriteMetadata, MetadataFails,
         StartSuite, EndSuite, AssignRunnerExit, Leave, HandleSignal, MakeNodeDirectory,
         NoNodeDirectory, Copy, CopyFails, WriteStatus, StatusFails, Finish, OrphanEnds,
         Becomes, Exits, Disturbance, Term, Kill, Dies, MpirunStep, MpirunEnds,
         MpirunLost, CollectorStep, StartCollector, ReadNode, StartHashing, HashNode,
         WriteManifest, Collector, vars
    <3> QED BY <3>1 DEF MpirunAborts, LocalInv, ExitInv, Ended
  <2> QED BY <2>1, <2>2
<1>3. FailureStaysLocal'
  <2> SUFFICES ASSUME mpi' = "aborting"
               PROVE  \E h \in Hosts : /\ node'[h].step \in Ended
                                       /\ node'[h].step = "dead" \/ ~Published(h)'
    BY DEF FailureStaysLocal, Published
  <2>1. PICK h \in Hosts : /\ node[h].step \in Ended
                           /\ node[h].step = "dead" \/ ~Published(h)
    BY <1>2
  <2>2. /\ node'[h].step = node[h].step
        /\ node[h].step = "exited" => node'[h] = node[h] /\ tree'[h] = tree[h]
    BY <1>0, <2>1, EndedStays
  <2>3. node'[h].step = "dead" \/ ~Published(h)'
    BY <2>1, <2>2 DEF Published, Reported, Ended
  <2> QED BY <2>1, <2>2, <2>3
<1> QED BY <1>1, <1>3 DEF LocalInv

\* mpirun aborts the job only for a node that died or could not publish all it had
\* (run_node.sh exits 0 after a failed benchmark).
THEOREM FailuresStayLocal == Spec => []FailureStaysLocal
<1>1. Init => LocalInv
  <2> SUFFICES ASSUME Init PROVE LocalInv
    OBVIOUS
  <2>1. \A h \in Hosts : node[h].step = "begin"
    BY DEF Init, NewNode
  <2> QED BY <2>1 DEF LocalInv, ExitInv, FailureStaysLocal, Init
<1>2. IInv /\ LocalInv /\ [Next]_vars => LocalInv'
  BY LocalKept
<1>3. LocalInv => FailureStaysLocal
  BY DEF LocalInv
<1> QED BY <1>1, <1>2, <1>3, Invariant, PTL DEF Spec
=================================================================================
