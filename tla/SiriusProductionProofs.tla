------------------------- MODULE SiriusProductionProofs -------------------------
(***************************************************************************)
(* Proofs about SiriusProduction for any number of nodes, benchmark calls  *)
(* and faults: type correctness, and each of its safety properties.        *)
(*                                                                         *)
(* None of them is inductive.  What a status stands for was decided when   *)
(* the evidence was collected, so Inductive follows a wave from its rank   *)
(* (RankInv) through its master (MasterLaunch, MasterInv) to the report    *)
(* and the statuses (ReportInv, StatusInv), and says which of these can no *)
(* longer change: a rank that has ended, a report and a status once        *)
(* written, and the inputs of a sealed campaign.                           *)
(***************************************************************************)
EXTENDS SiriusProduction, SequenceTheorems, TLAPS

\* Versions are counted by the replacements, and a plan is never newer than its source.
DiskInv ==
    /\ disk.inputs <= faults /\ disk.source <= faults
    /\ \A w \in Waves : plan[w].source <= disk.source

\* The campaign is sealed once, by the job of wave 0, over the inputs that every
\* prepared wave has.
CampaignInv ==
    /\ campaign.at = "sealed" =>
          launch[0] /\ master[0].at \notin {"idle", "placing", "launching", "preflight", "prepare"}
    /\ launch[1] => campaign.at = "sealed"
    /\ \A w \in Waves :
          prepared[w] =>
              launch[w] /\ campaign.at = "sealed" /\ campaign.inputs = plan[w].inputs

\* A rank measures with the frozen inputs only; its status is the last thing it
\* writes, and a COMPLETE one counts a whole schedule.
RankInv(w, r) ==
    LET n == node[w][r]
    IN  /\ rank[w][r] = "none" => n = NoNode
        /\ rank[w][r] # "none" => prepared[w]
        /\ rank[w][r] # "0" => n.status = "absent"
        /\ n.status = "COMPLETE" => CompleteNode(n)
        /\ n.from = IF n.calls = <<>> THEN {} ELSE {campaign.inputs}

Done(w) == \A r \in Ranks : rank[w][r] = "0"

\* No deadline, no signal and no failure so far.
Undisturbed(m) == m.error = "none" /\ ~m.timed /\ m.stopped = "no"

\* Why the measurement of wave w has no exit status.
Excused(w) ==
    \/ master[w].timed \/ master[w].stopped = "early" \/ ~CleanSource(w)
    \/ master[w].broke
    \/ \E r \in Ranks : rank[w][r] = "1" /\ node[w][r].status = "absent"

\* Before the launch, during it and after it.
MasterLaunch(w) ==
    /\ master[w].at \in {"idle", "placing", "launching"} => ~launch[w]
    /\ master[w].at \in {"preflight", "prepare", "measure", "recheck", "collect",
                         "save", "except", "closing"} => launch[w]
    /\ master[w].at \in {"measure", "recheck", "collect", "save"} => prepared[w]

\* What stands behind a verdict of run_master that is not UNKNOWN: a whole
\* collection, or a failure that no deadline and no signal had a part in, but for a
\* signal that came when the verdict had fallen.
Founded(w, verdict) ==
    LET m == master[w]
    IN  /\ verdict = "COMPLETE" =>
              report[w].status = "COMPLETE" /\ (m.stopped = "no" \/ m.masked)
        /\ verdict = "FAILED" =>
              \/ m.masked
              \/ ~m.timed /\ (m.stopped # "no" => report[w].status = "absent")

\* What the master knows at a step, from the way it came there.
MasterInv(w) ==
    LET m == master[w]
    IN  /\ m.at \in {"placing", "launching", "preflight", "prepare", "measure", "recheck"} =>
              Undisturbed(m) /\ m.mpi = "none" /\ m.verdict = "FAILED"
        /\ m.at = "recheck" => Done(w)
        /\ m.at \in {"collect", "save"} =>
              /\ m.mpi = "0" => Undisturbed(m) /\ Done(w)
              /\ m.mpi = "none" => m.error # "none" /\ Excused(w)
              /\ m.stopped # "no" => m.error = "stop"
              /\ m.verdict = "FAILED"
        /\ m.at = "save" => \A r \in m.passed : MeasuredBy(w, r, node[w])
        /\ m.at = "except" =>
              /\ m.error # "none" /\ m.verdict # "UNKNOWN"
              /\ m.verdict = "COMPLETE" => m.error = "stop" /\ report[w].status = "COMPLETE"
              /\ m.stopped # "no" => m.error = "stop" \/ report[w].status = "absent"
        /\ m.at = "closing" => Founded(w, m.verdict)
        /\ m.at = "summary" => (m.verdict = "COMPLETE" => status[w] = "COMPLETE")

\* A report is written once, after the measurement, and what it says of the nodes
\* stays true of the ranks.
ReportInv(w) ==
    /\ report[w].status # "absent" =>
          prepared[w] /\ master[w].at \in {"except", "closing", "summary", "left"}
    /\ report[w].status = "COMPLETE" => report[w].mpi = "0" /\ report[w].passed = Ranks
    /\ report[w].mpi = "0" => Done(w) /\ ~master[w].timed /\ master[w].stopped # "early"
    /\ report[w].status = "absent" => report[w].passed = {} /\ report[w].mpi = "none"
    /\ report[w].status # "absent" /\ report[w].mpi = "none" => Excused(w)
    /\ \A r \in report[w].passed :
          /\ MeasuredBy(w, r, report[w].files)
          /\ node[w][r].whole => node[w][r] = report[w].files[r]

\* A status is written once, after the report.
StatusInv(w) ==
    /\ status[w] # "absent" => launch[w] /\ master[w].at \in {"summary", "left"}
    /\ Founded(w, status[w])
    /\ summary[w] = "COMPLETE" => status[w] = "COMPLETE"

WaveInv(w) ==
    /\ \A r \in Ranks : RankInv(w, r)
    /\ MasterLaunch(w) /\ MasterInv(w) /\ ReportInv(w) /\ StatusInv(w)

Inductive ==
    /\ TypeOK /\ DiskInv /\ CampaignInv /\ NextWaveJustified
    /\ \A w \in Waves : WaveInv(w)

-----------------------------------------------------------------------------
(* Lemmas about the operators, and the frames most steps stay within.      *)

\* The records of at most INVOCATIONS calls.
LEMMA CallsFacts ==
    ASSUME NEW s
    PROVE  s \in BoundedSeq(Outcome, INVOCATIONS)
               <=> s \in Seq(Outcome) /\ Len(s) <= INVOCATIONS
<1>1. ASSUME s \in BoundedSeq(Outcome, INVOCATIONS)
      PROVE  s \in Seq(Outcome) /\ Len(s) <= INVOCATIONS
  BY <1>1, ProductionAssumption DEF BoundedSeq, SeqOf
<1>2. ASSUME s \in Seq(Outcome), Len(s) <= INVOCATIONS
      PROVE  s \in BoundedSeq(Outcome, INVOCATIONS)
  <2>1. Len(s) \in 0 .. INVOCATIONS /\ s \in [1 .. Len(s) -> Outcome]
    BY <1>2, ProductionAssumption
  <2>2. QED
    BY <2>1 DEF BoundedSeq, SeqOf
<1>3. QED
  BY <1>1, <1>2

\* A rank that has not begun left no file, and no file is well formed.
LEMMA NoNodeFacts == NoNode \in NodeFiles /\ NoNodes \in [Ranks -> NodeFiles]
<1>1. <<>> \in Seq(Outcome) /\ Len(<<>>) <= INVOCATIONS
  BY ProductionAssumption
<1>2. QED
  BY <1>1, CallsFacts DEF NoNode, NoNodes, NodeFiles, Verdicts

\* Everything about wave v that a step can leave alone.
KeepsWave(v) ==
    /\ master'[v] = master[v] /\ rank'[v] = rank[v] /\ node'[v] = node[v]
    /\ report'[v] = report[v] /\ status'[v] = status[v] /\ summary'[v] = summary[v]
    /\ launch'[v] = launch[v] /\ prepared'[v] = prepared[v]
    /\ plan'[v].source = plan[v].source

\* A wave that a step leaves alone stays as it was, if the source only gets
\* newer and the inputs of a sealed campaign stay.
LEMMA WaveFrame ==
    ASSUME TypeOK, TypeOK', DiskInv, NEW v \in Waves, WaveInv(v), KeepsWave(v),
           disk.source <= disk'.source,
           prepared[v] => campaign'.inputs = campaign.inputs
    PROVE  WaveInv(v)'
<1>1. ASSUME Excused(v) PROVE Excused(v)'
  <2>1. disk.source \in Nat /\ disk'.source \in Nat /\ plan[v].source \in Nat
    BY ProductionAssumption DEF TypeOK, Versions
  <2>2. ~CleanSource(v) => ~CleanSource(v)'
    BY <2>1 DEF CleanSource, DiskInv, KeepsWave
  <2>3. QED
    BY <1>1, <2>2 DEF Excused, KeepsWave
<1>2. ASSUME NEW r \in Ranks PROVE RankInv(v, r)'
  <2>1. RankInv(v, r) /\ node'[v][r] = node[v][r] /\ rank'[v][r] = rank[v][r]
    BY DEF WaveInv, KeepsWave
  <2>2. node'[v][r].calls # <<>> => prepared[v]
    BY <2>1 DEF RankInv, NoNode
  <2>3. QED
    BY <2>1, <2>2 DEF RankInv, KeepsWave, CompleteNode
<1>3. ASSUME prepared[v], NEW r \in Ranks, NEW seen, MeasuredBy(v, r, seen)
      PROVE  MeasuredBy(v, r, seen)'
  BY <1>3 DEF MeasuredBy, KeepsWave
<1>4. MasterLaunch(v)'
  BY DEF WaveInv, MasterLaunch, KeepsWave
<1>5. MasterInv(v)'
  BY <1>1, <1>3 DEF WaveInv, MasterInv, MasterLaunch, KeepsWave, Undisturbed, Done, TypeOK,
                    Masters, Founded
<1>6. ReportInv(v)'
  BY <1>1, <1>3 DEF WaveInv, ReportInv, KeepsWave, Done, TypeOK, Reports
<1>7. StatusInv(v)'
  BY DEF WaveInv, StatusInv, KeepsWave, Founded
<1>8. QED
  BY <1>2, <1>4, <1>5, <1>6, <1>7 DEF WaveInv

\* What the conditions of the source and of a justified wave 1 read of wave 0,
\* once it may no longer change.
KeepsJustification ==
    /\ status'[0] = status[0] /\ report'[0] = report[0]
    /\ campaign'.inputs = campaign.inputs
    /\ adoption = "saved" => adoption' = "saved"
    /\ \A r \in Ranks : rank[0][r] = "0" => rank'[0][r] = "0"
    /\ master'[0].timed = master[0].timed /\ master'[0].stopped = master[0].stopped
    /\ master'[0].masked = master[0].masked

\* Nothing that justified wave 1 is taken back.
LEMMA JustifiedFrame ==
    ASSUME Inductive, launch'[1] => launch[1],
           launch[1] /\ status[0] # "absent" => KeepsJustification
    PROVE  NextWaveJustified'
<1>1. SUFFICES ASSUME launch'[1] PROVE NextWaveJustified'
  BY DEF NextWaveJustified
<1>2. launch[1] /\ NextWaveJustified
  BY <1>1 DEF Inductive
<1>3. KeepsJustification
  BY <1>2 DEF NextWaveJustified
<1>4. ASSUME NEW r \in Ranks
      PROVE  MeasuredBy(0, r, report[0].files)' <=> MeasuredBy(0, r, report[0].files)
  BY <1>2, <1>3 DEF MeasuredBy, KeepsJustification, NextWaveJustified
<1>5. QED
  BY <1>2, <1>3, <1>4 DEF NextWaveJustified, KeepsJustification

\* A step of a master that writes no file and keeps what it must know keeps
\* Inductive.
LEMMA MasterFrame ==
    ASSUME Inductive, NEW w \in Waves, NEW m \in Masters, NEW s \in Steps,
           Sets(w, m, s), UNCHANGED <<disk, plan, files, rank>>,
           faults' \in faults .. Faults,
           MasterLaunch(w)', MasterInv(w)',
           w = 0 /\ campaign.at = "sealed" =>
               s \notin {"idle", "placing", "launching", "preflight", "prepare"},
           report[w].status # "absent" =>
               /\ s \in {"except", "closing", "summary", "left"}
               /\ m.timed = master[w].timed
               /\ m.stopped = "early" <=> master[w].stopped = "early"
               /\ master[w].broke => m.broke,
           status[w] # "absent" =>
               /\ s \in {"summary", "left"}
               /\ m.timed = master[w].timed /\ m.stopped = master[w].stopped
               /\ m.masked = master[w].masked
    PROVE  Inductive'
<1>0. TypeOK /\ DiskInv /\ CampaignInv /\ WaveInv(w)
  BY DEF Inductive
<1>1. /\ master'[w] = [m EXCEPT !.at = s]
      /\ \A v \in Waves : v # w => master'[v] = master[v]
  BY <1>0 DEF Sets, TypeOK
<1>2. master'[w] \in Masters /\ master'[w].at = s /\ master'[w].timed = m.timed
      /\ master'[w].stopped = m.stopped /\ master'[w].masked = m.masked
      /\ master'[w].broke = m.broke
  BY <1>1 DEF Masters
<1>3. TypeOK'
  <2>1. master' \in [Waves -> Masters]
    BY <1>0, <1>2 DEF TypeOK, Sets, Masters
  <2>2. faults \in Nat /\ faults' \in 0 .. Faults
    BY <1>0, ProductionAssumption DEF TypeOK
  <2>3. QED
    BY <1>0, <2>1, <2>2 DEF TypeOK, files
<1>4. DiskInv'
  <2>1. disk.inputs \in Nat /\ disk.source \in Nat /\ faults \in Nat /\ faults' \in Nat
    BY <1>0, <1>3, ProductionAssumption DEF TypeOK, Versions
  <2>2. QED
    BY <1>0, <2>1, ProductionAssumption DEF DiskInv
<1>5. CampaignInv'
  BY <1>0, <1>1, <1>2 DEF CampaignInv, files, Waves
<1>6. ASSUME NEW v \in Waves, v # w PROVE WaveInv(v)'
  <2>1. KeepsWave(v)
    BY <1>1, <1>6 DEF KeepsWave, files
  <2>2. disk.source <= disk'.source
    BY <1>0, ProductionAssumption DEF TypeOK, Versions
  <2>3. QED
    BY <1>0, <1>3, <2>1, <2>2, WaveFrame DEF Inductive, files
<1>7. WaveInv(w)'
  <2>1. \A r \in Ranks : RankInv(w, r)'
    BY <1>0 DEF WaveInv, RankInv, files, NoNode, CompleteNode
  <2>2. report[w].status # "absent" /\ Excused(w) => Excused(w)'
    BY <1>2 DEF Excused, CleanSource, files
  <2>3. ReportInv(w)'
    BY <1>0, <1>2, <2>2 DEF WaveInv, ReportInv, files, Done, MeasuredBy
  <2>4. StatusInv(w)'
    BY <1>0, <1>2 DEF WaveInv, StatusInv, files, Founded
  <2>5. QED
    BY <2>1, <2>3, <2>4 DEF WaveInv
<1>8. NextWaveJustified'
  <2>1. status[0] # "absent" => KeepsJustification
    BY <1>1, <1>2 DEF KeepsJustification, files, Waves
  <2>2. QED
    BY <2>1, JustifiedFrame DEF files
<1>9. QED
  BY <1>3, <1>4, <1>5, <1>6, <1>7, <1>8 DEF Inductive

\* A step of a rank that has not ended keeps Inductive, if the rank and its
\* files keep RankInv.
LEMMA RankFrame ==
    ASSUME Inductive, NEW w \in Waves, NEW r \in Ranks,
           NEW n \in NodeFiles, NEW s \in {"none", "bench", "halted", "0", "1"},
           rank[w][r] \notin {"0", "1"},
           RankIs(w, r, s), Writes(w, r, n), faults' \in faults .. Faults,
           RankInv(w, r)'
    PROVE  Inductive'
<1>0. TypeOK /\ DiskInv /\ CampaignInv /\ WaveInv(w)
  BY DEF Inductive
<1>1. /\ rank'[w][r] = s /\ node'[w][r] = n
      /\ \A q \in Ranks : q # r => rank'[w][q] = rank[w][q] /\ node'[w][q] = node[w][q]
      /\ \A v \in Waves : v # w => rank'[v] = rank[v] /\ node'[v] = node[v]
  BY <1>0 DEF RankIs, Writes, TypeOK
<1>2. UNCHANGED <<disk, campaign, plan, launch, prepared, report, status, summary,
                  adoption, master>>
  BY DEF Writes
<1>3. TypeOK'
  <2>1. rank' \in [Waves -> [Ranks -> {"none", "bench", "halted", "0", "1"}]]
    BY <1>0 DEF RankIs, TypeOK
  <2>2. node' \in [Waves -> [Ranks -> NodeFiles]]
    BY <1>0 DEF Writes, TypeOK
  <2>3. faults' \in 0 .. Faults
    BY <1>0, ProductionAssumption DEF TypeOK
  <2>4. QED
    BY <1>0, <1>2, <2>1, <2>2, <2>3 DEF TypeOK
<1>4. DiskInv'
  <2>1. disk.inputs \in Nat /\ disk.source \in Nat /\ faults \in Nat /\ faults' \in Nat
    BY <1>0, <1>3, ProductionAssumption DEF TypeOK, Versions
  <2>2. QED
    BY <1>0, <1>2, <2>1, ProductionAssumption DEF DiskInv
<1>5. CampaignInv'
  BY <1>0, <1>2 DEF CampaignInv
<1>6. ASSUME NEW v \in Waves, v # w PROVE WaveInv(v)'
  <2>1. KeepsWave(v)
    BY <1>1, <1>2, <1>6 DEF KeepsWave
  <2>2. disk.source <= disk'.source
    BY <1>0, <1>2, ProductionAssumption DEF TypeOK, Versions
  <2>3. QED
    BY <1>0, <1>2, <1>3, <2>1, <2>2, WaveFrame DEF Inductive
<1>7. WaveInv(w)'
  <2>1. ASSUME NEW q \in Ranks PROVE RankInv(w, q)'
    <3>1. CASE q = r
      BY <3>1
    <3>2. CASE q # r
      <4>1. node'[w][q] = node[w][q] /\ rank'[w][q] = rank[w][q] /\ RankInv(w, q)
        BY <1>0, <1>1, <3>2 DEF WaveInv
      <4>2. QED
        BY <1>2, <4>1 DEF RankInv, CompleteNode
    <3>3. QED
      BY <3>1, <3>2
  <2>2. ~Done(w)
    BY DEF Done
  <2>3. Excused(w) => Excused(w)'
    BY <1>1, <1>2 DEF Excused, CleanSource
  <2>4. ASSUME NEW q \in Ranks, NEW seen, MeasuredBy(w, q, seen)
        PROVE  q # r /\ MeasuredBy(w, q, seen)' /\ node'[w][q] = node[w][q]
    BY <2>4, <1>1, <1>2 DEF MeasuredBy
  <2>5. ASSUME NEW q \in Ranks, MeasuredBy(w, q, node[w])
        PROVE  MeasuredBy(w, q, node[w])'
    BY <2>4, <2>5, <1>2 DEF MeasuredBy
  <2>6. master[w].passed \subseteq Ranks /\ report[w].passed \subseteq Ranks
    BY <1>0 DEF TypeOK, Masters, Reports
  <2>7. MasterLaunch(w)' /\ MasterInv(w)'
    BY <1>0, <1>2, <2>2, <2>3, <2>5, <2>6
       DEF WaveInv, MasterInv, MasterLaunch, Undisturbed, Founded
  <2>8. ReportInv(w)'
    BY <1>0, <1>2, <2>2, <2>3, <2>4, <2>6 DEF WaveInv, ReportInv
  <2>9. StatusInv(w)'
    BY <1>0, <1>2 DEF WaveInv, StatusInv, Founded
  <2>10. QED
    BY <2>1, <2>7, <2>8, <2>9 DEF WaveInv
<1>8. NextWaveJustified'
  <2>1. KeepsJustification
    BY <1>1, <1>2 DEF KeepsJustification, Waves
  <2>2. QED
    BY <1>2, <2>1, JustifiedFrame
<1>9. QED
  BY <1>3, <1>4, <1>5, <1>6, <1>7, <1>8 DEF Inductive

-----------------------------------------------------------------------------
(* The initial state and the steps of the ranks.                           *)

\* The first fault, and any later one, is counted within the bound.
LEMMA FaultFacts ==
    ASSUME TypeOK
    PROVE  /\ Fault => faults' \in faults .. Faults
           /\ UNCHANGED faults => faults' \in faults .. Faults
           /\ \A cause \in BOOLEAN : Unless(cause) => faults' \in faults .. Faults
BY ProductionAssumption DEF TypeOK, Fault, Unless

\* No campaign yet: every file is absent and every process idle.
LEMMA InitInductive == Init => Inductive
<1> SUFFICES ASSUME Init PROVE Inductive
  OBVIOUS
<1> USE ProductionAssumption
<1>1. TypeOK
  <2>1. NoReport \in Reports /\ Idle \in Masters
    BY NoNodeFacts DEF NoReport, Reports, Idle, Masters, Steps, Verdicts
  <2>2. 0 \in Versions
    BY DEF Versions
  <2>3. QED
    BY <2>1, <2>2, NoNodeFacts DEF Init, TypeOK, Verdicts
<1>2. DiskInv /\ CampaignInv /\ NextWaveJustified
  BY DEF Init, DiskInv, CampaignInv, NextWaveJustified, Waves
<1>3. ASSUME NEW w \in Waves PROVE WaveInv(w)
  <2>1. ASSUME NEW r \in Ranks PROVE RankInv(w, r)
    BY DEF Init, RankInv, NoNodes, NoNode
  <2>2. MasterLaunch(w) /\ MasterInv(w)
    BY DEF Init, MasterLaunch, MasterInv, Idle
  <2>3. ReportInv(w) /\ StatusInv(w)
    BY DEF Init, ReportInv, StatusInv, NoReport, Founded
  <2>4. QED
    BY <2>1, <2>2, <2>3 DEF WaveInv
<1>4. QED
  BY <1>1, <1>2, <1>3 DEF Inductive

\* A call is recorded with the inputs of the campaign, within the schedule.
LEMMA BenchStep ==
    ASSUME Inductive, NEW w \in Waves, NEW r \in Ranks, Bench(w, r)
    PROVE  Inductive'
<1> DEFINE n == node[w][r]
<1>0. TypeOK /\ WaveInv(w) /\ CampaignInv /\ RankInv(w, r)
  BY DEF Inductive, WaveInv
<1>1. n \in NodeFiles /\ n.calls \in Seq(Outcome) /\ n.calls \in BoundedSeq(Outcome, INVOCATIONS)
  BY <1>0, CallsFacts DEF TypeOK, NodeFiles
<1>2. prepared[w] /\ disk.inputs = campaign.inputs /\ n.status = "absent"
  BY <1>0 DEF Bench, RankInv, CampaignInv, InputsIntact
<1>3. PICK o \in Outcome : Writes(w, r, [n EXCEPT !.calls = Append(@, o),
                                                 !.from = @ \cup {disk.inputs}])
  BY DEF Bench
<1> DEFINE next == [n EXCEPT !.calls = Append(@, o), !.from = @ \cup {disk.inputs}]
<1>4. next \in NodeFiles
  <2>1. Append(n.calls, o) \in Seq(Outcome) /\ Len(Append(n.calls, o)) <= INVOCATIONS
    BY <1>1, ProductionAssumption DEF Bench
  <2>2. Append(n.calls, o) \in BoundedSeq(Outcome, INVOCATIONS)
    BY <2>1, CallsFacts
  <2>3. disk.inputs \in Versions
    BY <1>0 DEF TypeOK
  <2>4. QED
    BY <1>1, <2>2, <2>3 DEF NodeFiles
<1>5. rank[w][r] = "bench" /\ RankIs(w, r, "bench") /\ faults' \in faults .. Faults
  BY <1>0, FaultFacts DEF Bench, RankIs, TypeOK
<1>6. RankInv(w, r)'
  <2>1. rank'[w][r] = "bench" /\ node'[w][r] = next /\ prepared'[w]
        /\ campaign' = campaign
    <3>1. rank'[w][r] = "bench"
      BY <1>0, <1>5 DEF RankIs, TypeOK
    <3>2. node'[w][r] = next
      BY <1>0, <1>3 DEF Writes, TypeOK
    <3>3. QED
      BY <1>2, <1>3, <3>1, <3>2 DEF Writes
  <2>2. Append(n.calls, o) # <<>>
    BY <1>1, AppendProperties
  <2>3. next.calls = Append(n.calls, o) /\ next.from = {campaign.inputs}
        /\ next.status = "absent"
    BY <1>0, <1>1, <1>2 DEF RankInv, NodeFiles
  <2>4. QED
    BY <2>1, <2>2, <2>3 DEF RankInv
<1>7. QED
  BY <1>3, <1>4, <1>5, <1>6, RankFrame

\* A rank ends with its verdict, COMPLETE only over a whole schedule.
LEMMA FinishRankStep ==
    ASSUME Inductive, NEW w \in Waves, NEW r \in Ranks, FinishRank(w, r)
    PROVE  Inductive'
<1> DEFINE n == node[w][r]
           next == [n EXCEPT !.status = NodeVerdict(w, r)]
<1>0. TypeOK /\ WaveInv(w) /\ RankInv(w, r)
  BY DEF Inductive, WaveInv
<1>1. n \in NodeFiles /\ NodeVerdict(w, r) \in Verdicts
  BY <1>0 DEF TypeOK, NodeVerdict, Verdicts
<1>2. next \in NodeFiles /\ next.status = NodeVerdict(w, r)
      /\ next.calls = n.calls /\ next.from = n.from
  BY <1>1 DEF NodeFiles
<1>3. next.status = "COMPLETE" => CompleteNode(next)
  BY <1>1, <1>2 DEF NodeVerdict
<1>4. rank[w][r] \in {"bench", "halted"} /\ RankIs(w, r, "0") /\ Writes(w, r, next)
      /\ faults' \in faults .. Faults
  BY <1>0, FaultFacts DEF FinishRank
<1>5. RankInv(w, r)'
  <2>1. rank'[w][r] = "0" /\ node'[w][r] = next /\ UNCHANGED <<prepared, campaign>>
    BY <1>0, <1>4 DEF RankIs, Writes, TypeOK
  <2>2. QED
    BY <1>0, <1>2, <1>3, <1>4, <2>1 DEF RankInv
<1>6. QED
  BY <1>2, <1>4, <1>5, RankFrame

\* The steps that leave the calls alone: a rank starts, refuses, halts or dies.
LEMMA OtherRankStep ==
    ASSUME Inductive, NEW w \in Waves, NEW r \in Ranks,
           StartRank(w, r) \/ RefuseRank(w, r) \/ StopRank(w, r) \/ RankDies(w, r)
    PROVE  Inductive'
<1> USE DEF NodeFiles
<1>0. TypeOK /\ WaveInv(w) /\ RankInv(w, r)
  BY DEF Inductive, WaveInv
<1>1. node[w][r] \in NodeFiles
  BY <1>0 DEF TypeOK
<1>2. CASE StartRank(w, r)
  <2> DEFINE next == [NoNode EXCEPT !.made = TRUE]
  <2>1. next \in NodeFiles /\ next.calls = <<>> /\ next.from = {} /\ next.status = "absent"
    BY NoNodeFacts DEF NoNode
  <2>2. rank[w][r] = "none" /\ RankIs(w, r, "bench") /\ Writes(w, r, next)
        /\ faults' \in faults .. Faults
    BY <1>0, <1>2, FaultFacts DEF StartRank
  <2>3. prepared[w]
    BY <1>0, <1>2 DEF StartRank, At, WaveInv, MasterLaunch
  <2>4. RankInv(w, r)'
    <3>1. rank'[w][r] = "bench" /\ node'[w][r] = next /\ UNCHANGED prepared
      BY <1>0, <2>2 DEF RankIs, Writes, TypeOK
    <3>2. QED
      BY <2>1, <2>3, <3>1 DEF RankInv
  <2>5. QED
    BY <2>1, <2>2, <2>4, RankFrame
<1>3. ASSUME NEW s \in {"halted", "1"}, rank[w][r] \in {"none", "bench", "halted"},
             rank[w][r] = "none" => prepared[w],
             RankIs(w, r, s), Writes(w, r, node[w][r]), faults' \in faults .. Faults
      PROVE  Inductive'
  <2>1. RankInv(w, r)'
    <3>1. rank'[w][r] = s /\ node'[w][r] = node[w][r] /\ UNCHANGED <<prepared, campaign>>
      BY <1>0, <1>3 DEF RankIs, Writes, TypeOK
    <3>2. QED
      BY <1>0, <1>3, <3>1 DEF RankInv, CompleteNode
  <2>2. QED
    BY <1>1, <1>3, <2>1, RankFrame
<1>4. CASE RefuseRank(w, r)
  <2>1. prepared[w]
    BY <1>0, <1>4 DEF RefuseRank, At, WaveInv, MasterLaunch
  <2>2. faults' \in faults .. Faults
    BY <1>0, <1>4, FaultFacts DEF RefuseRank, InputsIntact, CleanSource
  <2>3. QED
    BY <1>3, <1>4, <2>1, <2>2 DEF RefuseRank
<1>5. CASE StopRank(w, r)
  BY <1>0, <1>3, <1>5, FaultFacts DEF StopRank
<1>6. CASE RankDies(w, r)
  BY <1>0, <1>3, <1>6, FaultFacts DEF RankDies
<1>7. QED
  BY <1>2, <1>4, <1>5, <1>6

-----------------------------------------------------------------------------
(* The steps of a master that write no file.                               *)

\* The record of a master after a step.
LEMMA SetsRecord ==
    ASSUME TypeOK, NEW w \in Waves, NEW m \in Masters, NEW s \in Steps, Sets(w, m, s)
    PROVE  /\ [m EXCEPT !.at = s] \in Masters
           /\ master'[w] = [m EXCEPT !.at = s]
           /\ master' \in [Waves -> Masters]
           /\ \A v \in Waves : v # w => master'[v] = master[v]
<1>1. [m EXCEPT !.at = s] \in Masters
  BY DEF Masters
<1>2. master' = [master EXCEPT ![w] = [m EXCEPT !.at = s]]
  BY DEF Sets
<1>3. QED
  BY <1>1, <1>2 DEF TypeOK

\* The same, field by field.
LEMMA SetsFacts ==
    ASSUME TypeOK, NEW w \in Waves, NEW m \in Masters, NEW s \in Steps, Sets(w, m, s)
    PROVE  /\ master'[w].at = s /\ master'[w].error = m.error
           /\ master'[w].timed = m.timed /\ master'[w].stopped = m.stopped
           /\ master'[w].mpi = m.mpi /\ master'[w].passed = m.passed
           /\ master'[w].verdict = m.verdict /\ master'[w].masked = m.masked
           /\ master'[w].broke = m.broke
<1>1. master'[w] = [m EXCEPT !.at = s]
  BY SetsRecord
<1>2. QED
  BY <1>1 DEF Masters

\* What a step that is no fault leaves alone.
LEMMA BecomesFacts ==
    ASSUME TypeOK, NEW w \in Waves, NEW m, NEW s, Becomes(w, m, s)
    PROVE  Sets(w, m, s) /\ UNCHANGED <<disk, rank>> /\ faults' \in faults .. Faults
BY FaultFacts DEF Becomes

\* Until its measurement is collected, there is neither a report nor a status of its wave.
LEMMA NothingWritten ==
    ASSUME Inductive, NEW w \in Waves,
           master[w].at \notin {"except", "closing", "summary", "left"}
    PROVE  report[w].status = "absent" /\ status[w] = "absent" /\ report[w].passed = {}
BY DEF Inductive, WaveInv, ReportInv, StatusInv

\* What a master with record m knows when it goes to step s, from the step it
\* is at: MasterInv and MasterLaunch, said before the step is taken.
Knows(w, m, s) ==
    /\ s = "launching" => At(w, "placing")
    /\ s = "prepare" => At(w, "preflight")
    /\ s = "recheck" => At(w, "measure") /\ Done(w)
    /\ s \in {"launching", "prepare", "recheck"} => Undisturbed(m) /\ m.mpi = "none"
    /\ m.verdict = "FAILED"
    /\ s \in {"collect", "save"} =>
          /\ master[w].at \in {"measure", "recheck", "collect"}
          /\ m.mpi = "0" => Undisturbed(m) /\ Done(w)
          /\ m.mpi = "none" =>
                /\ m.error # "none"
                /\ \/ m.timed \/ m.stopped = "early" \/ ~CleanSource(w) \/ m.broke
                   \/ \E r \in Ranks : rank[w][r] = "1" /\ node[w][r].status = "absent"
          /\ m.stopped # "no" => m.error = "stop"
    /\ s = "save" => \A r \in m.passed : MeasuredBy(w, r, node[w])
    /\ s = "except" => ~At(w, "placing") /\ ~At(w, "launching") /\ m.error # "none"

\* A step that writes no file, before there is a report.
LEMMA EarlyStep ==
    ASSUME Inductive, NEW w \in Waves, NEW m \in Masters,
           NEW s \in {"launching", "prepare", "recheck", "collect", "save", "except",
                      "summary", "left"},
           master[w].at \notin {"idle", "except", "closing", "summary", "left"},
           Sets(w, m, s), UNCHANGED <<disk, plan, files, rank>>,
           faults' \in faults .. Faults,
           Knows(w, m, s)
    PROVE  Inductive'
<1> USE DEF Knows, At
<1>0. TypeOK /\ CampaignInv /\ WaveInv(w)
  BY DEF Inductive
<1>1. s \in Steps
  BY DEF Steps
<1>3. /\ master'[w].at = s /\ master'[w].error = m.error /\ master'[w].timed = m.timed
      /\ master'[w].stopped = m.stopped /\ master'[w].mpi = m.mpi
      /\ master'[w].passed = m.passed /\ master'[w].verdict = m.verdict
      /\ master'[w].broke = m.broke
  BY <1>0, <1>1, SetsFacts
<1>4. report[w].status = "absent" /\ status[w] = "absent"
  BY NothingWritten
<1>5. master[w].at \in Steps
  BY <1>0 DEF TypeOK, Masters
<1>6. MasterLaunch(w)'
  BY <1>0, <1>3, <1>5 DEF WaveInv, MasterLaunch, files, Steps
<1>7. MasterInv(w)'
  <2>1. CASE s \in {"launching", "prepare", "recheck"}
    BY <2>1, <1>3 DEF MasterInv, Undisturbed, Done
  <2>2. CASE s \in {"collect", "save"}
    <3>1. m.mpi = "none" => Excused(w)'
      BY <2>2, <1>3 DEF Excused, CleanSource, files
    <3>2. s = "save" => \A r \in m.passed : MeasuredBy(w, r, node[w])'
      BY <2>2 DEF MeasuredBy, files
    <3>3. QED
      BY <2>2, <3>1, <3>2, <1>3 DEF MasterInv, Undisturbed, Done
  <2>3. CASE s \in {"except", "summary", "left"}
    BY <2>3, <1>3, <1>4 DEF MasterInv, files
  <2>4. QED
    BY <2>1, <2>2, <2>3
<1>8. w = 0 /\ campaign.at = "sealed" =>
          s \notin {"idle", "placing", "launching", "preflight", "prepare"}
  BY <1>0 DEF CampaignInv
<1>9. QED
  BY <1>1, <1>4, <1>6, <1>7, <1>8, MasterFrame

\* The same, of the steps that are no fault.
LEMMA EarlyBecomes ==
    ASSUME Inductive, NEW w \in Waves, NEW m \in Masters,
           NEW s \in {"launching", "prepare", "recheck", "collect", "save", "except",
                      "summary", "left"},
           master[w].at \notin {"idle", "except", "closing", "summary", "left"},
           Becomes(w, m, s), UNCHANGED <<plan, files>>, Knows(w, m, s)
    PROVE  Inductive'
<1>1. s \in Steps /\ TypeOK
  BY DEF Steps, Inductive
<1>2. Sets(w, m, s) /\ UNCHANGED <<disk, rank>> /\ faults' \in faults .. Faults
  BY <1>1, BecomesFacts
<1>3. QED
  BY <1>2, EarlyStep

\* Nothing of the campaign is written before the launch.
LEMMA PlaceStep ==
    ASSUME Inductive, NEW w \in Waves, Place(w)
    PROVE  Inductive'
<1>0. TypeOK /\ WaveInv(w) /\ MasterInv(w) /\ master[w] \in Masters
  BY DEF Inductive, WaveInv, TypeOK
<1>1. CASE Goes(w, "launching")
  <2>1. Becomes(w, master[w], "launching") /\ UNCHANGED <<plan, files>>
    BY <1>1 DEF Place, Goes
  <2>2. Knows(w, master[w], "launching")
    BY <1>0, <1>1 DEF Knows, At, Masters, MasterInv, Place
  <2>3. QED
    BY <1>0, <2>1, <2>2, EarlyBecomes DEF Place, At
<1>2. ASSUME NEW e \in {"other", "stop"}, Raises(w, e, "summary") PROVE Inductive'
  <2> DEFINE m == [master[w] EXCEPT !.error = e]
  <2>1. m \in Masters
    BY <1>0 DEF Masters
  <2>2. Becomes(w, m, "summary") /\ UNCHANGED <<plan, files>>
    BY <1>2 DEF Place, Raises
  <2>3. Knows(w, m, "summary")
    BY <1>0, <1>2 DEF Knows, At, Masters, MasterInv, Place
  <2> HIDE DEF m
  <2>4. QED
    BY <1>0, <2>1, <2>2, <2>3, EarlyBecomes DEF Place, At
<1>3. QED
  BY <1>1, <1>2 DEF Place

\* The preflight passes, fails or runs into its deadline.
LEMMA PreflightStep ==
    ASSUME Inductive, NEW w \in Waves, Preflight(w)
    PROVE  Inductive'
<1>0. TypeOK /\ WaveInv(w) /\ MasterInv(w) /\ master[w] \in Masters
  BY DEF Inductive, WaveInv, TypeOK
<1>1. CASE Goes(w, "prepare")
  <2>1. Becomes(w, master[w], "prepare") /\ UNCHANGED <<plan, files>>
    BY <1>1 DEF Preflight, Goes
  <2>2. Knows(w, master[w], "prepare")
    BY <1>0, <1>1 DEF Knows, At, Masters, MasterInv, Preflight
  <2>3. QED
    BY <1>0, <2>1, <2>2, EarlyBecomes DEF Preflight, At
<1>2. CASE Raises(w, "other", "except")
  <2> DEFINE m == [master[w] EXCEPT !.error = "other"]
  <2>1. m \in Masters
    BY <1>0 DEF Masters
  <2>2. Becomes(w, m, "except") /\ UNCHANGED <<plan, files>>
    BY <1>2 DEF Preflight, Raises
  <2>3. Knows(w, m, "except")
    BY <1>0, <1>2 DEF Knows, At, Masters, MasterInv, Preflight
  <2> HIDE DEF m
  <2>4. QED
    BY <1>0, <2>1, <2>2, <2>3, EarlyBecomes DEF Preflight, At
<1>3. CASE TimesOut(w, "except")
  <2> DEFINE m == [master[w] EXCEPT !.error = "other", !.timed = TRUE]
  <2>1. m \in Masters
    BY <1>0 DEF Masters
  <2>2. Becomes(w, m, "except") /\ UNCHANGED <<plan, files>>
    BY <1>3 DEF Preflight, TimesOut
  <2>3. Knows(w, m, "except")
    BY <1>0, <1>3 DEF Knows, At, Masters, MasterInv, Preflight
  <2> HIDE DEF m
  <2>4. QED
    BY <1>0, <2>1, <2>2, <2>3, EarlyBecomes DEF Preflight, At
<1>4. CASE Raises(w, "other", "summary")
  <2> DEFINE m == [master[w] EXCEPT !.error = "other"]
  <2>1. m \in Masters
    BY <1>0 DEF Masters
  <2>2. Becomes(w, m, "summary") /\ UNCHANGED <<plan, files>>
    BY <1>4 DEF Preflight, Raises
  <2>3. Knows(w, m, "summary")
    BY <1>0, <1>4 DEF Knows, At, Masters, MasterInv, Preflight
  <2> HIDE DEF m
  <2>4. QED
    BY <1>0, <2>1, <2>2, <2>3, EarlyBecomes DEF Preflight, At
<1>5. QED
  BY <1>1, <1>2, <1>3, <1>4 DEF Preflight

\* A child of the measurement or of its recheck that failed by itself is remembered.
LEMMA ChildFailsStep ==
    ASSUME Inductive, NEW w \in Waves, ChildFails(w), At(w, "measure") \/ At(w, "recheck"),
           UNCHANGED <<plan, files>>
    PROVE  Inductive'
<1> DEFINE m == [master[w] EXCEPT !.error = "other", !.broke = TRUE]
<1>0. TypeOK /\ WaveInv(w) /\ MasterInv(w) /\ master[w] \in Masters /\ "collect" \in Steps
  BY DEF Inductive, WaveInv, TypeOK, Steps
<1>1. m \in Masters
  BY <1>0 DEF Masters
<1>2. Sets(w, m, "collect") /\ UNCHANGED <<disk, rank>> /\ faults' \in faults .. Faults
  BY <1>0, FaultFacts DEF ChildFails
<1>3. Knows(w, m, "collect")
  BY <1>0 DEF Knows, At, Masters, MasterInv, Undisturbed
<1> HIDE DEF m
<1>4. QED
  BY <1>0, <1>1, <1>2, <1>3, EarlyStep DEF At

\* mpirun ends when all its ranks succeeded, with a rank that left no status, or by itself.
LEMMA MpiReturnsStep ==
    ASSUME Inductive, NEW w \in Waves, MpiReturns(w)
    PROVE  Inductive'
<1>0. TypeOK /\ WaveInv(w) /\ MasterInv(w) /\ master[w] \in Masters
  BY DEF Inductive, WaveInv, TypeOK
<1>1. CASE Goes(w, "recheck") /\ Done(w)
  <2>1. Becomes(w, master[w], "recheck") /\ UNCHANGED <<plan, files>>
    BY <1>1 DEF MpiReturns, Goes
  <2>2. Knows(w, master[w], "recheck")
    BY <1>0, <1>1 DEF Knows, At, Masters, MasterInv, MpiReturns
  <2>3. QED
    BY <1>0, <2>1, <2>2, EarlyBecomes DEF MpiReturns, At
<1>2. CASE Raises(w, "other", "collect") /\ \E r \in Ranks : rank[w][r] = "1"
  <2> DEFINE m == [master[w] EXCEPT !.error = "other"]
  <2>1. m \in Masters
    BY <1>0 DEF Masters
  <2>2. Becomes(w, m, "collect") /\ UNCHANGED <<plan, files>>
    BY <1>2 DEF MpiReturns, Raises
  <2>3. Knows(w, m, "collect")
    BY <1>0, <1>2 DEF Knows, At, Masters, MasterInv, WaveInv, RankInv, Undisturbed, MpiReturns
  <2> HIDE DEF m
  <2>4. QED
    BY <1>0, <2>1, <2>2, <2>3, EarlyBecomes DEF MpiReturns, At
<1>3. QED
  BY <1>1, <1>2, ChildFailsStep DEF MpiReturns, Done

\* A stopped mpirun is remembered as timed out.
LEMMA MpiStoppedStep ==
    ASSUME Inductive, NEW w \in Waves, MpiStopped(w)
    PROVE  Inductive'
<1>0. TypeOK /\ WaveInv(w) /\ MasterInv(w) /\ master[w] \in Masters
  BY DEF Inductive, WaveInv, TypeOK
<1>1. CASE TimesOut(w, "collect")
  <2> DEFINE m == [master[w] EXCEPT !.error = "other", !.timed = TRUE]
  <2>1. m \in Masters
    BY <1>0 DEF Masters
  <2>2. Becomes(w, m, "collect") /\ UNCHANGED <<plan, files>>
    BY <1>1 DEF MpiStopped, TimesOut
  <2>3. Knows(w, m, "collect")
    BY <1>0, <1>1 DEF Knows, At, Masters, MasterInv, Undisturbed, MpiStopped
  <2> HIDE DEF m
  <2>4. QED
    BY <1>0, <2>1, <2>2, <2>3, EarlyBecomes DEF MpiStopped, At
<1>2. QED
  BY <1>1 DEF MpiStopped

\* The exit status is assigned over a clean source only.
LEMMA RecheckStep ==
    ASSUME Inductive, NEW w \in Waves, Recheck(w)
    PROVE  Inductive'
<1>0. TypeOK /\ WaveInv(w) /\ MasterInv(w) /\ master[w] \in Masters
  BY DEF Inductive, WaveInv, TypeOK
<1>1. CASE Becomes(w, [master[w] EXCEPT !.mpi = "0"], "collect")
  <2> DEFINE m == [master[w] EXCEPT !.mpi = "0"]
  <2>1. m \in Masters
    BY <1>0 DEF Masters
  <2>2. Becomes(w, m, "collect") /\ UNCHANGED <<plan, files>>
    BY <1>1 DEF Recheck
  <2>3. Knows(w, m, "collect")
    BY <1>0, <1>1 DEF Knows, At, Masters, MasterInv, Undisturbed, Recheck
  <2> HIDE DEF m
  <2>4. QED
    BY <1>0, <2>1, <2>2, <2>3, EarlyBecomes DEF Recheck, At
<1>2. CASE Raises(w, "other", "collect") /\ ~CleanSource(w)
  <2> DEFINE m == [master[w] EXCEPT !.error = "other"]
  <2>1. m \in Masters
    BY <1>0 DEF Masters
  <2>2. Becomes(w, m, "collect") /\ UNCHANGED <<plan, files>>
    BY <1>2 DEF Recheck, Raises
  <2>3. Knows(w, m, "collect")
    BY <1>0, <1>2 DEF Knows, At, Masters, MasterInv, Undisturbed, Recheck
  <2> HIDE DEF m
  <2>4. QED
    BY <1>0, <2>1, <2>2, <2>3, EarlyBecomes DEF Recheck, At
<1>3. CASE TimesOut(w, "collect")
  <2> DEFINE m == [master[w] EXCEPT !.error = "other", !.timed = TRUE]
  <2>1. m \in Masters
    BY <1>0 DEF Masters
  <2>2. Becomes(w, m, "collect") /\ UNCHANGED <<plan, files>>
    BY <1>3 DEF Recheck, TimesOut
  <2>3. Knows(w, m, "collect")
    BY <1>0, <1>3 DEF Knows, At, Masters, MasterInv, Undisturbed, Recheck
  <2> HIDE DEF m
  <2>4. QED
    BY <1>0, <2>1, <2>2, <2>3, EarlyBecomes DEF Recheck, At
<1>4. QED
  BY <1>1, <1>2, <1>3, ChildFailsStep DEF Recheck

\* Without a report, the exception of its save is on its way.
LEMMA SaveReportFailsStep ==
    ASSUME Inductive, NEW w \in Waves, SaveReportFails(w)
    PROVE  Inductive'
<1>0. TypeOK /\ WaveInv(w) /\ MasterInv(w) /\ master[w] \in Masters
  BY DEF Inductive, WaveInv, TypeOK
<1>1. CASE Raises(w, "other", "except")
  <2> DEFINE m == [master[w] EXCEPT !.error = "other"]
  <2>1. m \in Masters
    BY <1>0 DEF Masters
  <2>2. Becomes(w, m, "except") /\ UNCHANGED <<plan, files>>
    BY <1>1 DEF SaveReportFails, Raises
  <2>3. Knows(w, m, "except")
    BY <1>0, <1>1 DEF Knows, At, Masters, MasterInv, SaveReportFails
  <2> HIDE DEF m
  <2>4. QED
    BY <1>0, <2>1, <2>2, <2>3, EarlyBecomes DEF SaveReportFails, At
<1>2. QED
  BY <1>1 DEF SaveReportFails

\* A node is passed on a completed rank, which has measured the campaign's inputs.
LEMMA JudgeStep ==
    ASSUME Inductive, NEW w \in Waves, Judge(w)
    PROVE  Inductive'
<1> DEFINE passed == IF InputsIntact(w)
                     THEN {r \in Ranks : CompleteNode(node[w][r]) /\ node[w][r].whole} ELSE {}
           m == [master[w] EXCEPT !.passed = passed]
<1>0. TypeOK /\ WaveInv(w) /\ MasterInv(w) /\ master[w] \in Masters
  BY DEF Inductive, WaveInv, TypeOK
<1>1. m \in Masters
  BY <1>0 DEF Masters
<1>2. Becomes(w, m, "save") /\ UNCHANGED <<plan, files>>
  BY DEF Judge
<1>3. ASSUME NEW r \in passed PROVE MeasuredBy(w, r, node[w])
  <2>1. r \in Ranks /\ CompleteNode(node[w][r]) /\ RankInv(w, r)
    BY <1>0 DEF WaveInv
  <2>2. node[w][r].calls # <<>>
    <3>1. Len(node[w][r].calls) # 0
      BY <2>1, ProductionAssumption DEF CompleteNode
    <3>2. QED
      BY <3>1
  <2>3. QED
    BY <2>1, <2>2 DEF RankInv, MeasuredBy, CompleteNode
<1>4. Knows(w, m, "save")
  <2>1. /\ m.passed = passed /\ m.mpi = master[w].mpi /\ m.error = master[w].error
        /\ m.timed = master[w].timed /\ m.stopped = master[w].stopped
        /\ m.verdict = master[w].verdict /\ m.broke = master[w].broke
    BY <1>0 DEF Masters
  <2>2. At(w, "collect")
    BY DEF Judge
  <2>3. QED
    BY <1>0, <1>3, <2>1, <2>2 DEF Knows, At, MasterInv, Undisturbed, Excused
<1> HIDE DEF m
<1>5. QED
  BY <1>0, <1>1, <1>2, <1>4, EarlyBecomes DEF Judge, At

\* A step of run_master's except and finally clauses and of amd_wave.run's that
\* writes no file: MasterInv is left to show, of the step to come.
LEMMA ClosingStep ==
    ASSUME Inductive, NEW w \in Waves, NEW m \in Masters,
           NEW s \in {"except", "closing", "summary", "left"},
           master[w].at \in {"except", "closing", "summary"},
           s \in {"except", "closing"} => master[w].at # "summary",
           Sets(w, m, s), UNCHANGED <<disk, plan, files, rank>>,
           faults' \in faults .. Faults,
           m.timed = master[w].timed,
           report[w].status # "absent" => (m.stopped = "early" <=> master[w].stopped = "early"),
           master[w].broke => m.broke,
           master[w].at = "summary" =>
               m.stopped = master[w].stopped /\ m.masked = master[w].masked,
           MasterInv(w)'
    PROVE  Inductive'
<1>0. TypeOK /\ CampaignInv /\ WaveInv(w) /\ s \in Steps
  BY DEF Inductive, Steps
<1>1. master'[w].at = s
  BY <1>0, SetsFacts
<1>2. MasterLaunch(w)'
  BY <1>0, <1>1 DEF MasterLaunch, WaveInv, files
<1>3. status[w] # "absent" => master[w].at = "summary"
  BY <1>0 DEF WaveInv, StatusInv
<1>4. QED
  BY <1>0, <1>2, <1>3, MasterFrame

\* The except clause finds the verdict.
LEMMA HandleStep ==
    ASSUME Inductive, NEW w \in Waves, Handle(w)
    PROVE  Inductive'
<1> DEFINE o == master[w]
           m == [o EXCEPT !.error = "none",
                          !.verdict = IF Interrupted(o) THEN "UNKNOWN" ELSE @]
<1>0. TypeOK /\ WaveInv(w) /\ MasterInv(w) /\ o \in Masters /\ "closing" \in Steps
  BY DEF Inductive, WaveInv, TypeOK, Steps
<1>1. /\ m \in Masters /\ m.timed = o.timed /\ m.stopped = o.stopped
      /\ m.masked = o.masked /\ m.broke = o.broke
      /\ m.verdict = IF Interrupted(o) THEN "UNKNOWN" ELSE o.verdict
  BY <1>0 DEF Masters, Verdicts
<1>2. Becomes(w, m, "closing") /\ UNCHANGED <<plan, files>> /\ o.at = "except"
  BY DEF Handle, At
<1> HIDE DEF m
<1>3. Sets(w, m, "closing") /\ UNCHANGED <<disk, rank>> /\ faults' \in faults .. Faults
  BY <1>0, <1>2, BecomesFacts
<1>4. /\ master'[w].at = "closing" /\ master'[w].verdict = m.verdict
      /\ master'[w].timed = m.timed /\ master'[w].stopped = m.stopped
      /\ master'[w].masked = m.masked
  BY <1>0, <1>1, <1>3, SetsFacts
<1>5. Founded(w, master[w].verdict)'
  <2>1. CASE Interrupted(o)
    BY <1>1, <1>4, <2>1 DEF Founded
  <2>2. CASE ~Interrupted(o)
    <3>1. /\ ~o.timed /\ o.verdict # "COMPLETE"
          /\ o.stopped # "no" => report[w].status = "absent"
      BY <1>0, <1>2, <2>2 DEF Interrupted, MasterInv
    <3>2. QED
      BY <1>1, <1>2, <1>4, <2>2, <3>1 DEF Founded, files
  <2>3. QED
    BY <2>1, <2>2
<1>6. MasterInv(w)'
  BY <1>4, <1>5 DEF MasterInv
<1>7. QED
  BY <1>1, <1>2, <1>3, <1>6, ClosingStep

\* Without a status, the summary is all that is left to write.
LEMMA SaveStatusFailsStep ==
    ASSUME Inductive, NEW w \in Waves, SaveStatusFails(w)
    PROVE  Inductive'
<1> DEFINE m == [master[w] EXCEPT !.error = "other", !.verdict = "FAILED"]
<1>0. TypeOK /\ master[w] \in Masters /\ "summary" \in Steps
  BY DEF Inductive, TypeOK, Steps
<1>1. /\ m \in Masters /\ m.timed = master[w].timed /\ m.stopped = master[w].stopped
      /\ m.verdict = "FAILED" /\ m.masked = master[w].masked /\ m.broke = master[w].broke
  BY <1>0 DEF Masters, Verdicts
<1>2. Becomes(w, m, "summary") /\ UNCHANGED <<plan, files>> /\ master[w].at = "closing"
  BY DEF SaveStatusFails, At
<1> HIDE DEF m
<1>3. Sets(w, m, "summary") /\ UNCHANGED <<disk, rank>> /\ faults' \in faults .. Faults
  BY <1>0, <1>2, BecomesFacts
<1>4. master'[w].at = "summary" /\ master'[w].verdict = "FAILED"
  BY <1>0, <1>1, <1>3, SetsFacts
<1>5. MasterInv(w)'
  BY <1>4 DEF MasterInv
<1>6. QED
  BY <1>1, <1>2, <1>3, <1>5, ClosingStep

\* The record of a process that is gone.
LEMMA GoneFacts ==
    ASSUME NEW m \in Masters
    PROVE  /\ Gone(m) \in Masters /\ Gone(m).timed = m.timed /\ Gone(m).stopped = m.stopped
           /\ Gone(m).masked = m.masked /\ Gone(m).broke = m.broke
BY DEF Gone, Idle, Masters, Steps, Verdicts

\* The record of a master at which a signal arrived, after the step.
LEMMA StopFacts ==
    ASSUME TypeOK, NEW w \in Waves, NEW to \in Steps, NEW v \in Verdicts, StopTo(w, to, v)
    PROVE  \E m \in Masters :
              /\ Sets(w, m, to) /\ m.error = "stop" /\ m.verdict = v
              /\ m.timed = master[w].timed /\ m.mpi = master[w].mpi
              /\ m.broke = master[w].broke
              /\ m.masked = (master[w].masked \/ to = "closing")
              /\ m.stopped = IF master[w].stopped # "no" \/ master[w].at = "summary"
                             THEN master[w].stopped
                             ELSE IF report[w].status = "absent" THEN "early" ELSE "late"
<1> DEFINE o == master[w]
           first == IF report[w].status = "absent" THEN "early" ELSE "late"
           m == [o EXCEPT !.error = "stop", !.verdict = v,
                          !.stopped = IF @ # "no" \/ o.at = "summary" THEN @ ELSE first,
                          !.masked = @ \/ to = "closing"]
<1>1. o \in Masters
  BY DEF TypeOK
<1>2. /\ m \in Masters /\ m.error = "stop" /\ m.verdict = v /\ m.timed = o.timed
      /\ m.mpi = o.mpi /\ m.broke = o.broke /\ m.masked = (o.masked \/ to = "closing")
      /\ m.stopped = IF o.stopped # "no" \/ o.at = "summary" THEN o.stopped ELSE first
  BY <1>1 DEF Masters
<1>3. Sets(w, m, to)
  BY DEF StopTo
<1> HIDE DEF m
<1>4. QED
  BY <1>2, <1>3

\* A signal before the measurement was collected.
LEMMA EarlySignal ==
    ASSUME Inductive, NEW w \in Waves, NEW to \in {"collect", "except", "summary"},
           master[w].at \in {"placing", "launching", "preflight", "prepare", "measure",
                             "recheck", "collect", "save"},
           to = "collect" => master[w].at \in {"measure", "recheck"},
           to = "except" => master[w].at \in {"preflight", "prepare", "collect", "save"},
           StopTo(w, to, master[w].verdict),
           UNCHANGED <<disk, plan, files, rank>>, faults' \in faults .. Faults
    PROVE  Inductive'
<1>0. TypeOK /\ WaveInv(w) /\ MasterInv(w) /\ to \in Steps /\ master[w].verdict \in Verdicts
  BY DEF Inductive, WaveInv, TypeOK, Masters, Steps
<1>1. PICK m \in Masters :
         /\ Sets(w, m, to) /\ m.error = "stop" /\ m.verdict = master[w].verdict
         /\ m.mpi = master[w].mpi
         /\ m.stopped = IF master[w].stopped # "no" \/ master[w].at = "summary"
                        THEN master[w].stopped
                        ELSE IF report[w].status = "absent" THEN "early" ELSE "late"
  BY <1>0, StopFacts
<1>2. report[w].status = "absent"
  BY NothingWritten
<1>3. Knows(w, m, to)
  BY <1>0, <1>1, <1>2 DEF Knows, At, MasterInv, Undisturbed, Masters
<1>4. QED
  BY <1>1, <1>3, EarlyStep

\* A signal in the except or the finally clause of run_master, or after it.
LEMMA LateSignal ==
    ASSUME Inductive, NEW w \in Waves, NEW to \in {"except", "closing", "summary"},
           NEW v \in Verdicts,
           master[w].at \in {"except", "closing", "summary"},
           StopTo(w, to, v),
           to = "except" =>
              \/ master[w].at = "except" /\ v = master[w].verdict
              \/ /\ master[w].at = "closing" /\ master[w].verdict = "COMPLETE"
                 /\ v \in {"FAILED", "COMPLETE"},
           to = "closing" => master[w].at # "summary" /\ v = master[w].verdict,
           to = "summary" =>
              \/ v = "FAILED"
              \/ master[w].at = "summary" /\ v = master[w].verdict,
           UNCHANGED <<disk, plan, files, rank>>, faults' \in faults .. Faults
    PROVE  Inductive'
<1>0. TypeOK /\ WaveInv(w) /\ MasterInv(w) /\ ReportInv(w) /\ to \in Steps
      /\ master[w] \in Masters
  BY DEF Inductive, WaveInv, TypeOK, Steps
<1>1. PICK m \in Masters :
         /\ Sets(w, m, to) /\ m.error = "stop" /\ m.verdict = v
         /\ m.timed = master[w].timed /\ m.mpi = master[w].mpi
         /\ m.broke = master[w].broke
         /\ m.masked = (master[w].masked \/ to = "closing")
         /\ m.stopped = IF master[w].stopped # "no" \/ master[w].at = "summary"
                        THEN master[w].stopped
                        ELSE IF report[w].status = "absent" THEN "early" ELSE "late"
  BY <1>0, StopFacts
<1>2. /\ master'[w].at = to /\ master'[w].error = "stop" /\ master'[w].verdict = v
      /\ master'[w].timed = m.timed /\ master'[w].stopped = m.stopped
      /\ master'[w].masked = m.masked
  BY <1>0, <1>1, SetsFacts
<1>3. MasterInv(w)'
  <2>1. CASE to = "except"
    BY <1>0, <1>2, <2>1 DEF MasterInv, Founded, files
  <2>2. CASE to = "closing"
    <3>1. master'[w].masked /\ (v = "COMPLETE" => report'[w].status = "COMPLETE")
      BY <1>0, <1>1, <1>2, <2>2 DEF MasterInv, Founded, files
    <3>2. QED
      BY <1>2, <2>2, <3>1 DEF MasterInv, Founded
  <2>3. CASE to = "summary"
    BY <1>0, <1>2, <2>3 DEF MasterInv, files
  <2>4. QED
    BY <2>1, <2>2, <2>3
<1>4. report[w].status # "absent" => (m.stopped = "early" <=> master[w].stopped = "early")
  BY <1>1
<1>5. master[w].at = "summary" =>
          to = "summary" /\ m.stopped = master[w].stopped /\ m.masked = master[w].masked
  BY <1>0, <1>1 DEF Masters
<1>6. QED
  BY <1>1, <1>3, <1>4, <1>5, ClosingStep

\* A signal, at any step that is not a child's.
LEMMA StopStep ==
    ASSUME Inductive, NEW w \in Waves, Stop(w)
    PROVE  Inductive'
<1>0. TypeOK /\ MasterInv(w) /\ master[w] \in Masters
      /\ {"left", "summary", "except", "closing", "collect"} \subseteq Steps
      /\ master[w].verdict \in Verdicts /\ {"FAILED", "COMPLETE"} \subseteq Verdicts
  BY DEF Inductive, WaveInv, TypeOK, Masters, Steps, Verdicts
<1>1. UNCHANGED <<disk, plan, files, rank>> /\ faults' \in faults .. Faults
  BY <1>0, FaultFacts DEF Stop
<1>2. CASE master[w].at \in {"placing", "launching", "preflight", "prepare", "measure",
                             "recheck", "collect", "save"}
  BY <1>1, <1>2, EarlySignal DEF Stop
<1>3. CASE /\ master[w].at \in {"except", "closing", "summary"}
           /\ \E to \in {"except", "closing", "summary"}, v \in Verdicts :
                 /\ StopTo(w, to, v)
                 /\ to = "except" =>
                       \/ master[w].at = "except" /\ v = master[w].verdict
                       \/ /\ master[w].at = "closing" /\ master[w].verdict = "COMPLETE"
                          /\ v \in {"FAILED", "COMPLETE"}
                 /\ to = "closing" => master[w].at # "summary" /\ v = master[w].verdict
                 /\ to = "summary" =>
                       \/ v = "FAILED"
                       \/ master[w].at = "summary" /\ v = master[w].verdict
  BY <1>1, <1>3, LateSignal
<1>4. CASE master[w].at = "summary" /\ Sets(w, [master[w] EXCEPT !.error = "other"], "summary")
  <2> DEFINE m == [master[w] EXCEPT !.error = "other"]
  <2>1. /\ m \in Masters /\ m.timed = master[w].timed /\ m.stopped = master[w].stopped
        /\ m.masked = master[w].masked /\ m.broke = master[w].broke
        /\ m.verdict = master[w].verdict
    BY <1>0 DEF Masters
  <2>2. Sets(w, m, "summary")
    BY <1>4
  <2> HIDE DEF m
  <2>3. master'[w].at = "summary" /\ master'[w].verdict = m.verdict
    BY <1>0, <2>1, <2>2, SetsFacts
  <2>4. MasterInv(w)'
    BY <1>0, <1>1, <1>4, <2>1, <2>3 DEF MasterInv, files
  <2>5. QED
    BY <1>1, <1>4, <2>1, <2>2, <2>4, ClosingStep
<1>5. CASE master[w].at = "summary" /\ Sets(w, Gone(master[w]), "left")
  <2>1. PICK m \in Masters :
           /\ Sets(w, m, "left") /\ m.timed = master[w].timed
           /\ m.stopped = master[w].stopped
           /\ m.masked = master[w].masked /\ m.broke = master[w].broke
    BY <1>0, <1>5, GoneFacts
  <2>2. master'[w].at = "left"
    BY <1>0, <2>1, SetsFacts
  <2>3. MasterInv(w)'
    BY <2>2 DEF MasterInv
  <2>4. QED
    BY <1>1, <1>5, <2>1, <2>3, ClosingStep
<1>6. QED
  <2>1. CASE master[w].at = "except"
    BY <1>0, <1>3, <2>1 DEF Stop
  <2>2. CASE master[w].at = "closing"
    BY <1>0, <1>3, <2>2 DEF Stop
  <2>3. CASE master[w].at = "summary"
    BY <1>0, <1>3, <1>4, <1>5, <2>3 DEF Stop
  <2>4. QED
    BY <1>2, <2>1, <2>2, <2>3 DEF Stop

\* A dead master knows and writes nothing more.
LEMMA DieStep ==
    ASSUME Inductive, NEW w \in Waves, Die(w)
    PROVE  Inductive'
<1>0. TypeOK /\ master[w] \in Masters /\ "left" \in Steps
  BY DEF Inductive, TypeOK, Steps
<1>1. PICK m \in Masters :
         /\ Sets(w, m, "left") /\ m.timed = master[w].timed /\ m.stopped = master[w].stopped
         /\ m.masked = master[w].masked /\ m.broke = master[w].broke
  BY <1>0, GoneFacts DEF Die
<1>2. UNCHANGED <<disk, plan, files, rank>> /\ faults' \in faults .. Faults
  BY <1>0, FaultFacts DEF Die
<1>3. master'[w].at = "left"
  BY <1>0, <1>1, SetsFacts
<1>4. MasterLaunch(w)' /\ MasterInv(w)'
  BY <1>3 DEF MasterLaunch, MasterInv
<1>5. QED
  BY <1>0, <1>1, <1>2, <1>4, MasterFrame

-----------------------------------------------------------------------------
(* The steps that write files of the campaign.                             *)

\* An adoption touches nothing but its own file.
LEMMA AdoptionStep ==
    ASSUME Inductive, AdoptDirectory \/ Adopt
    PROVE  Inductive'
<1>0. TypeOK /\ DiskInv /\ CampaignInv
  BY DEF Inductive
<1>1. UNCHANGED <<disk, campaign, plan, launch, prepared, node, report, status,
                  summary, master, rank, faults>>
  BY DEF AdoptDirectory, Adopt
<1>2. adoption' \in {"empty", "saved"} /\ (adoption = "saved" => adoption' = "saved")
  BY DEF AdoptDirectory, Adopt
<1>3. TypeOK'
  BY <1>0, <1>1, <1>2 DEF TypeOK
<1>4. DiskInv' /\ CampaignInv'
  BY <1>0, <1>1 DEF DiskInv, CampaignInv
<1>5. ASSUME NEW v \in Waves PROVE WaveInv(v)'
  BY <1>0, <1>1, <1>3, ProductionAssumption, WaveFrame DEF Inductive, KeepsWave, TypeOK, Versions
<1>6. NextWaveJustified'
  BY <1>1, <1>2, JustifiedFrame DEF KeepsJustification
<1>7. QED
  BY <1>3, <1>4, <1>5, <1>6 DEF Inductive

\* The inputs or the source are replaced by newer ones.
LEMMA ReplaceStep ==
    ASSUME Inductive, Replace
    PROVE  Inductive'
<1>0. TypeOK /\ DiskInv /\ CampaignInv
  BY DEF Inductive
<1>1. PICK f \in {"inputs", "source"} : disk' = [disk EXCEPT ![f] = @ + 1]
  BY DEF Replace
<1>2. /\ UNCHANGED <<campaign, plan, launch, prepared, node, report, status, summary,
                     adoption, master, rank>>
      /\ faults' = faults + 1 /\ faults < Faults
  BY DEF Replace, files, Fault
<1>3. /\ disk.inputs \in Nat /\ disk.source \in Nat /\ faults \in Nat /\ Faults \in Nat
      /\ \A w \in Waves : plan[w].source \in Nat
  BY <1>0, ProductionAssumption DEF TypeOK, Versions
<1>4. /\ disk'.inputs \in {disk.inputs, disk.inputs + 1}
      /\ disk'.source \in {disk.source, disk.source + 1}
      /\ disk' = [inputs |-> disk'.inputs, source |-> disk'.source]
  BY <1>0, <1>1 DEF TypeOK
<1>5. DiskInv'
  BY <1>0, <1>2, <1>3, <1>4 DEF DiskInv
<1>6. TypeOK'
  <2>1. disk'.inputs \in Versions /\ disk'.source \in Versions /\ faults' \in 0 .. Faults
    BY <1>2, <1>3, <1>4, <1>0 DEF Versions, DiskInv
  <2>2. disk' \in [inputs : Versions, source : Versions]
    BY <1>4, <2>1
  <2>3. QED
    BY <1>0, <1>2, <2>1, <2>2 DEF TypeOK
<1>7. CampaignInv'
  BY <1>0, <1>2 DEF CampaignInv
<1>8. ASSUME NEW v \in Waves PROVE WaveInv(v)'
  BY <1>0, <1>2, <1>3, <1>4, <1>6, WaveFrame DEF Inductive, KeepsWave
<1>9. NextWaveJustified'
  BY <1>2, JustifiedFrame DEF KeepsJustification
<1>10. QED
  BY <1>5, <1>6, <1>7, <1>8, <1>9 DEF Inductive

\* A lost file of wave 0's evidence: only its wholeness is recorded.
LEMMA LoseEvidenceStep ==
    ASSUME Inductive, NEW r \in Ranks, LoseEvidence(r)
    PROVE  Inductive'
<1>0. TypeOK /\ DiskInv /\ CampaignInv /\ 0 \in Waves /\ WaveInv(0)
  BY DEF Inductive, Waves
<1>1. /\ UNCHANGED <<disk, plan, campaign, launch, prepared, report, status, summary,
                     adoption, master, rank>>
      /\ faults' \in faults .. Faults /\ report[0].status # "absent"
  BY <1>0, FaultFacts DEF LoseEvidence
<1>2. /\ \A q \in Ranks : q # r => node'[0][q] = node[0][q]
      /\ node'[0][r] = [node[0][r] EXCEPT !.whole = FALSE]
      /\ \A v \in Waves : v # 0 => node'[v] = node[v]
  BY <1>0 DEF LoseEvidence, TypeOK
<1>3. \A q \in Ranks :
          /\ node'[0][q].calls = node[0][q].calls /\ node'[0][q].from = node[0][q].from
          /\ node'[0][q].status = node[0][q].status
          /\ node'[0][q] = node[0][q] \/ ~node'[0][q].whole
          /\ node'[0][q] \in NodeFiles
  <2> SUFFICES ASSUME NEW q \in Ranks
               PROVE  /\ node'[0][q].calls = node[0][q].calls
                      /\ node'[0][q].from = node[0][q].from
                      /\ node'[0][q].status = node[0][q].status
                      /\ node'[0][q] = node[0][q] \/ ~node'[0][q].whole
                      /\ node'[0][q] \in NodeFiles
    OBVIOUS
  <2>1. node[0][q] \in NodeFiles
    BY <1>0 DEF TypeOK
  <2>2. CASE q = r
    BY <2>1, <2>2, <1>2 DEF NodeFiles
  <2>3. CASE q # r
    BY <2>1, <2>3, <1>2
  <2>4. QED
    BY <2>2, <2>3
<1>4. TypeOK'
  <2>1. node' \in [Waves -> [Ranks -> NodeFiles]]
    <3>1. node'[0] \in [Ranks -> NodeFiles] /\ node' = [node EXCEPT ![0] = node'[0]]
      <4>1. node' = [node EXCEPT ![0] = [node[0] EXCEPT
                                            ![r] = [node[0][r] EXCEPT !.whole = FALSE]]]
        BY DEF LoseEvidence
      <4>2. node'[0] = [node[0] EXCEPT ![r] = [node[0][r] EXCEPT !.whole = FALSE]]
        BY <1>0, <4>1 DEF TypeOK
      <4>3. [node[0][r] EXCEPT !.whole = FALSE] \in NodeFiles
        BY <1>2, <1>3
      <4>4. QED
        BY <1>0, <4>1, <4>2, <4>3 DEF TypeOK
    <3>2. QED
      BY <1>0, <3>1 DEF TypeOK
  <2>2. faults' \in 0 .. Faults
    BY <1>0, <1>1, ProductionAssumption DEF TypeOK
  <2>3. QED
    BY <1>0, <1>1, <2>1, <2>2 DEF TypeOK
<1>5. disk.inputs \in Nat /\ disk.source \in Nat /\ faults \in Nat /\ faults' \in Nat
      /\ faults <= faults'
  BY <1>0, <1>1, <1>4, ProductionAssumption DEF TypeOK, Versions
<1>6. DiskInv' /\ CampaignInv'
  BY <1>0, <1>1, <1>5 DEF DiskInv, CampaignInv
<1>7. ASSUME NEW v \in Waves, v # 0 PROVE WaveInv(v)'
  BY <1>0, <1>1, <1>2, <1>4, <1>5, <1>7, WaveFrame DEF Inductive, KeepsWave
<1>8. WaveInv(0)'
  <2>1. master[0].at \in {"except", "closing", "summary", "left"} /\ prepared[0]
        /\ report[0].passed \subseteq Ranks
    BY <1>0, <1>1 DEF WaveInv, ReportInv, TypeOK, Reports
  <2>2. ASSUME NEW q \in Ranks PROVE RankInv(0, q)'
    <3>1. RankInv(0, q) /\ (CompleteNode(node[0][q]) => CompleteNode(node[0][q])')
      BY <1>0, <1>3 DEF WaveInv, CompleteNode
    <3>2. rank[0][q] = "none" => node'[0][q] = node[0][q]
      BY <1>2, <3>1 DEF RankInv, NoNode, LoseEvidence
    <3>3. QED
      BY <1>1, <1>3, <3>1, <3>2 DEF RankInv
  <2>3. MasterLaunch(0)' /\ MasterInv(0)'
    BY <1>0, <1>1, <2>1 DEF WaveInv, MasterLaunch, MasterInv, Founded
  <2>4. Excused(0) => Excused(0)'
    BY <1>1, <1>3 DEF Excused, CleanSource
  <2>5. ReportInv(0)'
    BY <1>0, <1>1, <1>3, <2>1, <2>4 DEF WaveInv, ReportInv, Done, MeasuredBy
  <2>6. StatusInv(0)'
    BY <1>0, <1>1 DEF WaveInv, StatusInv, Founded
  <2>7. QED
    BY <2>2, <2>3, <2>5, <2>6 DEF WaveInv
<1>9. NextWaveJustified'
  BY <1>1, JustifiedFrame DEF KeepsJustification
<1>10. QED
  BY <1>4, <1>6, <1>7, <1>8, <1>9 DEF Inductive

\* What a file-writing step of wave w's master leaves of the rest: the other
\* wave, the disk and the ranks.
LEMMA OtherWave ==
    ASSUME Inductive, TypeOK', NEW w \in Waves, NEW v \in Waves, v # w,
           KeepsWave(v), UNCHANGED disk,
           prepared[v] => campaign'.inputs = campaign.inputs
    PROVE  WaveInv(v)'
<1>1. disk.source \in Nat
  BY ProductionAssumption DEF Inductive, TypeOK, Versions
<1>2. QED
  BY <1>1, WaveFrame DEF Inductive

\* A new request is sealed over files that are there.
LEMMA BeginWaveStep ==
    ASSUME Inductive, NEW w \in Waves, BeginWave(w)
    PROVE  Inductive'
<1>0. TypeOK /\ DiskInv /\ CampaignInv /\ WaveInv(w) /\ "placing" \in Steps
  BY DEF Inductive, Steps
<1>1. PICK adopted \in BOOLEAN :
         /\ w = 0 => campaign.at = "absent"
         /\ plan' = [plan EXCEPT ![w] = [inputs |-> disk.inputs, source |-> disk.source,
                                         adopted |-> adopted]]
  BY DEF BeginWave
<1>2. /\ UNCHANGED <<disk, campaign, launch, prepared, node, report, status, adoption,
                     rank, faults>>
      /\ summary' = [summary EXCEPT ![w] = "absent"]
      /\ ~launch[w] /\ ~prepared[w]
  BY DEF BeginWave, Becomes
<1>3. Idle \in Masters
  BY DEF Idle, Masters, Steps, Verdicts
<1>4. master' = [master EXCEPT ![w] = [Idle EXCEPT !.at = "placing"]]
  BY DEF BeginWave, Becomes, Sets
<1>5. [Idle EXCEPT !.at = "placing"] \in Masters /\ master'[w].at = "placing"
      /\ Undisturbed(master'[w]) /\ master'[w].mpi = "none" /\ master'[w].verdict = "FAILED"
  BY <1>0, <1>4 DEF Idle, Masters, Undisturbed, TypeOK, Steps, Verdicts
<1>6. plan'[w].source = disk.source /\ \A v \in Waves : v # w => plan'[v] = plan[v]
  BY <1>0, <1>1 DEF TypeOK
<1>7. TypeOK'
  <2>1. plan' \in [Waves -> [inputs : Versions, source : Versions, adopted : BOOLEAN]]
    BY <1>0, <1>1 DEF TypeOK
  <2>2. master' \in [Waves -> Masters]
    BY <1>0, <1>4, <1>5 DEF TypeOK
  <2>3. summary' \in [Waves -> Verdicts]
    BY <1>0, <1>2 DEF TypeOK, Verdicts
  <2>4. QED
    BY <1>0, <1>2, <2>1, <2>2, <2>3 DEF TypeOK
<1>8. disk.source \in Nat
  BY <1>0, ProductionAssumption DEF TypeOK, Versions
<1>9. DiskInv'
  BY <1>0, <1>2, <1>6, <1>8 DEF DiskInv
<1>10. CampaignInv'
  BY <1>0, <1>1, <1>2, <1>4, <1>6 DEF CampaignInv, TypeOK
<1>11. ASSUME NEW v \in Waves, v # w PROVE WaveInv(v)'
  <2>1. KeepsWave(v)
    BY <1>0, <1>2, <1>4, <1>6, <1>11 DEF KeepsWave, TypeOK
  <2>2. QED
    BY <1>2, <1>7, <1>11, <2>1, OtherWave
<1>12. WaveInv(w)'
  <2>1. ASSUME NEW r \in Ranks PROVE RankInv(w, r)'
    BY <1>0, <1>2 DEF WaveInv, RankInv, CompleteNode, NoNode
  <2>2. report[w].status = "absent" /\ report[w].passed = {} /\ report[w].mpi = "none"
    <3>1. 0 \in Ranks /\ rank[w][0] = "none"
      BY <1>0, <1>2, ProductionAssumption DEF WaveInv, RankInv, Ranks
    <3>2. QED
      BY <1>0, <1>2, <3>1 DEF WaveInv, ReportInv, Done
  <2>3. status[w] = "absent"
    BY <1>0, <1>2 DEF WaveInv, StatusInv
  <2>4. MasterLaunch(w)' /\ MasterInv(w)'
    BY <1>2, <1>5 DEF MasterLaunch, MasterInv
  <2>5. ReportInv(w)'
    BY <1>2, <2>2 DEF ReportInv
  <2>6. StatusInv(w)'
    BY <1>0, <1>2, <2>3 DEF StatusInv, TypeOK, Founded
  <2>7. QED
    BY <2>1, <2>4, <2>5, <2>6 DEF WaveInv
<1>13. NextWaveJustified'
  <2>1. launch[1] /\ status[0] # "absent" => w # 0
    BY <1>0, <1>2 DEF WaveInv, StatusInv
  <2>2. w # 0 => KeepsJustification
    BY <1>0, <1>2, <1>4 DEF KeepsJustification, TypeOK, Waves
  <2>3. QED
    BY <1>2, <2>1, <2>2, JustifiedFrame
<1>14. QED
  BY <1>7, <1>9, <1>10, <1>11, <1>12, <1>13 DEF Inductive

\* A step of wave w's master that writes the campaign, launch or prepared: what it
\* leaves alone of the wave itself, before there is a report.
LEMMA BeforeReport ==
    ASSUME Inductive, TypeOK', NEW w \in Waves,
           master[w].at \notin {"except", "closing", "summary", "left"},
           UNCHANGED <<plan, node, report, status, summary, rank, disk>>,
           prepared[w] => prepared'[w] /\ campaign'.inputs = campaign.inputs
    PROVE  /\ \A r \in Ranks : RankInv(w, r)'
           /\ ReportInv(w)' /\ StatusInv(w)'
<1>0. WaveInv(w) /\ ProductionAssumption
  BY ProductionAssumption DEF Inductive
<1>1. report[w].status = "absent" /\ status[w] = "absent" /\ report[w].passed = {}
  BY NothingWritten
<1>2. ASSUME NEW r \in Ranks PROVE RankInv(w, r)'
  <2>1. RankInv(w, r)
    BY <1>0 DEF WaveInv
  <2>2. ~prepared[w] => node[w][r].calls = <<>>
    BY <2>1 DEF RankInv, NoNode
  <2>3. CASE prepared[w]
    BY <2>1, <2>3 DEF RankInv, CompleteNode
  <2>4. CASE ~prepared[w]
    <3>1. rank[w][r] = "none" /\ node[w][r] = NoNode
      BY <2>1, <2>4 DEF RankInv
    <3>2. QED
      BY <3>1 DEF RankInv, NoNode
  <2>5. QED
    BY <2>3, <2>4
<1>3. ReportInv(w)'
  BY <1>0, <1>1 DEF WaveInv, ReportInv, Done
<1>4. StatusInv(w)'
  BY <1>0, <1>1 DEF WaveInv, StatusInv, Founded
<1>5. QED
  BY <1>2, <1>3, <1>4

\* The launch directory is made; wave 1's only behind check_prior_wave, which is
\* where NextWaveJustified is established.
LEMMA LaunchJustified ==
    ASSUME Inductive, CheckPriorWave(plan[1])
    PROVE  /\ status[0] \in {"COMPLETE", "FAILED"}
           /\ Done(0) /\ ~master[0].timed /\ master[0].stopped # "early"
           /\ master[0].stopped = "late" => master[0].masked
           /\ \E f \in Ranks :
                 /\ \A r \in Ranks \ {f} : MeasuredBy(0, r, report[0].files)
                 /\ ~MeasuredBy(0, f, report[0].files) =>
                       RecordedFailure(report[0].files[f]) /\ adoption = "saved"
<1>0. ReportInv(0) /\ StatusInv(0) /\ 0 \in Ranks
  BY ProductionAssumption DEF Inductive, WaveInv, Waves, Ranks
<1>1. CASE report[0].status = "COMPLETE" /\ status[0] = "COMPLETE"
  <2>1. \A r \in Ranks : MeasuredBy(0, r, report[0].files)
    BY <1>0, <1>1 DEF ReportInv
  <2>2. QED
    BY <1>0, <1>1, <2>1 DEF ReportInv, StatusInv, Founded
<1>2. CASE adoption = "saved" /\ Adoptable
  <2>1. PICK f \in Ranks : RecordedFailure(node[0][f]) /\ report[0].passed = Ranks \ {f}
    BY <1>2 DEF Adoptable
  <2>2. /\ status[0] = "FAILED" /\ report[0].status = "FAILED" /\ report[0].mpi = "0"
        /\ node[0] = report[0].files
    BY <1>2 DEF Adoptable
  <2>3. \A r \in Ranks \ {f} : MeasuredBy(0, r, report[0].files)
    BY <1>0, <2>1 DEF ReportInv
  <2>4. QED
    BY <1>0, <1>2, <2>1, <2>2, <2>3 DEF ReportInv, StatusInv, Founded
<1>3. QED
  BY <1>1, <1>2 DEF CheckPriorWave

\* Wave 1 is launched over a justified wave 0, wave 0 over no campaign.
LEMMA LaunchStep ==
    ASSUME Inductive, NEW w \in Waves, Launch(w)
    PROVE  Inductive'
<1>0. TypeOK /\ DiskInv /\ CampaignInv /\ WaveInv(w) /\ master[w] \in Masters
      /\ "preflight" \in Steps
  BY DEF Inductive, TypeOK, Steps
<1>1. /\ UNCHANGED <<plan, prepared, node, report, status, summary, adoption, disk, rank,
                     faults>>
      /\ Sets(w, master[w], "preflight") /\ At(w, "launching") /\ MayLaunch(w)
      /\ launch' = [launch EXCEPT ![w] = TRUE]
      /\ campaign' = IF w = 0 THEN [campaign EXCEPT !.at = "empty"] ELSE campaign
  BY DEF Launch, Goes, Becomes
<1>2. campaign'.inputs = campaign.inputs /\ campaign'.source = campaign.source
      /\ campaign' \in [at : {"absent", "empty", "sealed"}, inputs : Versions, source : Versions]
      /\ (w = 0 => campaign.at = "absent" /\ campaign'.at = "empty")
      /\ (w # 0 => campaign' = campaign /\ CheckPriorWave(plan[w]))
  BY <1>0, <1>1 DEF TypeOK, MayLaunch
<1>3. /\ master'[w].at = "preflight" /\ master'[w].timed = master[w].timed
      /\ master'[w].stopped = master[w].stopped /\ master'[w].error = master[w].error
      /\ master'[w].mpi = master[w].mpi /\ master' \in [Waves -> Masters]
      /\ master'[w].verdict = master[w].verdict
      /\ \A v \in Waves : v # w => master'[v] = master[v]
  <2>1. PICK m \in Masters : m = master[w] /\ Sets(w, m, "preflight")
    BY <1>0, <1>1
  <2>2. master' \in [Waves -> Masters] /\ \A v \in Waves : v # w => master'[v] = master[v]
    BY <1>0, <2>1, SetsRecord
  <2>3. /\ master'[w].at = "preflight" /\ master'[w].timed = m.timed
        /\ master'[w].stopped = m.stopped /\ master'[w].error = m.error
        /\ master'[w].mpi = m.mpi /\ master'[w].verdict = m.verdict
    BY <1>0, <2>1, SetsFacts
  <2>4. QED
    BY <2>1, <2>2, <2>3
<1>4. TypeOK'
  <2>1. launch' \in [Waves -> BOOLEAN]
    BY <1>0, <1>1 DEF TypeOK
  <2>2. QED
    BY <1>0, <1>1, <1>2, <1>3, <2>1 DEF TypeOK
<1>5. DiskInv'
  BY <1>0, <1>1 DEF DiskInv
<1>6. ~launch[w] /\ ~prepared[w] /\ launch'[w]
      /\ \A v \in Waves : v # w => launch'[v] = launch[v] /\ master'[v] = master[v]
  BY <1>0, <1>1, <1>3 DEF WaveInv, MasterLaunch, At, CampaignInv, TypeOK
<1>7. CampaignInv'
  <2>1. CASE w = 0
    BY <1>0, <1>1, <1>2, <1>3, <1>6, <2>1 DEF CampaignInv, Waves
  <2>2. CASE w = 1
    <3>1. campaign.at = "sealed" /\ campaign' = campaign
      BY <1>2, <2>2 DEF CheckPriorWave
    <3>2. QED
      BY <1>0, <1>1, <1>6, <2>2, <3>1 DEF CampaignInv, Waves
  <2>3. QED
    BY <2>1, <2>2 DEF Waves
<1>8. ASSUME NEW v \in Waves, v # w PROVE WaveInv(v)'
  BY <1>1, <1>2, <1>4, <1>6, <1>8, OtherWave DEF KeepsWave
<1>9. WaveInv(w)'
  <2>1. (\A r \in Ranks : RankInv(w, r)') /\ ReportInv(w)' /\ StatusInv(w)'
    BY <1>1, <1>2, <1>4, BeforeReport DEF At
  <2>2. MasterLaunch(w)' /\ MasterInv(w)'
    <3>1. Undisturbed(master[w]) /\ master[w].mpi = "none" /\ master[w].verdict = "FAILED"
      BY <1>0, <1>1 DEF WaveInv, MasterInv, At
    <3>2. master'[w].mpi = "none" /\ Undisturbed(master'[w]) /\ master'[w].verdict = "FAILED"
      BY <1>3, <3>1 DEF Undisturbed
    <3>3. QED
      BY <1>3, <1>6, <3>2 DEF MasterLaunch, MasterInv
  <2>3. QED
    BY <2>1, <2>2 DEF WaveInv
<1>10. NextWaveJustified'
  <2>1. CASE w = 0
    <3>1. ~launch[1]
      BY <1>0, <1>2, <2>1 DEF CampaignInv
    <3>2. QED
      BY <1>6, <2>1, <3>1 DEF NextWaveJustified, Waves
  <2>2. CASE w = 1
    <3>1. CheckPriorWave(plan[1]) /\ campaign' = campaign /\ master'[0] = master[0]
      BY <1>2, <1>6, <2>2 DEF Waves
    <3>2. QED
      BY <1>1, <3>1, LaunchJustified DEF NextWaveJustified, Done, MeasuredBy
  <2>3. QED
    BY <2>1, <2>2 DEF Waves
<1>11. QED
  BY <1>4, <1>5, <1>7, <1>8, <1>9, <1>10 DEF Inductive

\* A campaign that is not sealed can still be made, by wave 0, or sealed over its
\* plan's inputs: the failing steps of run_master that leave a file behind.
LEMMA CampaignStep ==
    ASSUME Inductive, NEW w \in Waves, NEW s \in {"measure", "except", "summary"},
           NEW m \in Masters,
           master[w].at \in {"launching", "prepare"},
           Becomes(w, m, s), m.verdict = "FAILED",
           UNCHANGED <<plan, launch, node, report, status, summary, adoption>>,
           \/ campaign' = campaign
           \/ w = 0 /\ campaign.at = "absent" /\ campaign' = [campaign EXCEPT !.at = "empty"]
           \/ /\ w = 0 /\ At(w, "prepare")
              /\ campaign' = [at |-> "sealed", inputs |-> plan[w].inputs,
                              source |-> plan[w].source],
           \/ s # "measure" /\ UNCHANGED prepared
           \/ /\ s = "measure" /\ Undisturbed(m) /\ m.mpi = "none" /\ At(w, "prepare")
              /\ campaign'.at = "sealed" /\ campaign'.inputs = plan[w].inputs
              /\ prepared' = [prepared EXCEPT ![w] = TRUE],
           s = "except" => At(w, "prepare") /\ m.error # "none"
    PROVE  Inductive'
<1>0. TypeOK /\ DiskInv /\ CampaignInv /\ WaveInv(w) /\ s \in Steps
  BY DEF Inductive, Steps
<1>1. Sets(w, m, s) /\ UNCHANGED <<disk, rank, faults>>
  BY DEF Becomes
<1>2. /\ master'[w].at = s /\ master'[w].error = m.error
      /\ master'[w].timed = m.timed /\ master'[w].stopped = m.stopped
      /\ master'[w].mpi = m.mpi /\ master'[w].verdict = m.verdict /\ master' \in [Waves -> Masters]
      /\ \A v \in Waves : v # w => master'[v] = master[v]
  BY <1>0, <1>1, SetsFacts, SetsRecord
<1>3. campaign' \in [at : {"absent", "empty", "sealed"}, inputs : Versions, source : Versions]
      /\ (campaign' # campaign => w = 0)
  <2>1. campaign.inputs \in Versions /\ campaign.source \in Versions
        /\ plan[w].inputs \in Versions /\ plan[w].source \in Versions
    BY <1>0 DEF TypeOK
  <2>2. CASE campaign' = [campaign EXCEPT !.at = "empty"]
    BY <1>0, <2>2 DEF TypeOK
  <2>3. CASE campaign' = [at |-> "sealed", inputs |-> plan[w].inputs,
                          source |-> plan[w].source]
    BY <2>1, <2>3
  <2>4. QED
    BY <1>0, <2>2, <2>3 DEF TypeOK
<1>4. TypeOK'
  <2>1. prepared' \in [Waves -> BOOLEAN]
    BY <1>0 DEF TypeOK
  <2>2. QED
    BY <1>0, <1>1, <1>2, <1>3, <2>1 DEF TypeOK
<1>5. DiskInv'
  BY <1>0, <1>1 DEF DiskInv
<1>6. w = 0 => campaign.at # "sealed"
  BY <1>0 DEF CampaignInv
<1>7. \A v \in Waves : prepared[v] => campaign' = campaign
  BY <1>0, <1>3, <1>6 DEF CampaignInv
<1>8. /\ At(w, "prepare") => launch[w]
      /\ \A v \in Waves : prepared[v] => prepared'[v]
      /\ \A v \in Waves : v # w => prepared'[v] = prepared[v]
      /\ prepared'[w] => prepared[w] \/ s = "measure"
  BY <1>0 DEF WaveInv, MasterLaunch, At, TypeOK
<1>9. CampaignInv'
  <2>1. campaign.at = "sealed" => campaign' = campaign
    BY <1>6 DEF At
  <2>2. ASSUME campaign'.at = "sealed" PROVE launch[0] /\
            master'[0].at \notin {"idle", "placing", "launching", "preflight", "prepare"}
    <3>1. CASE w = 0
      BY <1>0, <1>2, <1>6, <1>8, <2>2, <3>1 DEF At, CampaignInv, TypeOK
    <3>2. CASE w # 0
      BY <1>0, <1>2, <1>3, <2>2, <3>2 DEF CampaignInv, Waves
    <3>3. QED
      BY <3>1, <3>2
  <2>3. ASSUME NEW v \in Waves, prepared'[v]
        PROVE  launch[v] /\ campaign'.at = "sealed" /\ campaign'.inputs = plan[v].inputs
    <3>1. CASE prepared[v]
      BY <1>0, <1>7, <3>1 DEF CampaignInv
    <3>2. CASE ~prepared[v]
      BY <1>8, <2>3, <3>2 DEF At
    <3>3. QED
      BY <3>1, <3>2
  <2>4. QED
    BY <1>0, <2>1, <2>2, <2>3 DEF CampaignInv
<1>10. ASSUME NEW v \in Waves, v # w PROVE WaveInv(v)'
  BY <1>1, <1>2, <1>4, <1>7, <1>8, <1>10, OtherWave DEF KeepsWave
<1>11. WaveInv(w)'
  <2>1. (\A r \in Ranks : RankInv(w, r)') /\ ReportInv(w)' /\ StatusInv(w)'
    BY <1>1, <1>4, <1>7, <1>8, BeforeReport
  <2>2. MasterLaunch(w)'
    BY <1>0, <1>2, <1>8 DEF MasterLaunch, TypeOK, At
  <2>3. MasterInv(w)'
    <3>1. report'[w].status = "absent"
      BY NothingWritten
    <3>2. QED
      BY <1>2, <3>1 DEF MasterInv, Undisturbed
  <2>4. QED
    BY <2>1, <2>2, <2>3 DEF WaveInv
<1>12. NextWaveJustified'
  <2>1. status[0] # "absent" => w # 0
    BY NothingWritten
  <2>2. w # 0 => KeepsJustification
    BY <1>1, <1>2, <1>3 DEF KeepsJustification, Waves
  <2>3. QED
    BY <2>1, <2>2, JustifiedFrame
<1>13. QED
  BY <1>4, <1>5, <1>9, <1>10, <1>11, <1>12 DEF Inductive

\* A refused launch leaves at most an empty campaign directory.
LEMMA LaunchFailsStep ==
    ASSUME Inductive, NEW w \in Waves, LaunchFails(w)
    PROVE  Inductive'
<1> DEFINE m == [master[w] EXCEPT !.error = "other"]
<1>0. master[w] \in Masters /\ master[w].verdict = "FAILED"
  BY DEF Inductive, TypeOK, WaveInv, MasterInv, LaunchFails, At
<1>1. m \in Masters /\ m.verdict = "FAILED"
  BY <1>0 DEF Masters
<1>2. Becomes(w, m, "summary")
  BY DEF LaunchFails, Raises
<1> HIDE DEF m
<1>3. QED
  BY <1>1, <1>2, CampaignStep DEF LaunchFails, At

\* A refused preparation may leave the campaign sealed.
LEMMA PrepareFailsStep ==
    ASSUME Inductive, NEW w \in Waves, PrepareFails(w)
    PROVE  Inductive'
<1> DEFINE m == [master[w] EXCEPT !.error = "other"]
<1>0. master[w] \in Masters /\ master[w].verdict = "FAILED"
  BY DEF Inductive, TypeOK, WaveInv, MasterInv, PrepareFails, At
<1>1. m \in Masters /\ m.error # "none" /\ m.verdict = "FAILED"
  BY <1>0 DEF Masters
<1>2. Becomes(w, m, "except")
  BY DEF PrepareFails, Raises
<1> HIDE DEF m
<1>3. QED
  BY <1>1, <1>2, CampaignStep DEF PrepareFails, At

\* The campaign is sealed over the plan's inputs, or was: check_prior_wave.
LEMMA PrepareWaveStep ==
    ASSUME Inductive, NEW w \in Waves, PrepareWave(w)
    PROVE  Inductive'
<1>0. TypeOK /\ CampaignInv /\ WaveInv(w)
  BY DEF Inductive
<1>1. master[w] \in Masters /\ Undisturbed(master[w]) /\ master[w].mpi = "none"
      /\ master[w].verdict = "FAILED"
  BY <1>0 DEF TypeOK, WaveInv, MasterInv, PrepareWave, At
<1>2. w # 0 => campaign.at = "sealed" /\ campaign.inputs = plan[w].inputs
  BY DEF PrepareWave, MayPrepare, CheckPriorWave
<1>3. campaign'.at = "sealed" /\ campaign'.inputs = plan[w].inputs
  BY <1>2 DEF PrepareWave
<1>4. QED
  BY <1>1, <1>3, CampaignStep DEF PrepareWave, At, Goes

\* What a file-writing step of wave w's master after the measurement leaves alone.
LEMMA LateStep ==
    ASSUME Inductive, NEW w \in Waves, NEW m \in Masters,
           NEW s \in {"except", "closing", "summary", "left"},
           master[w].at \in {"save", "closing", "summary"},
           s \in {"except", "closing"} => master[w].at = "save",
           w = 0 => status[0] = "absent" \/
                       /\ m.timed = master[0].timed /\ m.stopped = master[0].stopped
                       /\ m.masked = master[0].masked
                       /\ UNCHANGED <<status, report>>,
           Becomes(w, m, s),
           UNCHANGED <<campaign, plan, launch, prepared, node, adoption>>,
           \A v \in Waves : v # w =>
               report'[v] = report[v] /\ status'[v] = status[v] /\ summary'[v] = summary[v],
           report' \in [Waves -> Reports], status' \in [Waves -> Verdicts],
           summary' \in [Waves -> Verdicts],
           MasterInv(w)', ReportInv(w)', StatusInv(w)'
    PROVE  Inductive'
<1>0. TypeOK /\ DiskInv /\ CampaignInv /\ WaveInv(w) /\ s \in Steps
  BY DEF Inductive, Steps
<1>1. Sets(w, m, s) /\ UNCHANGED <<disk, rank, faults>>
  BY DEF Becomes
<1>2. /\ master'[w].at = s /\ master'[w].timed = m.timed /\ master'[w].stopped = m.stopped
      /\ master'[w].masked = m.masked
  BY <1>0, <1>1, SetsFacts
<1>3. master' \in [Waves -> Masters] /\ \A v \in Waves : v # w => master'[v] = master[v]
  BY <1>0, <1>1, SetsRecord
<1>4. TypeOK'
  BY <1>0, <1>1, <1>3 DEF TypeOK
<1>5. DiskInv' /\ CampaignInv'
  BY <1>0, <1>1, <1>2, <1>3 DEF DiskInv, CampaignInv, Waves
<1>6. ASSUME NEW v \in Waves, v # w PROVE WaveInv(v)'
  BY <1>1, <1>3, <1>4, <1>6, OtherWave DEF KeepsWave
<1>7. WaveInv(w)'
  <2>1. ASSUME NEW r \in Ranks PROVE RankInv(w, r)'
    BY <1>0, <1>1 DEF WaveInv, RankInv, CompleteNode
  <2>2. MasterLaunch(w)'
    BY <1>0, <1>2 DEF WaveInv, MasterLaunch
  <2>3. QED
    BY <2>1, <2>2 DEF WaveInv
<1>8. NextWaveJustified'
  <2>1. status[0] # "absent" => KeepsJustification
    <3>1. CASE w = 0
      BY <1>1, <1>2, <3>1 DEF KeepsJustification
    <3>2. CASE w # 0
      BY <1>1, <1>3, <3>2 DEF KeepsJustification, Waves
    <3>3. QED
      BY <3>1, <3>2
  <2>2. QED
    BY <2>1, JustifiedFrame
<1>9. QED
  BY <1>4, <1>5, <1>6, <1>7, <1>8 DEF Inductive

\* The report says of the nodes what was judged; nothing passed can have changed.
LEMMA SaveReportStep ==
    ASSUME Inductive, NEW w \in Waves, SaveReport(w)
    PROVE  Inductive'
<1> DEFINE o == master[w]
           whole == o.mpi = "0" /\ o.passed = Ranks
           made == [status |-> IF whole THEN "COMPLETE" ELSE "FAILED", mpi |-> o.mpi,
                    passed |-> o.passed, files |-> node[w]]
<1>0. TypeOK /\ WaveInv(w) /\ MasterInv(w) /\ ReportInv(w) /\ StatusInv(w)
      /\ o \in Masters /\ {"except", "closing"} \subseteq Steps
  BY DEF Inductive, WaveInv, TypeOK, Steps
<1>1. /\ o.at = "save" /\ report' = [report EXCEPT ![w] = made]
      /\ UNCHANGED <<campaign, plan, launch, prepared, node, status, summary, adoption>>
  BY DEF SaveReport, At
<1>2. PICK m \in Masters, s \in {"except", "closing"} :
         /\ Becomes(w, m, s) /\ m.timed = o.timed /\ m.stopped = o.stopped
         /\ m.masked = o.masked /\ m.broke = o.broke
         /\ s = IF whole THEN "closing" ELSE "except"
         /\ m.error = IF whole \/ o.error # "none" THEN o.error ELSE "other"
         /\ m.verdict = IF whole THEN "COMPLETE" ELSE o.verdict
  <2>1. CASE whole
    <3> DEFINE m == [o EXCEPT !.mpi = "none", !.passed = {}, !.verdict = "COMPLETE"]
    <3>1. /\ m \in Masters /\ m.timed = o.timed /\ m.stopped = o.stopped
          /\ m.masked = o.masked /\ m.broke = o.broke /\ m.error = o.error
          /\ m.verdict = "COMPLETE"
      BY <1>0 DEF Masters, Verdicts
    <3>2. Becomes(w, m, "closing")
      BY <2>1 DEF SaveReport
    <3> HIDE DEF m
    <3>3. QED
      BY <2>1, <3>1, <3>2
  <2>2. CASE ~whole
    <3> DEFINE m == [o EXCEPT !.mpi = "none", !.passed = {},
                              !.error = IF @ = "none" THEN "other" ELSE @]
    <3>1. /\ m \in Masters /\ m.timed = o.timed /\ m.stopped = o.stopped
          /\ m.masked = o.masked /\ m.broke = o.broke /\ m.verdict = o.verdict
          /\ m.error = IF o.error # "none" THEN o.error ELSE "other"
      BY <1>0 DEF Masters
    <3>2. Becomes(w, m, "except")
      BY <2>2 DEF SaveReport
    <3> HIDE DEF m
    <3>3. QED
      BY <2>2, <3>1, <3>2
  <2>3. QED
    BY <2>1, <2>2
<1>3. made \in Reports /\ report' \in [Waves -> Reports]
      /\ report'[w] = made /\ \A v \in Waves : v # w => report'[v] = report[v]
  BY <1>0, <1>1 DEF TypeOK, Reports, Masters
<1>4. status[w] = "absent" /\ prepared[w] /\ report[w].status = "absent"
  BY <1>0, <1>1 DEF StatusInv, WaveInv, MasterLaunch, ReportInv
<1>5. UNCHANGED <<disk, rank>> /\ Sets(w, m, s)
  BY <1>2 DEF Becomes
<1>6. /\ master'[w].at = s /\ master'[w].error = m.error
      /\ master'[w].timed = m.timed /\ master'[w].stopped = m.stopped
      /\ master'[w].masked = m.masked /\ master'[w].broke = m.broke
      /\ master'[w].verdict = m.verdict
  BY <1>0, <1>2, <1>5, SetsFacts
<1>7. MasterInv(w)'
  <2>1. CASE whole
    <3>1. o.stopped = "no" /\ report'[w].status = "COMPLETE"
      BY <1>0, <1>1, <1>3, <2>1 DEF MasterInv, Undisturbed
    <3>2. QED
      BY <1>2, <1>6, <2>1, <3>1 DEF MasterInv, Founded
  <2>2. CASE ~whole
    <3>1. m.error # "none" /\ m.verdict = "FAILED" /\ (m.stopped # "no" => m.error = "stop")
      BY <1>0, <1>1, <1>2, <2>2 DEF MasterInv
    <3>2. QED
      BY <1>2, <1>6, <2>2, <3>1 DEF MasterInv
  <2>3. QED
    BY <2>1, <2>2
<1>8. ReportInv(w)'
  <2>1. o.mpi = "none" => Excused(w)'
    BY <1>0, <1>1, <1>2, <1>5, <1>6 DEF MasterInv, Excused, CleanSource
  <2>2. o.mpi = "0" => Done(w)' /\ ~o.timed /\ o.stopped = "no"
    BY <1>0, <1>1, <1>5 DEF MasterInv, Done, Undisturbed
  <2>3. \A r \in o.passed : MeasuredBy(w, r, node[w])'
    BY <1>0, <1>1, <1>5 DEF MasterInv, MeasuredBy
  <2>4. \A r \in made.passed : MeasuredBy(w, r, report[w].files)'
    BY <1>1, <1>3, <2>3 DEF MeasuredBy
  <2>5. QED
    BY <1>0, <1>1, <1>2, <1>3, <1>4, <1>6, <2>1, <2>2, <2>4 DEF ReportInv, Masters
<1>9. StatusInv(w)'
  BY <1>0, <1>1, <1>4 DEF StatusInv, Founded
<1>10. QED
  BY <1>0, <1>1, <1>2, <1>3, <1>4, <1>7, <1>8, <1>9, LateStep DEF TypeOK

\* The status is the verdict the except clause or the report left.
LEMMA SaveStatusStep ==
    ASSUME Inductive, NEW w \in Waves, SaveStatus(w)
    PROVE  Inductive'
<1> DEFINE o == master[w]
           m == [o EXCEPT !.verdict = IF o.error = "none" THEN @ ELSE "FAILED"]
<1>0. TypeOK /\ WaveInv(w) /\ MasterInv(w) /\ ReportInv(w) /\ StatusInv(w)
      /\ MasterLaunch(w) /\ o \in Masters /\ "summary" \in Steps
  BY DEF Inductive, WaveInv, TypeOK, Steps
<1>1. /\ o.at = "closing" /\ Becomes(w, m, "summary")
      /\ status' = [status EXCEPT ![w] = o.verdict]
      /\ UNCHANGED <<campaign, plan, launch, prepared, node, report, summary, adoption>>
  BY DEF SaveStatus, At
<1>2. /\ m \in Masters /\ m.timed = o.timed /\ m.stopped = o.stopped
      /\ m.masked = o.masked /\ m.broke = o.broke
      /\ m.verdict \in {o.verdict, "FAILED"}
  BY <1>0 DEF Masters, Verdicts
<1>3. /\ status' \in [Waves -> Verdicts] /\ status'[w] = o.verdict
      /\ \A v \in Waves : v # w => status'[v] = status[v]
  BY <1>0, <1>1 DEF TypeOK, Masters
<1>4. status[w] = "absent"
  BY <1>0, <1>1 DEF StatusInv
<1>5. UNCHANGED <<disk, rank>> /\ Sets(w, m, "summary")
  BY <1>1 DEF Becomes
<1> HIDE DEF m
<1>6. /\ master'[w].at = "summary" /\ master'[w].verdict = m.verdict
      /\ master'[w].timed = o.timed /\ master'[w].stopped = o.stopped
      /\ master'[w].masked = o.masked /\ master'[w].broke = o.broke
  <2>1. TypeOK /\ "summary" \in Steps /\ Sets(w, m, "summary")
    BY <1>0, <1>5
  <2>2. QED
    BY <1>2, <2>1, SetsFacts
<1>7. MasterInv(w)'
  BY <1>2, <1>3, <1>6 DEF MasterInv
<1>8. ReportInv(w)'
  <2>1. Excused(w) => Excused(w)'
    BY <1>1, <1>5, <1>6 DEF Excused, CleanSource
  <2>2. QED
    BY <1>0, <1>1, <1>5, <1>6, <2>1 DEF ReportInv, Done, MeasuredBy
<1>9. StatusInv(w)'
  <2>1. Founded(w, o.verdict)
    BY <1>0, <1>1 DEF MasterInv
  <2>2. Founded(w, status[w])'
    BY <1>1, <1>3, <1>6, <2>1 DEF Founded
  <2>3. QED
    BY <1>0, <1>1, <1>3, <1>4, <1>6, <2>2 DEF StatusInv, MasterLaunch
<1>10. QED
  BY <1>0, <1>1, <1>2, <1>3, <1>4, <1>7, <1>8, <1>9, LateStep DEF TypeOK

\* The summary is COMPLETE only over a COMPLETE status.
LEMMA SaveSummaryStep ==
    ASSUME Inductive, NEW w \in Waves, SaveSummary(w)
    PROVE  Inductive'
<1>0. TypeOK /\ WaveInv(w) /\ MasterInv(w) /\ ReportInv(w) /\ StatusInv(w)
      /\ master[w] \in Masters /\ "left" \in Steps
  BY DEF Inductive, WaveInv, TypeOK, Steps
<1>1. /\ master[w].at = "summary" /\ Becomes(w, Gone(master[w]), "left")
      /\ UNCHANGED <<campaign, plan, launch, prepared, node, report, status, adoption>>
  BY DEF SaveSummary, At
<1>2. PICK verdict \in Verdicts :
         /\ summary' = [summary EXCEPT ![w] = verdict]
         /\ verdict = "COMPLETE" => status[w] = "COMPLETE"
  <2>1. CASE master[w].error = "stop"
    <3>1. summary' = [summary EXCEPT ![w] = "UNKNOWN"]
      BY <2>1 DEF SaveSummary
    <3>2. QED
      BY <3>1 DEF Verdicts
  <2>2. CASE master[w].error # "stop"
    <3>1. summary' = [summary EXCEPT ![w] = master[w].verdict]
      BY <2>2 DEF SaveSummary
    <3>2. QED
      BY <1>0, <1>1, <3>1 DEF MasterInv, Masters
  <2>3. QED
    BY <2>1, <2>2
<1>3. /\ summary' \in [Waves -> Verdicts] /\ summary'[w] = verdict
      /\ \A v \in Waves : v # w => summary'[v] = summary[v]
  BY <1>0, <1>2 DEF TypeOK
<1>4. PICK m \in Masters :
         /\ m = Gone(master[w]) /\ m.timed = master[w].timed
         /\ m.stopped = master[w].stopped
         /\ m.masked = master[w].masked /\ m.broke = master[w].broke
  BY <1>0, GoneFacts
<1>5. UNCHANGED <<disk, rank>> /\ Sets(w, m, "left") /\ Becomes(w, m, "left")
  BY <1>1, <1>4 DEF Becomes
<1>6. /\ master'[w].at = "left"
      /\ master'[w].timed = master[w].timed /\ master'[w].stopped = master[w].stopped
      /\ master'[w].masked = master[w].masked /\ master'[w].broke = master[w].broke
  BY <1>0, <1>4, <1>5, SetsFacts
<1>7. MasterInv(w)'
  BY <1>6 DEF MasterInv
<1>8. ReportInv(w)'
  <2>1. Excused(w) => Excused(w)'
    BY <1>1, <1>5, <1>6 DEF Excused, CleanSource
  <2>2. QED
    BY <1>0, <1>1, <1>5, <1>6, <2>1 DEF ReportInv, Done, MeasuredBy
<1>9. StatusInv(w)'
  BY <1>0, <1>1, <1>2, <1>3, <1>6 DEF StatusInv, Founded
<1>10. QED
  BY <1>0, <1>1, <1>3, <1>4, <1>5, <1>7, <1>8, <1>9, LateStep DEF TypeOK

-----------------------------------------------------------------------------
(* The theorems.                                                           *)

\* Every step of the specification keeps Inductive.
LEMMA StepInductive == Inductive /\ [Next]_vars => Inductive'
<1> SUFFICES ASSUME Inductive, [Next]_vars PROVE Inductive'
  OBVIOUS
<1>1. ASSUME NEW w \in Waves, MasterStep(w) PROVE Inductive'
  BY <1>1, BeginWaveStep, PlaceStep, LaunchStep, LaunchFailsStep, PreflightStep,
     PrepareWaveStep, PrepareFailsStep, MpiReturnsStep, MpiStoppedStep, RecheckStep,
     JudgeStep, SaveReportStep, SaveReportFailsStep, HandleStep, SaveStatusStep,
     SaveStatusFailsStep, SaveSummaryStep
     DEF MasterStep
<1>2. ASSUME NEW w \in Waves, NEW r \in Ranks, RankStep(w, r) PROVE Inductive'
  BY <1>2, BenchStep, FinishRankStep, OtherRankStep DEF RankStep
<1>3. CASE UNCHANGED vars
  <2>1. TypeOK' /\ DiskInv' /\ CampaignInv' /\ NextWaveJustified'
    BY <1>3, JustifiedFrame DEF Inductive, vars, files, TypeOK, DiskInv, CampaignInv,
                                KeepsJustification
  <2>2. ASSUME NEW v \in Waves PROVE WaveInv(v)'
    BY <1>3, <2>1, WaveFrame, ProductionAssumption
       DEF Inductive, vars, files, KeepsWave, TypeOK, Versions
  <2>3. QED
    BY <2>1, <2>2 DEF Inductive
<1>4. QED
  BY <1>1, <1>2, <1>3, StopStep, DieStep, AdoptionStep, ReplaceStep, LoseEvidenceStep
     DEF Next

\* What Inductive promises of the files a campaign leaves behind.
LEMMA InductivePromises ==
    ASSUME Inductive
    PROVE  /\ TypeOK /\ CompleteIsMeasured /\ NextWaveJustified
           /\ CollectedIsJudged /\ StopIsUnknown /\ FailureStaysLocal
<1>0. \A w \in Waves : ReportInv(w) /\ StatusInv(w)
  BY DEF Inductive, WaveInv
<1>1. CompleteIsMeasured
  BY <1>0 DEF CompleteIsMeasured, ReportInv, StatusInv, Founded
<1>2. CollectedIsJudged
  BY <1>0 DEF CollectedIsJudged, ReportInv
<1>3. StopIsUnknown
  BY <1>0 DEF StopIsUnknown, StatusInv, Founded
<1>4. FailureStaysLocal
  BY <1>0 DEF FailureStaysLocal, ReportInv, Excused
<1>5. QED
  BY <1>1, <1>2, <1>3, <1>4 DEF Inductive

\* The inductive invariant holds in every state of a campaign.
THEOREM Invariance == Spec => []Inductive
BY InitInductive, StepInductive, PTL DEF Spec

\* Every file and process keeps its type (TypeOK): a rank never records more calls
\* than its schedule has.
THEOREM TypeCorrect == Spec => []TypeOK
BY Invariance, InductivePromises, PTL

\* A COMPLETE wave was measured to its end with the frozen inputs
\* (CompleteIsMeasured).
THEOREM CompletionMeasured == Spec => []CompleteIsMeasured
BY Invariance, InductivePromises, PTL

\* Wave 1 follows only on a wave 0 that ended by itself with at most one recorded
\* failure (NextWaveJustified).
THEOREM SecondWaveJustified == Spec => []NextWaveJustified
BY Invariance, InductivePromises, PTL

\* The evidence that was hashed is the evidence that was judged (CollectedIsJudged).
THEOREM CollectionJudged == Spec => []CollectedIsJudged
BY Invariance, InductivePromises, PTL

\* No interrupted measurement is left as FAILED (StopIsUnknown).
THEOREM StopLeavesUnknown == Spec => []StopIsUnknown
BY Invariance, InductivePromises, PTL

\* A recorded failure of one node does not end the others (FailureStaysLocal).
THEOREM FailureIsLocal == Spec => []FailureStaysLocal
BY Invariance, InductivePromises, PTL
=================================================================================
