------------------------- MODULE PegasusCampaignProofs --------------------------
(***************************************************************************)
(* The safety of PegasusCampaign for any number of jobs, waves, versions,  *)
(* hosts and edits; the balance of two consecutive waves (NodeOrdering),   *)
(* whichever they are.                                                     *)
(***************************************************************************)
EXTENDS PegasusCampaign, FiniteSetTheorems, TLAPS

\* A job that is inside a campaign, its own or one it has validated.
Running == {"enter", "makeWave"} \cup InWave
Inside == Filling \cup Running

\* What a job whose sources were not edited has read is what they hold; after
\* the reads, what it keeps has the hash it keeps.
Reads(j) ==
    job[j].steady =>
       /\ job[j].step \in {"configAgain", "manifest", "manifestHash", "manifestAgain",
                           "configHash"} => job[j].config = source["config"]
       /\ job[j].step \in {"manifestHash", "manifestAgain", "configHash"} =>
             job[j].manifest = source["manifest"]
       /\ job[j].step \in {"manifestAgain", "configHash"} =>
             job[j].manifestHash = source["manifest"]
       /\ job[j].step \in {"look", "validate", "create"} \cup Inside =>
             job[j].config = job[j].configHash /\ job[j].manifest = job[j].manifestHash

\* The stored copies have the recorded hashes.
Faithful == runRoot.config = runRoot.says.config /\ runRoot.manifest = runRoot.says.manifest

RunRootInv ==
    /\ runRoot.waves => runRoot.files = 4
    /\ ~Made => runRoot.files = 0 /\ ~runRoot.waves
    /\ Made =>
          /\ job[runRoot.owner].step \in Inside \cup {"refused"}
          /\ runRoot.runtime = runRoot.says.runtime
          /\ job[runRoot.owner].steady => Faithful

JobInv(j) ==
    /\ job[j].step = "validate" => Made
    /\ job[j].step \in Filling => runRoot.owner = j
    /\ job[j].step = "fill" => runRoot.files < 4
    /\ job[j].step \in Inside => Made /\ Identity(j) = runRoot.says
    /\ job[j].step \in {"makeWaves"} \cup Running => runRoot.files = 4
    /\ job[j].step \in Running /\ j # runRoot.owner => Faithful
    /\ job[j].step \in InWave => Own(j).owner = j
    /\ job[j].step \in {"describe", "prepared"} => Own(j).nodes
    /\ job[j].step = "prepared" => Own(j).metadata

WaveInv(w) ==
    /\ wave[w].owner # Nobody =>
          /\ Made /\ wave[w].says = runRoot.says
          /\ wave[w].owner # runRoot.owner => Faithful
    /\ wave[w].measured =>
          /\ wave[w].owner # Nobody /\ runRoot.files = 4
          /\ wave[w].nodes /\ wave[w].metadata
          /\ wave[w].owner # runRoot.owner \/ job[runRoot.owner].steady
                => wave[w].rows = wave[w].says

IndInv ==
    /\ TypeOK
    /\ \A j \in Jobs : Reads(j) /\ JobInv(j)
    /\ RunRootInv
    /\ \A w \in Waves : WaveInv(w)

-----------------------------------------------------------------------------
(* Lemmas about one step of a job.                                         *)

USE DEF Sources, Filling, InWave, Running, Inside, Reading

LEMMA BecomesJob ==
    ASSUME NEW j \in Jobs, NEW n \in JobStates, NEW s \in Steps, TypeOK, Becomes(j, n, s)
    PROVE  /\ job' \in [Jobs -> JobStates]
           /\ job'[j] = [n EXCEPT !.step = s]
           /\ \A k \in Jobs \ {j} : job'[k] = job[k]
           /\ source' = source /\ edits' = edits
<1>1. job \in [Jobs -> JobStates]  BY DEF TypeOK
<1>2. [n EXCEPT !.step = s] \in JobStates  BY DEF JobStates
<1>3. job' = [job EXCEPT ![j] = [n EXCEPT !.step = s]]  BY DEF Becomes
<1>. QED  BY <1>1, <1>2, <1>3 DEF Becomes

LEMMA OutsideStep ==
    ASSUME NEW j \in Jobs, NEW n \in JobStates, NEW s \in Steps, IndInv,
           Becomes(j, n, s), NoDirectory,
           job[j].step \notin Inside \cup {"refused"}, s \notin Inside,
           s = "validate" => Made
    PROVE  /\ TypeOK'
           /\ RunRootInv'
           /\ \A k \in Jobs : JobInv(k)'
           /\ \A w \in Waves : WaveInv(w)'
           /\ \A k \in Jobs \ {j} : Reads(k)'
<1>1. /\ job' \in [Jobs -> JobStates]
      /\ job'[j] = [n EXCEPT !.step = s]
      /\ \A k \in Jobs \ {j} : job'[k] = job[k]
      /\ source' = source /\ edits' = edits
  BY BecomesJob DEF IndInv
<1>2. runRoot' = runRoot /\ wave' = wave  BY DEF NoDirectory
<1>3. job'[j].step = s  BY <1>1 DEF JobStates
<1>4. TypeOK'  BY <1>1, <1>2 DEF TypeOK, IndInv, Waves
<1>5. runRoot.owner # j /\ runRoot.owner \in Jobs \cup {Nobody}
  BY CampaignAssumption DEF IndInv, RunRootInv, Made, TypeOK, RunRoots
<1>6. RunRootInv'  BY <1>1, <1>2, <1>5, CampaignAssumption DEF IndInv, RunRootInv, Made, Faithful
<1>7. ASSUME NEW k \in Jobs  PROVE JobInv(k)'
  <2>1. CASE k = j
    BY <2>1, <1>2, <1>3 DEF IndInv, JobInv, Made
  <2>2. CASE k # j
    BY <2>2, <1>1, <1>2 DEF IndInv, JobInv, Made, Identity, Own, Faithful
  <2>. QED  BY <2>1, <2>2
<1>8. ASSUME NEW w \in Waves  PROVE WaveInv(w)'
  <2>1. WaveInv(w) /\ RunRootInv  BY DEF IndInv
  <2>2. runRoot.owner \in Jobs => job'[runRoot.owner] = job[runRoot.owner]
    BY <1>1, <1>5
  <2>3. wave[w].owner # Nobody => runRoot.owner \in Jobs  BY <2>1, <1>5 DEF WaveInv, Made
  <2>. QED  BY <1>2, <2>1, <2>2, <2>3 DEF WaveInv, Made, Faithful
<1>9. ASSUME NEW k \in Jobs \ {j}  PROVE Reads(k)'
  BY <1>1 DEF IndInv, Reads
<1>. QED  BY <1>4, <1>6, <1>7, <1>8, <1>9

LEMMA BecomesFields ==
    ASSUME NEW j \in Jobs, NEW n \in JobStates, NEW s \in Steps, TypeOK, Becomes(j, n, s)
    PROVE  /\ job'[j].step = s /\ source' = source
           /\ job'[j].config = n.config /\ job'[j].configHash = n.configHash
           /\ job'[j].manifest = n.manifest /\ job'[j].manifestHash = n.manifestHash
           /\ job'[j].runtime = n.runtime /\ (job'[j].steady => n.steady)
<1>1. job'[j] = [n EXCEPT !.step = s] /\ source' = source  BY BecomesJob
<1>2. [n EXCEPT !.step = s].steady = n.steady  BY Zenon DEF JobStates
<1>3. /\ [n EXCEPT !.step = s].step = s
      /\ [n EXCEPT !.step = s].config = n.config
      /\ [n EXCEPT !.step = s].configHash = n.configHash
      /\ [n EXCEPT !.step = s].manifest = n.manifest
      /\ [n EXCEPT !.step = s].manifestHash = n.manifestHash
      /\ [n EXCEPT !.step = s].runtime = n.runtime
  BY DEF JobStates
<1>. QED  BY <1>1, <1>2, <1>3, Zenon

LEMMA JobTyped ==
    ASSUME TypeOK, NEW j \in Jobs  PROVE job[j] \in JobStates
BY DEF TypeOK

\* A step outside the campaign keeps the invariant if it keeps what the job's
\* reads are worth.
LEMMA OutsideKeeps ==
    ASSUME NEW j \in Jobs, NEW n \in JobStates, NEW s \in Steps, IndInv,
           Becomes(j, n, s), NoDirectory,
           job[j].step \notin Inside \cup {"refused"}, s \notin Inside,
           s = "validate" => Made, Reads(j)'
    PROVE  IndInv'
<1>1. /\ TypeOK' /\ RunRootInv'
      /\ \A k \in Jobs : JobInv(k)'
      /\ \A w \in Waves : WaveInv(w)'
      /\ \A k \in Jobs \ {j} : Reads(k)'
  BY OutsideStep
<1>2. \A k \in Jobs : Reads(k)'  BY <1>1
<1>. QED  BY <1>1, <1>2 DEF IndInv, Waves

LEMMA ReadingKeeps ==
    ASSUME IndInv, NEW j \in Jobs,
           \/ CollectRuntime(j) \/ LoadConfig(j) \/ CheckConfig(j) \/ LoadManifest(j)
           \/ HashManifest(j) \/ CheckManifest(j) \/ HashConfig(j) \/ Look(j)
    PROVE  IndInv'
<1>1. TypeOK /\ job[j] \in JobStates /\ Reads(j)  BY JobTyped DEF IndInv
<1>2. source["config"] \in Versions /\ source["manifest"] \in Versions  BY <1>1 DEF TypeOK
<1>4. CASE CollectRuntime(j)
  <2>1. PICK h \in Hosts : Becomes(j, [job[j] EXCEPT
             !.runtime = [host |-> h, manifest |-> source["manifest"]]], "config")
    BY <1>4 DEF CollectRuntime
  <2>. DEFINE n == [job[j] EXCEPT !.runtime = [host |-> h, manifest |-> source["manifest"]]]
  <2>2. n \in JobStates /\ "config" \in Steps  BY <1>1, <1>2 DEF JobStates, Runtimes, Steps
  <2>3. Becomes(j, n, "config")  BY <2>1
  <2>4. /\ job'[j].step = "config" /\ source' = source
        /\ job'[j].config = n.config /\ job'[j].configHash = n.configHash
        /\ job'[j].manifest = n.manifest /\ job'[j].manifestHash = n.manifestHash
        /\ job'[j].steady => n.steady
    <3>. HIDE DEF n
    <3>. QED  BY <1>1, <2>2, <2>3, BecomesFields
  <2>5. Reads(j)'  BY <1>1, <1>4, <2>4 DEF CollectRuntime, At, Reads, JobStates
  <2>. QED  BY <1>4, <2>1, <2>2, <2>5, OutsideKeeps DEF CollectRuntime, At
<1>5. CASE LoadConfig(j)
  <2>. DEFINE n == [job[j] EXCEPT !.config = source["config"]]
  <2>1. n \in JobStates /\ "configAgain" \in Steps  BY <1>1, <1>2 DEF JobStates, Steps
  <2>2. Becomes(j, n, "configAgain")  BY <1>5 DEF LoadConfig
  <2>3. /\ job'[j].step = "configAgain" /\ source' = source
        /\ job'[j].config = n.config /\ job'[j].configHash = n.configHash
        /\ job'[j].manifest = n.manifest /\ job'[j].manifestHash = n.manifestHash
        /\ job'[j].steady => n.steady
    <3>. HIDE DEF n
    <3>. QED  BY <1>1, <2>1, <2>2, BecomesFields
  <2>4. Reads(j)'  BY <1>1, <1>5, <2>3 DEF LoadConfig, At, Reads, JobStates
  <2>. QED  BY <1>5, <2>1, <2>2, <2>4, OutsideKeeps DEF LoadConfig, At
<1>6. CASE CheckConfig(j)
  <2>. DEFINE s == IF job[j].config = source["config"] THEN "manifest" ELSE "refused"
  <2>1. s \in Steps /\ s \notin Inside /\ s # "validate"  BY DEF Steps, Ended
  <2>2. Becomes(j, job[j], s)  BY <1>6 DEF CheckConfig, Checks
  <2>3. /\ job'[j].step = s /\ source' = source
        /\ job'[j].config = job[j].config /\ job'[j].configHash = job[j].configHash
        /\ job'[j].manifest = job[j].manifest /\ job'[j].manifestHash = job[j].manifestHash
        /\ job'[j].steady => job[j].steady
    BY <1>1, <2>1, <2>2, BecomesFields
  <2>4. Reads(j)'  BY <1>1, <1>6, <2>3 DEF CheckConfig, At, Reads
  <2>. QED  BY <1>1, <1>6, <2>1, <2>2, <2>4, OutsideKeeps DEF CheckConfig, At
<1>7. CASE LoadManifest(j)
  <2>. DEFINE n == [job[j] EXCEPT !.manifest = source["manifest"]]
  <2>1. n \in JobStates /\ "manifestHash" \in Steps  BY <1>1, <1>2 DEF JobStates, Steps
  <2>2. Becomes(j, n, "manifestHash")  BY <1>7 DEF LoadManifest
  <2>3. /\ job'[j].step = "manifestHash" /\ source' = source
        /\ job'[j].config = n.config /\ job'[j].configHash = n.configHash
        /\ job'[j].manifest = n.manifest /\ job'[j].manifestHash = n.manifestHash
        /\ job'[j].steady => n.steady
    <3>. HIDE DEF n
    <3>. QED  BY <1>1, <2>1, <2>2, BecomesFields
  <2>4. Reads(j)'  BY <1>1, <1>7, <2>3 DEF LoadManifest, At, Reads, JobStates
  <2>. QED  BY <1>7, <2>1, <2>2, <2>4, OutsideKeeps DEF LoadManifest, At
<1>8. CASE HashManifest(j)
  <2>. DEFINE n == [job[j] EXCEPT !.manifestHash = source["manifest"]]
  <2>1. n \in JobStates /\ "manifestAgain" \in Steps  BY <1>1, <1>2 DEF JobStates, Steps
  <2>2. Becomes(j, n, "manifestAgain")  BY <1>8 DEF HashManifest
  <2>3. /\ job'[j].step = "manifestAgain" /\ source' = source
        /\ job'[j].config = n.config /\ job'[j].configHash = n.configHash
        /\ job'[j].manifest = n.manifest /\ job'[j].manifestHash = n.manifestHash
        /\ job'[j].steady => n.steady
    <3>. HIDE DEF n
    <3>. QED  BY <1>1, <2>1, <2>2, BecomesFields
  <2>4. Reads(j)'  BY <1>1, <1>8, <2>3 DEF HashManifest, At, Reads, JobStates
  <2>. QED  BY <1>8, <2>1, <2>2, <2>4, OutsideKeeps DEF HashManifest, At
<1>9. CASE CheckManifest(j)
  <2>. DEFINE ok == /\ job[j].manifest = source["manifest"]
                    /\ job[j].runtime.manifest = job[j].manifestHash
              s == IF ok THEN "configHash" ELSE "refused"
  <2>1. s \in Steps /\ s \notin Inside /\ s # "validate"  BY DEF Steps, Ended
  <2>2. Becomes(j, job[j], s)  BY <1>9 DEF CheckManifest, Checks
  <2>3. /\ job'[j].step = s /\ source' = source
        /\ job'[j].config = job[j].config /\ job'[j].configHash = job[j].configHash
        /\ job'[j].manifest = job[j].manifest /\ job'[j].manifestHash = job[j].manifestHash
        /\ job'[j].steady => job[j].steady
    BY <1>1, <2>1, <2>2, BecomesFields
  <2>4. Reads(j)'  BY <1>1, <1>9, <2>3 DEF CheckManifest, At, Reads
  <2>. QED  BY <1>1, <1>9, <2>1, <2>2, <2>4, OutsideKeeps DEF CheckManifest, At
<1>10. CASE HashConfig(j)
  <2>. DEFINE n == [job[j] EXCEPT !.configHash = source["config"]]
  <2>1. n \in JobStates /\ "look" \in Steps  BY <1>1, <1>2 DEF JobStates, Steps
  <2>2. Becomes(j, n, "look")  BY <1>10 DEF HashConfig
  <2>3. /\ job'[j].step = "look" /\ source' = source
        /\ job'[j].config = n.config /\ job'[j].configHash = n.configHash
        /\ job'[j].manifest = n.manifest /\ job'[j].manifestHash = n.manifestHash
        /\ job'[j].steady => n.steady
    <3>. HIDE DEF n
    <3>. QED  BY <1>1, <2>1, <2>2, BecomesFields
  <2>4. Reads(j)'  BY <1>1, <1>10, <2>3 DEF HashConfig, At, Reads, JobStates
  <2>. QED  BY <1>10, <2>1, <2>2, <2>4, OutsideKeeps DEF HashConfig, At
<1>11. CASE Look(j)
  <2>. DEFINE s == IF Made THEN "validate" ELSE "create"
  <2>1. s \in Steps /\ s \notin Inside /\ (s = "validate" => Made)  BY DEF Steps
  <2>2. Becomes(j, job[j], s)  BY <1>11 DEF Look
  <2>3. /\ job'[j].step = s /\ source' = source
        /\ job'[j].config = job[j].config /\ job'[j].configHash = job[j].configHash
        /\ job'[j].manifest = job[j].manifest /\ job'[j].manifestHash = job[j].manifestHash
        /\ job'[j].steady => job[j].steady
    BY <1>1, <2>1, <2>2, BecomesFields
  <2>4. Reads(j)'  BY <1>1, <1>11, <2>3 DEF Look, At, Reads
  <2>. QED  BY <1>1, <1>11, <2>1, <2>2, <2>4, OutsideKeeps DEF Look, At
<1>. QED  BY <1>4, <1>5, <1>6, <1>7, <1>8, <1>9, <1>10, <1>11

-----------------------------------------------------------------------------
(* The steps on the run directory and the waves change nothing of the job  *)
(* but where it is.                                                        *)

LEMMA StepOnly ==
    ASSUME NEW j \in Jobs, NEW s \in Steps, IndInv, Becomes(j, job[j], s), s \notin Reading,
           job[j].step \in {"look", "validate", "create"} \cup Inside
    PROVE  /\ job' \in [Jobs -> JobStates] /\ source' = source /\ edits' = edits
           /\ job'[j].step = s /\ \A k \in Jobs \ {j} : job'[k] = job[k]
           /\ \A k \in Jobs : /\ job'[k].config = job[k].config
                              /\ job'[k].manifest = job[k].manifest
                              /\ job'[k].configHash = job[k].configHash
                              /\ job'[k].manifestHash = job[k].manifestHash
                              /\ job'[k].runtime = job[k].runtime
                              /\ Identity(k)' = Identity(k)
                              /\ job'[k].steady => job[k].steady
                              /\ Reads(k)'
<1>1. TypeOK /\ job[j] \in JobStates /\ \A k \in Jobs : Reads(k)  BY JobTyped DEF IndInv
<1>2. /\ job' \in [Jobs -> JobStates] /\ source' = source /\ edits' = edits
      /\ \A k \in Jobs \ {j} : job'[k] = job[k]
  BY <1>1, BecomesJob
<1>3. /\ job'[j].step = s
      /\ job'[j].config = job[j].config /\ job'[j].configHash = job[j].configHash
      /\ job'[j].manifest = job[j].manifest /\ job'[j].manifestHash = job[j].manifestHash
      /\ job'[j].runtime = job[j].runtime /\ (job'[j].steady => job[j].steady)
  BY <1>1, BecomesFields
<1>4. Identity(j)' = Identity(j)  BY <1>3 DEF Identity
<1>5. Reads(j)'  BY <1>1, <1>2, <1>3 DEF Reads
<1>6. ASSUME NEW k \in Jobs \ {j}  PROVE Identity(k)' = Identity(k) /\ Reads(k)'
  BY <1>1, <1>2 DEF Identity, Reads
<1>. QED  BY <1>2, <1>3, <1>4, <1>5, <1>6

LEMMA ValidateKeeps ==
    ASSUME IndInv, NEW j \in Jobs, Validate(j)
    PROVE  IndInv'
<1>1. /\ At(j, "validate") /\ runRoot' = runRoot /\ wave' = wave /\ Made
      /\ TypeOK /\ job[j] \in JobStates
  BY JobTyped DEF Validate, NoDirectory, IndInv, JobInv, At
<1>2. CASE ~Matches(j)
  <2>1. Becomes(j, job[j], "refused") /\ "refused" \in Steps  BY <1>2 DEF Validate, Checks, Steps, Ended
  <2>2. Reads(j)'  BY <1>1, <2>1, StepOnly DEF At
  <2>. QED  BY <1>1, <2>1, <2>2, OutsideKeeps DEF At, NoDirectory
<1>3. CASE Matches(j)
  <2>1. Becomes(j, job[j], "enter") /\ "enter" \in Steps  BY <1>3 DEF Validate, Checks, Steps
  <2>2. /\ job' \in [Jobs -> JobStates] /\ source' = source /\ edits' = edits
        /\ job'[j].step = "enter" /\ \A k \in Jobs \ {j} : job'[k] = job[k]
        /\ \A k \in Jobs : Identity(k)' = Identity(k) /\ Reads(k)'
                            /\ (job'[k].steady => job[k].steady)
    BY <1>1, <2>1, StepOnly DEF At
  <2>3. TypeOK'  BY <1>1, <2>2 DEF TypeOK, Waves
  <2>4. Identity(j) = runRoot.says /\ Faithful /\ runRoot.files = 4
    BY <1>3 DEF Matches, Identity, Faithful
  <2>5. runRoot.owner \in Jobs  BY <1>1 DEF TypeOK, RunRoots, Made
  <2>6. RunRootInv'
    BY <1>1, <2>2, <2>4, <2>5 DEF IndInv, RunRootInv, Made, Faithful, At
  <2>7. ASSUME NEW k \in Jobs  PROVE JobInv(k)'
    <3>1. CASE k = j  BY <3>1, <1>1, <2>2, <2>4 DEF JobInv, Made, Faithful
    <3>2. CASE k # j
      BY <3>2, <1>1, <2>2 DEF IndInv, JobInv, Made, Faithful, Own
    <3>. QED  BY <3>1, <3>2
  <2>8. ASSUME NEW w \in Waves  PROVE WaveInv(w)'
    BY <1>1, <2>2, <2>5 DEF IndInv, WaveInv, Made, Faithful
  <2>. QED  BY <2>2, <2>3, <2>6, <2>7, <2>8 DEF IndInv, Waves
<1>. QED  BY <1>2, <1>3

LEMMA MakeRunRootKeeps ==
    ASSUME IndInv, NEW j \in Jobs, MakeRunRoot(j)
    PROVE  IndInv'
<1>1. At(j, "create") /\ wave' = wave /\ TypeOK /\ job[j] \in JobStates /\ Reads(j)
  BY JobTyped DEF MakeRunRoot, IndInv
<1>2. CASE Made
  <2>1. Becomes(j, job[j], "refused") /\ "refused" \in Steps /\ NoDirectory
    BY <1>1, <1>2 DEF MakeRunRoot, Checks, Steps, Ended, NoDirectory
  <2>2. Reads(j)'  BY <1>1, <2>1, StepOnly DEF At
  <2>. QED  BY <1>1, <2>1, <2>2, OutsideKeeps DEF At
<1>3. CASE ~Made
  <2>1. Becomes(j, job[j], "fill") /\ "fill" \in Steps  BY <1>3 DEF MakeRunRoot, Checks, Steps
  <2>2. /\ job' \in [Jobs -> JobStates] /\ source' = source /\ edits' = edits
        /\ job'[j].step = "fill" /\ \A k \in Jobs \ {j} : job'[k] = job[k]
        /\ \A k \in Jobs : Identity(k)' = Identity(k) /\ Reads(k)'
                            /\ (job'[k].steady => job[k].steady)
    BY <1>1, <2>1, StepOnly DEF At
  <2>3. runRoot' = [runRoot EXCEPT
            !.owner = j, !.config = job[j].config, !.manifest = job[j].manifest,
            !.runtime = job[j].runtime, !.says = Identity(j)]
    BY <1>3 DEF MakeRunRoot
  <2>4. Identity(j) \in Identities  BY <1>1 DEF Identity, Identities, JobStates
  <2>5. runRoot' \in RunRoots
    BY <1>1, <2>3, <2>4 DEF TypeOK, RunRoots, JobStates
  <2>6. /\ runRoot'.owner = j /\ runRoot'.files = runRoot.files
        /\ runRoot'.says = Identity(j) /\ runRoot'.runtime = job[j].runtime
        /\ runRoot'.config = job[j].config /\ runRoot'.manifest = job[j].manifest
    BY <1>1, <2>3 DEF TypeOK, RunRoots
  <2>7. runRoot'.waves = runRoot.waves  BY <1>1, <2>3, Zenon DEF TypeOK, RunRoots
  <2>8. Made' /\ j # Nobody  BY <2>6, CampaignAssumption DEF Made
  <2>9. job[j].steady => job[j].config = job[j].configHash /\ job[j].manifest = job[j].manifestHash
    BY <1>1 DEF Reads, At
  <2>10. RunRootInv'
    <3>1. runRoot.files = 0 /\ ~runRoot.waves  BY <1>3 DEF IndInv, RunRootInv
    <3>2. job'[j].steady => Faithful'
      <4>1. job'[j].steady => job[j].steady  BY <2>2
      <4>2. /\ runRoot'.says.config = job[j].configHash
            /\ runRoot'.says.manifest = job[j].manifestHash
        BY <2>6 DEF Identity
      <4>. QED  BY <2>6, <2>9, <4>1, <4>2 DEF Faithful
    <3>3. runRoot'.files = 0 /\ ~runRoot'.waves  BY <2>6, <2>7, <3>1
    <3>4. job'[runRoot'.owner].step \in Inside  BY <2>2, <2>6
    <3>5. runRoot'.runtime = runRoot'.says.runtime  BY <2>6 DEF Identity
    <3>6. job'[runRoot'.owner].steady => Faithful'  BY <2>6, <3>2
    <3>. QED  BY <2>8, <3>3, <3>4, <3>5, <3>6 DEF RunRootInv
  <2>11. \A k \in Jobs : job[k].step \notin Inside \cup {"validate"}
    BY <1>3 DEF IndInv, JobInv
  <2>12. ASSUME NEW k \in Jobs  PROVE JobInv(k)'
    <3>1. CASE k = j
      <4>1. runRoot.files = 0  BY <1>3 DEF IndInv, RunRootInv
      <4>. QED  BY <3>1, <4>1, <2>2, <2>6, <2>8 DEF JobInv
    <3>2. CASE k # j
      BY <3>2, <2>2, <2>11 DEF JobInv
    <3>. QED  BY <3>1, <3>2
  <2>13. ASSUME NEW w \in Waves  PROVE WaveInv(w)'
    <3>1. wave[w].owner = Nobody /\ ~wave[w].measured  BY <1>3 DEF IndInv, WaveInv
    <3>. QED  BY <3>1, <1>1 DEF WaveInv
  <2>14. TypeOK'  BY <1>1, <2>2, <2>5 DEF TypeOK, Waves
  <2>. QED  BY <2>2, <2>10, <2>12, <2>13, <2>14 DEF IndInv, Waves
<1>. QED  BY <1>2, <1>3

\* What the steps of a job inside the campaign have in common.
LEMMA InsideStep ==
    ASSUME NEW j \in Jobs, NEW s \in Steps, IndInv, Becomes(j, job[j], s), s \notin Reading,
           job[j].step \in Inside, s \in Inside \cup {"refused"}
    PROVE  /\ TypeOK /\ Made /\ runRoot.owner \in Jobs /\ Identity(j) = runRoot.says
           /\ job' \in [Jobs -> JobStates] /\ source' = source /\ edits' = edits
           /\ job'[j].step = s /\ \A k \in Jobs \ {j} : job'[k] = job[k]
           /\ \A k \in Jobs : /\ Identity(k)' = Identity(k)
                              /\ job'[k].steady => job[k].steady
                              /\ Reads(k)'
           /\ job'[runRoot.owner].step \in Inside \cup {"refused"}
<1>1. TypeOK /\ Made /\ Identity(j) = runRoot.says  BY DEF IndInv, JobInv
<1>2. runRoot.owner \in Jobs  BY <1>1 DEF TypeOK, RunRoots, Made
<1>3. /\ job' \in [Jobs -> JobStates] /\ source' = source /\ edits' = edits
      /\ job'[j].step = s /\ \A k \in Jobs \ {j} : job'[k] = job[k]
      /\ \A k \in Jobs : /\ Identity(k)' = Identity(k)
                         /\ job'[k].steady => job[k].steady
                         /\ Reads(k)'
  BY StepOnly
<1>4. job'[runRoot.owner].step \in Inside \cup {"refused"}
  BY <1>1, <1>2, <1>3 DEF IndInv, RunRootInv
<1>. QED  BY <1>1, <1>2, <1>3, <1>4

LEMMA WriteRunFileKeeps ==
    ASSUME IndInv, NEW j \in Jobs, WriteRunFile(j)
    PROVE  IndInv'
<1>. DEFINE s == IF runRoot.files = 3 THEN "makeWaves" ELSE "fill"
<1>1. /\ job[j].step = "fill" /\ wave' = wave /\ Becomes(j, job[j], s)
      /\ runRoot' = [runRoot EXCEPT !.files = @ + 1]
      /\ s \in Steps /\ s \in Filling
  BY DEF WriteRunFile, At, Steps
<1>2. /\ TypeOK /\ Made /\ runRoot.owner \in Jobs /\ Identity(j) = runRoot.says
      /\ job' \in [Jobs -> JobStates] /\ source' = source /\ edits' = edits
      /\ job'[j].step = s /\ \A k \in Jobs \ {j} : job'[k] = job[k]
      /\ \A k \in Jobs : /\ Identity(k)' = Identity(k)
                         /\ job'[k].steady => job[k].steady
                         /\ Reads(k)'
      /\ job'[runRoot.owner].step \in Inside \cup {"refused"}
  <2>. HIDE DEF s
  <2>. QED  BY <1>1, InsideStep
<1>3. runRoot.owner = j /\ runRoot.files \in 0 .. 3
  BY <1>1, <1>2 DEF IndInv, JobInv, TypeOK, RunRoots
<1>4. runRoot' \in RunRoots  BY <1>1, <1>2, <1>3 DEF TypeOK, RunRoots
<1>5. /\ runRoot'.owner = runRoot.owner /\ runRoot'.files = runRoot.files + 1
      /\ runRoot'.says = runRoot.says /\ runRoot'.runtime = runRoot.runtime
      /\ runRoot'.config = runRoot.config /\ runRoot'.manifest = runRoot.manifest
  BY <1>1, <1>2 DEF TypeOK, RunRoots
<1>6. runRoot'.waves = runRoot.waves  BY <1>1, <1>2, Zenon DEF TypeOK, RunRoots
<1>7. TypeOK'  BY <1>1, <1>2, <1>4 DEF TypeOK, Waves
<1>8. Made' /\ (Faithful <=> Faithful')  BY <1>2, <1>5 DEF Made, Faithful
<1>9. RunRootInv'
  <2>1. ~runRoot.waves  BY <1>3 DEF IndInv, RunRootInv
  <2>. QED  BY <1>2, <1>5, <1>6, <1>8, <2>1 DEF IndInv, RunRootInv
<1>10. ASSUME NEW k \in Jobs  PROVE JobInv(k)'
  <2>1. CASE k = j
    BY <2>1, <1>1, <1>2, <1>3, <1>5, <1>8 DEF JobInv
  <2>2. CASE k # j
    <3>1. job[k].step \notin Inside  BY <2>2, <1>3 DEF IndInv, JobInv
    <3>. QED  BY <2>2, <3>1, <1>2, <1>8 DEF JobInv
  <2>. QED  BY <2>1, <2>2
<1>11. ASSUME NEW w \in Waves  PROVE WaveInv(w)'
  <2>1. ~wave[w].measured  BY <1>3 DEF IndInv, WaveInv
  <2>. QED  BY <2>1, <1>1, <1>5, <1>8 DEF IndInv, WaveInv
<1>. QED  BY <1>2, <1>7, <1>9, <1>10, <1>11 DEF IndInv, Waves

LEMMA MakeWavesKeeps ==
    ASSUME IndInv, NEW j \in Jobs, MakeWaves(j)
    PROVE  IndInv'
<1>1. /\ job[j].step = "makeWaves" /\ wave' = wave /\ Becomes(j, job[j], "enter")
      /\ runRoot' = [runRoot EXCEPT !.waves = TRUE]
      /\ "enter" \in Steps
  BY DEF MakeWaves, At, Steps
<1>2. /\ TypeOK /\ Made /\ runRoot.owner \in Jobs /\ Identity(j) = runRoot.says
      /\ job' \in [Jobs -> JobStates] /\ source' = source /\ edits' = edits
      /\ job'[j].step = "enter" /\ \A k \in Jobs \ {j} : job'[k] = job[k]
      /\ \A k \in Jobs : /\ Identity(k)' = Identity(k)
                         /\ job'[k].steady => job[k].steady
                         /\ Reads(k)'
      /\ job'[runRoot.owner].step \in Inside \cup {"refused"}
  BY <1>1, InsideStep
<1>3. runRoot.owner = j /\ runRoot.files = 4  BY <1>1 DEF IndInv, JobInv
<1>4. PICK t \in BOOLEAN : t = TRUE  OBVIOUS
<1>5. runRoot' \in RunRoots
  <2>1. \A v \in BOOLEAN : [runRoot EXCEPT !.waves = v] \in RunRoots  BY <1>2 DEF TypeOK, RunRoots
  <2>. QED  BY <2>1, <1>1, Zenon
<1>6. /\ runRoot'.owner = runRoot.owner /\ runRoot'.files = runRoot.files
      /\ runRoot'.says = runRoot.says /\ runRoot'.runtime = runRoot.runtime
      /\ runRoot'.config = runRoot.config /\ runRoot'.manifest = runRoot.manifest
  BY <1>1, <1>2 DEF TypeOK, RunRoots
<1>7. TypeOK'  BY <1>1, <1>2, <1>5 DEF TypeOK, Waves
<1>8. Made' /\ (Faithful <=> Faithful')  BY <1>2, <1>6 DEF Made, Faithful
<1>9. RunRootInv'  BY <1>2, <1>3, <1>6, <1>8 DEF IndInv, RunRootInv
<1>10. ASSUME NEW k \in Jobs  PROVE JobInv(k)'
  <2>1. CASE k = j
    BY <2>1, <1>2, <1>3, <1>6, <1>8 DEF JobInv
  <2>2. CASE k # j
    BY <2>2, <1>1, <1>2, <1>6, <1>8 DEF IndInv, JobInv, Own
  <2>. QED  BY <2>1, <2>2
<1>11. ASSUME NEW w \in Waves  PROVE WaveInv(w)'
  BY <1>1, <1>2, <1>6, <1>8 DEF IndInv, WaveInv
<1>. QED  BY <1>2, <1>7, <1>9, <1>10, <1>11 DEF IndInv, Waves

-----------------------------------------------------------------------------
(* The steps in a wave.                                                    *)

LEMMA EnterKeeps ==
    ASSUME IndInv, NEW j \in Jobs, Enter(j)
    PROVE  IndInv'
<1>. DEFINE s == IF runRoot.waves /\ ~Taken(j) THEN "makeWave" ELSE "refused"
<1>1. /\ job[j].step = "enter" /\ wave' = wave /\ runRoot' = runRoot /\ Becomes(j, job[j], s)
      /\ s \in Steps /\ s \in {"makeWave", "refused"}
  BY DEF Enter, At, Checks, NoDirectory, Steps, Ended
<1>2. /\ TypeOK /\ Made /\ runRoot.owner \in Jobs /\ Identity(j) = runRoot.says
      /\ job' \in [Jobs -> JobStates] /\ source' = source /\ edits' = edits
      /\ job'[j].step = s /\ \A k \in Jobs \ {j} : job'[k] = job[k]
      /\ \A k \in Jobs : /\ Identity(k)' = Identity(k)
                         /\ job'[k].steady => job[k].steady
                         /\ Reads(k)'
      /\ job'[runRoot.owner].step \in Inside \cup {"refused"}
  <2>. HIDE DEF s
  <2>. QED  BY <1>1, InsideStep
<1>. HIDE DEF s
<1>3. TypeOK'  BY <1>1, <1>2 DEF TypeOK, Waves
<1>4. RunRootInv'  BY <1>1, <1>2 DEF IndInv, RunRootInv, Made, Faithful
<1>5. ASSUME NEW k \in Jobs  PROVE JobInv(k)'
  <2>1. CASE k = j
    BY <2>1, <1>1, <1>2 DEF IndInv, JobInv, Made, Faithful
  <2>2. CASE k # j
    BY <2>2, <1>1, <1>2 DEF IndInv, JobInv, Made, Faithful, Own
  <2>. QED  BY <2>1, <2>2
<1>6. ASSUME NEW w \in Waves  PROVE WaveInv(w)'
  BY <1>1, <1>2 DEF IndInv, WaveInv, Made, Faithful
<1>. QED  BY <1>2, <1>3, <1>4, <1>5, <1>6 DEF IndInv, Waves

\* A step of a job inside its wave: it changes that wave alone.  The caller shows
\* what becomes of it.
LEMMA WaveStep ==
    ASSUME NEW j \in Jobs, NEW s \in Steps, IndInv, Becomes(j, job[j], s), runRoot' = runRoot,
           job[j].step \in Running, s \in InWave,
           wave' \in [Waves -> WaveRoots],
           \A w \in Waves \ {WaveOf[j]} : wave'[w] = wave[w],
           Own(j)'.owner = j,
           Own(j).owner \in {j, Nobody},
           s \in {"describe", "prepared"} => Own(j)'.nodes,
           s = "prepared" => Own(j)'.metadata,
           WaveInv(WaveOf[j])'
    PROVE  IndInv'
<1>1. /\ TypeOK /\ Made /\ runRoot.owner \in Jobs /\ Identity(j) = runRoot.says
      /\ job' \in [Jobs -> JobStates] /\ source' = source /\ edits' = edits
      /\ job'[j].step = s /\ \A k \in Jobs \ {j} : job'[k] = job[k]
      /\ \A k \in Jobs : /\ Identity(k)' = Identity(k)
                         /\ job'[k].steady => job[k].steady
                         /\ Reads(k)'
      /\ job'[runRoot.owner].step \in Inside \cup {"refused"}
  BY InsideStep
<1>2. TypeOK'  BY <1>1 DEF TypeOK, Waves
<1>3. RunRootInv'  BY <1>1 DEF IndInv, RunRootInv, Made, Faithful
<1>4. ASSUME NEW k \in Jobs  PROVE JobInv(k)'
  <2>1. CASE k = j
    BY <2>1, <1>1 DEF IndInv, JobInv, Made, Faithful
  <2>2. CASE k # j
    <3>1. job[k].step \in InWave => Own(k).owner = k  BY DEF IndInv, JobInv
    <3>2. job[k].step \in InWave => WaveOf[k] # WaveOf[j]
      BY <2>2, <3>1, CampaignAssumption DEF Own
    <3>3. WaveOf[k] \in Waves  BY DEF Waves
    <3>4. job[k].step \in InWave => Own(k)' = Own(k)  BY <3>2, <3>3 DEF Own
    <3>. QED  BY <2>2, <3>1, <3>4, <1>1 DEF IndInv, JobInv, Made, Faithful
  <2>. QED  BY <2>1, <2>2
<1>5. ASSUME NEW w \in Waves, w # WaveOf[j]  PROVE WaveInv(w)'
  BY <1>1, <1>5 DEF IndInv, WaveInv, Made, Faithful
<1>. QED  BY <1>1, <1>2, <1>3, <1>4, <1>5 DEF IndInv, Waves

LEMMA OwnTyped ==
    ASSUME TypeOK, NEW j \in Jobs
    PROVE  WaveOf[j] \in Waves /\ Own(j) \in WaveRoots
BY DEF TypeOK, Waves, Own

LEMMA MakeWaveKeeps ==
    ASSUME IndInv, NEW j \in Jobs, MakeWave(j)
    PROVE  IndInv'
<1>1. /\ job[j].step = "makeWave" /\ runRoot' = runRoot /\ TypeOK
      /\ WaveOf[j] \in Waves /\ Own(j) \in WaveRoots
  BY OwnTyped DEF MakeWave, At, IndInv
<1>2. CASE Taken(j)
  <2>1. Becomes(j, job[j], "refused") /\ "refused" \in Steps /\ wave' = wave
    BY <1>2 DEF MakeWave, Checks, Steps, Ended
  <2>2. /\ TypeOK /\ Made /\ runRoot.owner \in Jobs
        /\ job' \in [Jobs -> JobStates] /\ source' = source /\ edits' = edits
        /\ job'[j].step = "refused" /\ \A k \in Jobs \ {j} : job'[k] = job[k]
        /\ \A k \in Jobs : /\ Identity(k)' = Identity(k)
                           /\ job'[k].steady => job[k].steady
                           /\ Reads(k)'
        /\ job'[runRoot.owner].step \in Inside \cup {"refused"}
    BY <1>1, <2>1, InsideStep
  <2>3. TypeOK'  BY <1>1, <2>1, <2>2 DEF TypeOK, Waves
  <2>4. RunRootInv'  BY <1>1, <2>2 DEF IndInv, RunRootInv, Made, Faithful
  <2>5. ASSUME NEW k \in Jobs  PROVE JobInv(k)'
    <3>1. CASE k = j  BY <3>1, <2>2 DEF JobInv
    <3>2. CASE k # j
      BY <3>2, <1>1, <2>1, <2>2 DEF IndInv, JobInv, Made, Faithful, Own
    <3>. QED  BY <3>1, <3>2
  <2>6. ASSUME NEW w \in Waves  PROVE WaveInv(w)'
    BY <1>1, <2>1, <2>2 DEF IndInv, WaveInv, Made, Faithful
  <2>. QED  BY <2>2, <2>3, <2>4, <2>5, <2>6 DEF IndInv, Waves
<1>3. CASE ~Taken(j)
  <2>1. Becomes(j, job[j], "makeNodes") /\ "makeNodes" \in Steps /\ Claims(j)
    BY <1>3 DEF MakeWave, Checks, Steps
  <2>2. Identity(j) \in Identities  BY <1>1, JobTyped DEF Identity, Identities, JobStates
  <2>. DEFINE r == [Own(j) EXCEPT !.owner = j, !.says = Identity(j)]
  <2>3. r \in WaveRoots
    BY <1>1, <2>2 DEF WaveRoots
  <2>4. wave' = [wave EXCEPT ![WaveOf[j]] = r]  BY <2>1 DEF Claims, Own
  <2>5. Own(j)' = r /\ wave' \in [Waves -> WaveRoots]
        /\ \A w \in Waves \ {WaveOf[j]} : wave'[w] = wave[w]
    <3>. HIDE DEF r
    <3>. QED  BY <1>1, <2>3, <2>4 DEF TypeOK, Own
  <2>6. r.owner = j /\ r.says = Identity(j)  BY <1>1 DEF WaveRoots
  <2>7. r.measured = Own(j).measured  BY <1>1, Zenon DEF WaveRoots
  <2>. HIDE DEF r
  <2>8. Identity(j) = runRoot.says /\ Made /\ j # Nobody /\ (j # runRoot.owner => Faithful)
    BY <1>1, CampaignAssumption DEF IndInv, JobInv
  <2>9. Own(j).owner = Nobody /\ ~Own(j).measured
    BY <1>1, <1>3 DEF Taken, Own, IndInv, WaveInv
  <2>10. WaveInv(WaveOf[j])'
    <3>1. wave'[WaveOf[j]] = r  BY <2>5 DEF Own
    <3>2. Made' /\ (Faithful <=> Faithful')  BY <1>1, <2>8 DEF Made, Faithful
    <3>3. ~r.measured  BY <2>7, <2>9
    <3>. QED  BY <1>1, <2>6, <2>8, <3>1, <3>2, <3>3 DEF WaveInv
  <2>. QED  BY <1>1, <2>1, <2>5, <2>6, <2>9, <2>10, WaveStep
<1>. QED  BY <1>2, <1>3

LEMMA MakeNodesKeeps ==
    ASSUME IndInv, NEW j \in Jobs, MakeNodes(j)
    PROVE  IndInv'
<1>1. /\ job[j].step = "makeNodes" /\ runRoot' = runRoot /\ TypeOK
      /\ WaveOf[j] \in Waves /\ Own(j) \in WaveRoots
      /\ Becomes(j, job[j], "describe") /\ "describe" \in Steps
  BY OwnTyped DEF MakeNodes, At, IndInv, Steps
<1>. DEFINE r == [Own(j) EXCEPT !.nodes = TRUE]
<1>2. r \in WaveRoots
  <2>1. \A v \in BOOLEAN : [Own(j) EXCEPT !.nodes = v] \in WaveRoots  BY <1>1 DEF WaveRoots
  <2>. QED  BY <2>1, Zenon
<1>3. wave' = [wave EXCEPT ![WaveOf[j]] = r]  BY DEF MakeNodes, Own
<1>4. /\ Own(j)' = r /\ wave' \in [Waves -> WaveRoots]
      /\ \A w \in Waves \ {WaveOf[j]} : wave'[w] = wave[w]
  <2>. HIDE DEF r
  <2>. QED  BY <1>1, <1>2, <1>3 DEF TypeOK, Own
<1>5. r.owner = Own(j).owner /\ r.says = Own(j).says /\ r.rows = Own(j).rows  BY <1>1 DEF WaveRoots
<1>6. r.nodes /\ r.measured = Own(j).measured /\ r.metadata = Own(j).metadata
  BY <1>1, Zenon DEF WaveRoots
<1>. HIDE DEF r
<1>7. Own(j).owner = j  BY <1>1 DEF IndInv, JobInv
<1>8. WaveInv(WaveOf[j])'
  <2>1. wave'[WaveOf[j]] = r /\ wave[WaveOf[j]] = Own(j)  BY <1>4 DEF Own
  <2>2. runRoot.owner \in Jobs /\ (job'[runRoot.owner].steady => job[runRoot.owner].steady)
    BY <1>1, InsideStep
  <2>3. WaveInv(WaveOf[j])  BY <1>1 DEF IndInv
  <2>. QED  BY <1>1, <1>5, <1>6, <2>1, <2>2, <2>3 DEF WaveInv, Made, Faithful
<1>. QED  BY <1>1, <1>4, <1>5, <1>6, <1>7, <1>8, WaveStep

LEMMA WriteWaveMetadataKeeps ==
    ASSUME IndInv, NEW j \in Jobs, WriteWaveMetadata(j)
    PROVE  IndInv'
<1>1. /\ job[j].step = "describe" /\ runRoot' = runRoot /\ TypeOK
      /\ WaveOf[j] \in Waves /\ Own(j) \in WaveRoots
      /\ Becomes(j, job[j], "prepared") /\ "prepared" \in Steps
  BY OwnTyped DEF WriteWaveMetadata, At, IndInv, Steps
<1>. DEFINE r == [Own(j) EXCEPT !.metadata = TRUE]
<1>2. r \in WaveRoots
  <2>1. \A v \in BOOLEAN : [Own(j) EXCEPT !.metadata = v] \in WaveRoots  BY <1>1 DEF WaveRoots
  <2>. QED  BY <2>1, Zenon
<1>3. wave' = [wave EXCEPT ![WaveOf[j]] = r]  BY DEF WriteWaveMetadata, Own
<1>4. /\ Own(j)' = r /\ wave' \in [Waves -> WaveRoots]
      /\ \A w \in Waves \ {WaveOf[j]} : wave'[w] = wave[w]
  <2>. HIDE DEF r
  <2>. QED  BY <1>1, <1>2, <1>3 DEF TypeOK, Own
<1>5. r.owner = Own(j).owner /\ r.says = Own(j).says /\ r.rows = Own(j).rows  BY <1>1 DEF WaveRoots
<1>6. r.metadata /\ r.measured = Own(j).measured /\ r.nodes = Own(j).nodes
  BY <1>1, Zenon DEF WaveRoots
<1>. HIDE DEF r
<1>7. Own(j).owner = j /\ Own(j).nodes  BY <1>1 DEF IndInv, JobInv
<1>8. WaveInv(WaveOf[j])'
  <2>1. wave'[WaveOf[j]] = r /\ wave[WaveOf[j]] = Own(j)  BY <1>4 DEF Own
  <2>2. runRoot.owner \in Jobs /\ (job'[runRoot.owner].steady => job[runRoot.owner].steady)
    BY <1>1, InsideStep
  <2>3. WaveInv(WaveOf[j])  BY <1>1 DEF IndInv
  <2>. QED  BY <1>1, <1>5, <1>6, <2>1, <2>2, <2>3 DEF WaveInv, Made, Faithful
<1>. QED  BY <1>1, <1>4, <1>5, <1>6, <1>7, <1>8, WaveStep

LEMMA MeasureKeeps ==
    ASSUME IndInv, NEW j \in Jobs, Measure(j)
    PROVE  IndInv'
<1>1. /\ job[j].step = "prepared" /\ runRoot' = runRoot /\ TypeOK
      /\ WaveOf[j] \in Waves /\ Own(j) \in WaveRoots
      /\ Becomes(j, job[j], "measuring") /\ "measuring" \in Steps
  BY OwnTyped DEF Measure, At, IndInv, Steps
<1>. DEFINE rows == [config |-> runRoot.config, manifest |-> runRoot.manifest,
                     runtime |-> job[j].runtime]
            r == [[Own(j) EXCEPT !.rows = rows] EXCEPT !.measured = TRUE]
<1>2. rows \in Identities
  BY <1>1, JobTyped DEF TypeOK, RunRoots, Identities, JobStates
<1>3. r \in WaveRoots
  <2>1. [Own(j) EXCEPT !.rows = rows] \in WaveRoots
    <3>. HIDE DEF rows
    <3>. QED  BY <1>1, <1>2 DEF WaveRoots
  <2>2. \A q \in WaveRoots, v \in BOOLEAN : [q EXCEPT !.measured = v] \in WaveRoots
    BY DEF WaveRoots
  <2>. QED  BY <2>1, <2>2, Zenon
<1>4. wave' = [wave EXCEPT ![WaveOf[j]] = r]  BY <1>1 DEF Measure, Own, WaveRoots
<1>5. /\ Own(j)' = r /\ wave' \in [Waves -> WaveRoots]
      /\ \A w \in Waves \ {WaveOf[j]} : wave'[w] = wave[w]
  <2>. HIDE DEF r
  <2>. QED  BY <1>1, <1>3, <1>4 DEF TypeOK, Own
<1>6. r.owner = Own(j).owner /\ r.says = Own(j).says /\ r.rows = rows  BY <1>1 DEF WaveRoots
<1>7. r.nodes = Own(j).nodes /\ r.metadata = Own(j).metadata
  BY <1>1, Zenon DEF WaveRoots
<1>. HIDE DEF r
<1>8. /\ Own(j).owner = j /\ Own(j).nodes /\ Own(j).metadata /\ runRoot.files = 4
      /\ Identity(j) = runRoot.says /\ Made /\ (j # runRoot.owner => Faithful)
  BY <1>1 DEF IndInv, JobInv
<1>9. Faithful => rows = runRoot.says
  BY <1>8 DEF Identity, Faithful
<1>. HIDE DEF rows
<1>10. WaveInv(WaveOf[j])'
  <2>1. wave'[WaveOf[j]] = r /\ wave[WaveOf[j]] = Own(j)  BY <1>5 DEF Own
  <2>2. runRoot.owner \in Jobs /\ (job'[runRoot.owner].steady => job[runRoot.owner].steady)
    BY <1>1, InsideStep
  <2>3. WaveInv(WaveOf[j]) /\ RunRootInv  BY <1>1 DEF IndInv
  <2>4. job[runRoot.owner].steady => Faithful  BY <1>8, <2>3 DEF RunRootInv
  <2>5. j # Nobody  BY CampaignAssumption
  <2>6. r.says = runRoot.says  BY <1>6, <1>8, <2>1, <2>3, <2>5 DEF WaveInv
  <2>. QED  BY <1>1, <1>6, <1>7, <1>8, <1>9, <2>1, <2>2, <2>4, <2>5, <2>6
            DEF WaveInv, Made, Faithful
<1>. QED  BY <1>1, <1>5, <1>6, <1>7, <1>8, <1>10, WaveStep

LEMMA EditKeeps ==
    ASSUME IndInv, Edit
    PROVE  IndInv'
<1>1. /\ TypeOK /\ edits' = edits + 1 /\ edits < Edits
      /\ runRoot' = runRoot /\ wave' = wave
      /\ job' = [k \in Jobs |-> [job[k] EXCEPT !.steady = @ /\ job[k].step \notin Reading]]
  BY DEF IndInv, Edit
<1>2. source' \in [Sources -> Versions]  BY <1>1 DEF Edit, TypeOK
<1>3. ASSUME NEW k \in Jobs
      PROVE  /\ job'[k] \in JobStates
             /\ job'[k].step = job[k].step
             /\ job'[k].config = job[k].config /\ job'[k].configHash = job[k].configHash
             /\ job'[k].manifest = job[k].manifest /\ job'[k].manifestHash = job[k].manifestHash
             /\ job'[k].runtime = job[k].runtime
             /\ job'[k].steady => job[k].steady /\ job[k].step \notin Reading
             /\ Identity(k)' = Identity(k)
  <2>. DEFINE v == job[k].steady /\ job[k].step \notin Reading
  <2>1. job[k] \in JobStates /\ job'[k] = [job[k] EXCEPT !.steady = v]
    BY <1>1, JobTyped, Zenon
  <2>2. v \in BOOLEAN  OBVIOUS
  <2>3. \A u \in BOOLEAN : [job[k] EXCEPT !.steady = u] \in JobStates  BY <2>1 DEF JobStates
  <2>. HIDE DEF v
  <2>4. job'[k] \in JobStates  BY <2>1, <2>2, <2>3, Zenon
  <2>5. job'[k].steady = v  BY <2>1, Zenon DEF JobStates
  <2>6. /\ job'[k].step = job[k].step
        /\ job'[k].config = job[k].config /\ job'[k].configHash = job[k].configHash
        /\ job'[k].manifest = job[k].manifest /\ job'[k].manifestHash = job[k].manifestHash
        /\ job'[k].runtime = job[k].runtime
    BY <2>1 DEF JobStates
  <2>. USE DEF v
  <2>. QED  BY <2>4, <2>5, <2>6 DEF Identity
<1>4. job' \in [Jobs -> JobStates]  BY <1>1, <1>3
<1>5. edits' \in 0 .. Edits  BY <1>1, CampaignAssumption DEF TypeOK
<1>6. TypeOK'  BY <1>1, <1>2, <1>4, <1>5 DEF TypeOK, Waves
<1>7. ASSUME NEW k \in Jobs  PROVE Reads(k)' /\ JobInv(k)'
  <2>1. Reads(k) /\ JobInv(k)  BY DEF IndInv
  <2>2. Reads(k)'  BY <1>3, <2>1 DEF Reads
  <2>3. JobInv(k)'  BY <1>1, <1>3, <2>1 DEF JobInv, Made, Faithful, Own
  <2>. QED  BY <2>2, <2>3
<1>8. Made => runRoot.owner \in Jobs  BY <1>1 DEF TypeOK, RunRoots, Made
<1>9. RunRootInv'
  <2>1. RunRootInv  BY DEF IndInv
  <2>2. Made => /\ job'[runRoot.owner].step = job[runRoot.owner].step
                /\ job'[runRoot.owner].steady => job[runRoot.owner].steady
    BY <1>3, <1>8
  <2>3. Made' <=> Made  BY <1>1 DEF Made
  <2>4. Faithful' <=> Faithful  BY <1>1 DEF Faithful
  <2>. QED  BY <1>1, <2>1, <2>2, <2>3, <2>4 DEF RunRootInv
<1>10. ASSUME NEW w \in Waves  PROVE WaveInv(w)'
  BY <1>1, <1>3, <1>8 DEF IndInv, WaveInv, Made, Faithful
<1>. QED  BY <1>6, <1>7, <1>9, <1>10 DEF IndInv, Waves

-----------------------------------------------------------------------------
(* The theorems.                                                           *)

LEMMA Initially ==
    ASSUME Init  PROVE IndInv
<1>1. PICK h \in Hosts :
         /\ job = [j \in Jobs |->
               [step |-> "preflight", config |-> Unset(h).config,
                configHash |-> Unset(h).config, manifest |-> Unset(h).manifest,
                manifestHash |-> Unset(h).manifest, runtime |-> Unset(h).runtime,
                steady |-> TRUE]]
         /\ runRoot = [owner |-> Nobody, files |-> 0, config |-> Unset(h).config,
                       manifest |-> Unset(h).manifest, runtime |-> Unset(h).runtime,
                       says |-> Unset(h), waves |-> FALSE]
         /\ wave = [w \in Waves |->
               [owner |-> Nobody, nodes |-> FALSE, metadata |-> FALSE, says |-> Unset(h),
                measured |-> FALSE, rows |-> Unset(h)]]
  BY DEF Init
<1>2. source \in [Sources -> Versions] /\ edits = 0  BY DEF Init
<1>3. /\ Unset(h) \in Identities /\ Unset(h).config \in Versions
      /\ Unset(h).manifest \in Versions /\ Unset(h).runtime \in Runtimes
  BY <1>2 DEF Unset, Identities, Runtimes
<1>4. "preflight" \in Steps /\ TRUE \in BOOLEAN /\ FALSE \in BOOLEAN  BY DEF Steps
<1>5. ASSUME NEW i \in Identities, NEW t \in BOOLEAN, NEW f \in BOOLEAN, NEW c \in Versions,
             NEW m \in Versions, NEW q \in Runtimes
      PROVE  /\ [step |-> "preflight", config |-> c, configHash |-> c, manifest |-> m,
                 manifestHash |-> m, runtime |-> q, steady |-> t] \in JobStates
             /\ [owner |-> Nobody, files |-> 0, config |-> c, manifest |-> m, runtime |-> q,
                 says |-> i, waves |-> f] \in RunRoots
             /\ [owner |-> Nobody, nodes |-> f, metadata |-> f, says |-> i, measured |-> f,
                 rows |-> i] \in WaveRoots
  BY <1>4 DEF JobStates, RunRoots, WaveRoots
<1>6. job \in [Jobs -> JobStates] /\ runRoot \in RunRoots /\ wave \in [Waves -> WaveRoots]
  <2>1. \A j \in Jobs : job[j] \in JobStates  BY <1>1, <1>3, <1>4, <1>5, Zenon
  <2>2. runRoot \in RunRoots  BY <1>1, <1>3, <1>4, <1>5, Zenon
  <2>3. \A w \in Waves : wave[w] \in WaveRoots  BY <1>1, <1>3, <1>4, <1>5, Zenon
  <2>. QED  BY <1>1, <2>1, <2>2, <2>3
<1>7. TypeOK  BY <1>2, <1>6, CampaignAssumption DEF TypeOK
<1>8. /\ \A j \in Jobs : job[j].step = "preflight"
      /\ runRoot.owner = Nobody /\ runRoot.files = 0
      /\ \A w \in Waves : wave[w].owner = Nobody
  BY <1>1
<1>9. ~runRoot.waves /\ \A w \in Waves : ~wave[w].measured  BY <1>1
<1>10. RunRootInv  BY <1>8, <1>9 DEF RunRootInv, Made
<1>11. \A j \in Jobs : Reads(j) /\ JobInv(j)  BY <1>8 DEF Reads, JobInv
<1>12. \A w \in Waves : WaveInv(w)  BY <1>8, <1>9 DEF WaveInv
<1>. QED  BY <1>7, <1>10, <1>11, <1>12 DEF IndInv

LEMMA NextKeeps ==
    ASSUME IndInv, [Next]_vars  PROVE IndInv'
<1>1. CASE UNCHANGED vars
  BY <1>1 DEF vars, IndInv, TypeOK, RunRootInv, Reads, JobInv, WaveInv, Made, Faithful, Own,
              Identity, Waves
<1>2. CASE Edit  BY <1>2, EditKeeps
<1>3. ASSUME NEW j \in Jobs, JobStep(j)  PROVE IndInv'
  BY <1>3, ReadingKeeps, ValidateKeeps, MakeRunRootKeeps, WriteRunFileKeeps, MakeWavesKeeps,
     EnterKeeps, MakeWaveKeeps, MakeNodesKeeps, WriteWaveMetadataKeeps, MeasureKeeps DEF JobStep
<1>. QED  BY <1>1, <1>2, <1>3 DEF Next

\* The inductive invariant: what a job has read, what a job inside a campaign may rely
\* on, and what the run directory and the waves record, whatever the jobs and edits.
THEOREM Invariant == Spec => []IndInv
<1>1. Init => IndInv  BY Initially
<1>2. IndInv /\ [Next]_vars => IndInv'  BY NextKeeps
<1>. QED  BY <1>1, <1>2, PTL DEF Spec

\* The jobs, the run directory and the waves keep their types.
THEOREM TypeCorrect == Spec => []TypeOK
<1>1. IndInv => TypeOK  BY DEF IndInv
<1>. QED  BY <1>1, Invariant, PTL

\* No two jobs ever write into one directory, for any number of racing jobs.
THEOREM Exclusive == Spec => []OneWriter
<1>1. IndInv => OneWriter  BY DEF IndInv, JobInv, OneWriter
<1>. QED  BY <1>1, Invariant, PTL

\* All waves of a campaign are of the identity its run metadata records.
THEOREM Identical == Spec => []OneIdentity
<1>1. IndInv => OneIdentity  BY DEF IndInv, WaveInv, OneIdentity
<1>. QED  BY <1>1, Invariant, PTL

\* What is measured is what is recorded, but for a creator whose sources were edited
\* while it read them.
THEOREM Recorded == Spec => []MeasuredAsRecorded
<1>1. IndInv => MeasuredAsRecorded  BY DEF IndInv, WaveInv, MeasuredAsRecorded
<1>. QED  BY <1>1, Invariant, PTL

\* A step refuses a job for a cause only: one step per check.
LEMMA Refusals ==
    ASSUME IndInv, Next, NEW j \in Jobs, At(j, "refused")', ~At(j, "refused")
    PROVE  Refusable(j)
<1>1. TypeOK /\ job[j] \in JobStates /\ job[j].step # "refused" /\ job'[j].step = "refused"
  BY JobTyped DEF IndInv, At
<1>2. ASSUME NEW k \in Jobs, NEW n \in JobStates, NEW s \in Steps, Becomes(k, n, s)
      PROVE  k = j /\ s = "refused"
  <2>1. \A i \in Jobs \ {k} : job'[i] = job[i]  BY <1>1, <1>2, BecomesJob
  <2>2. job'[k].step = s  BY <1>1, <1>2, BecomesFields
  <2>. QED  BY <1>1, <2>1, <2>2
<1>3. ~Edit
  <2>1. Edit => job'[j].step = job[j].step  BY <1>1 DEF Edit, JobStates
  <2>. QED  BY <1>1, <2>1
<1>4. PICK k \in Jobs : JobStep(k)  BY <1>3 DEF Next
<1>5. job[k] \in JobStates  BY <1>1, JobTyped
<1>6. source["config"] \in Versions /\ source["manifest"] \in Versions  BY <1>1 DEF TypeOK
<1>7. ~CollectRuntime(k)
  <2>1. SUFFICES ASSUME NEW h \in Hosts, Becomes(k, [job[k] EXCEPT
             !.runtime = [host |-> h, manifest |-> source["manifest"]]], "config")
                 PROVE  FALSE
    BY DEF CollectRuntime
  <2>. DEFINE n == [job[k] EXCEPT !.runtime = [host |-> h, manifest |-> source["manifest"]]]
  <2>2. n \in JobStates /\ "config" \in Steps  BY <1>5, <1>6 DEF JobStates, Runtimes, Steps
  <2>3. Becomes(k, n, "config")  BY <2>1
  <2>. HIDE DEF n
  <2>. QED  BY <1>2, <2>2, <2>3
<1>8. ~LoadConfig(k)
  <2>. DEFINE n == [job[k] EXCEPT !.config = source["config"]]
  <2>1. n \in JobStates /\ "configAgain" \in Steps  BY <1>5, <1>6 DEF JobStates, Steps
  <2>2. LoadConfig(k) => Becomes(k, n, "configAgain")  BY DEF LoadConfig
  <2>. HIDE DEF n
  <2>. QED  BY <1>2, <2>1, <2>2
<1>9. ~LoadManifest(k)
  <2>. DEFINE n == [job[k] EXCEPT !.manifest = source["manifest"]]
  <2>1. n \in JobStates /\ "manifestHash" \in Steps  BY <1>5, <1>6 DEF JobStates, Steps
  <2>2. LoadManifest(k) => Becomes(k, n, "manifestHash")  BY DEF LoadManifest
  <2>. HIDE DEF n
  <2>. QED  BY <1>2, <2>1, <2>2
<1>10. ~HashManifest(k)
  <2>. DEFINE n == [job[k] EXCEPT !.manifestHash = source["manifest"]]
  <2>1. n \in JobStates /\ "manifestAgain" \in Steps  BY <1>5, <1>6 DEF JobStates, Steps
  <2>2. HashManifest(k) => Becomes(k, n, "manifestAgain")  BY DEF HashManifest
  <2>. HIDE DEF n
  <2>. QED  BY <1>2, <2>1, <2>2
<1>11. ~HashConfig(k)
  <2>. DEFINE n == [job[k] EXCEPT !.configHash = source["config"]]
  <2>1. n \in JobStates /\ "look" \in Steps  BY <1>5, <1>6 DEF JobStates, Steps
  <2>2. HashConfig(k) => Becomes(k, n, "look")  BY DEF HashConfig
  <2>. HIDE DEF n
  <2>. QED  BY <1>2, <2>1, <2>2
<1>12. ASSUME NEW s \in Steps, Becomes(k, job[k], s)  PROVE k = j /\ s = "refused"
  BY <1>2, <1>5, <1>12
<1>13. {"validate", "create", "fill", "makeWaves", "enter", "makeNodes", "describe", "prepared",
        "measuring"} \subseteq Steps
  BY DEF Steps, Ended
<1>14. ~Look(k)
  <2>1. Look(k) => Becomes(k, job[k], "validate") \/ Becomes(k, job[k], "create")  BY DEF Look
  <2>. QED  BY <1>12, <1>13, <2>1
<1>15. ~WriteRunFile(k) /\ ~MakeWaves(k)
  <2>1. WriteRunFile(k) => Becomes(k, job[k], "makeWaves") \/ Becomes(k, job[k], "fill")
    BY DEF WriteRunFile
  <2>2. MakeWaves(k) => Becomes(k, job[k], "enter")  BY DEF MakeWaves
  <2>. QED  BY <1>12, <1>13, <2>1, <2>2
<1>16. ~MakeNodes(k) /\ ~WriteWaveMetadata(k) /\ ~Measure(k)
  <2>1. /\ MakeNodes(k) => Becomes(k, job[k], "describe")
        /\ WriteWaveMetadata(k) => Becomes(k, job[k], "prepared")
        /\ Measure(k) => Becomes(k, job[k], "measuring")
    BY DEF MakeNodes, WriteWaveMetadata, Measure
  <2>. QED  BY <1>12, <1>13, <2>1
<1>17. \/ CheckConfig(k) \/ CheckManifest(k) \/ Validate(k)
       \/ MakeRunRoot(k) \/ Enter(k) \/ MakeWave(k)
  BY <1>4, <1>7, <1>8, <1>9, <1>10, <1>11, <1>14, <1>15, <1>16 DEF JobStep
<1>18. ASSUME NEW ok \in BOOLEAN, NEW s \in Steps \ {"refused"}, Checks(k, job[k], ok, s)
       PROVE  k = j /\ ~ok
  <2>1. "refused" \in Steps  BY DEF Steps, Ended
  <2>2. ok => Becomes(k, job[k], s)  BY <1>18 DEF Checks
  <2>3. ~ok => Becomes(k, job[k], "refused")  BY <1>18 DEF Checks
  <2>. QED  BY <1>12, <2>1, <2>2, <2>3
<1>19. Reads(j) /\ JobInv(j) /\ RunRootInv  BY DEF IndInv
<1>20. CASE CheckConfig(k)
  <2>1. k = j /\ job[k].config # source["config"]
    BY <1>18, <1>20 DEF CheckConfig, Steps
  <2>. QED  BY <1>19, <1>20, <2>1 DEF CheckConfig, At, Reads, Refusable
<1>21. CASE CheckManifest(k)
  <2>. DEFINE ok == job[k].manifest = source["manifest"]
                    /\ job[k].runtime.manifest = job[k].manifestHash
  <2>1. ok \in BOOLEAN /\ "configHash" \in Steps \ {"refused"}  BY DEF Steps
  <2>2. Checks(k, job[k], ok, "configHash")  BY <1>21 DEF CheckManifest
  <2>3. k = j /\ ~ok
    <3>. HIDE DEF ok
    <3>. QED  BY <1>18, <2>1, <2>2
  <2>. QED  BY <1>19, <1>21, <2>3 DEF CheckManifest, At, Reads, Refusable
<1>22. CASE Validate(k)
  <2>1. Matches(k) \in BOOLEAN /\ "enter" \in Steps \ {"refused"}  BY DEF Matches, Steps
  <2>2. k = j /\ ~Matches(k)  BY <1>18, <1>22, <2>1 DEF Validate
  <2>3. Made  BY <1>19, <1>22, <2>2 DEF Validate, At, JobInv
  <2>4. runRoot.waves /\ job[runRoot.owner].steady /\ runRoot.says = Identity(j) => Matches(j)
    BY <1>19, <2>3 DEF RunRootInv, Matches, Faithful, Identity
  <2>. QED  BY <2>2, <2>3, <2>4 DEF Refusable
<1>23. CASE MakeRunRoot(k)
  <2>1. (~Made) \in BOOLEAN /\ "fill" \in Steps \ {"refused"}  BY DEF Steps
  <2>2. k = j /\ Made  BY <1>18, <1>23, <2>1 DEF MakeRunRoot
  <2>. QED  BY <1>23, <2>2 DEF MakeRunRoot, Refusable
<1>24. CASE Enter(k)
  <2>1. (runRoot.waves /\ ~Taken(k)) \in BOOLEAN /\ "makeWave" \in Steps \ {"refused"}
    BY DEF Steps
  <2>2. k = j /\ ~(runRoot.waves /\ ~Taken(k))  BY <1>18, <1>24, <2>1 DEF Enter
  <2>3. Made  BY <1>19, <1>24, <2>2 DEF Enter, At, JobInv
  <2>. QED  BY <2>2, <2>3 DEF Refusable
<1>25. CASE MakeWave(k)
  <2>1. (~Taken(k)) \in BOOLEAN /\ "makeNodes" \in Steps \ {"refused"}  BY DEF Steps
  <2>2. k = j /\ Taken(k)  BY <1>18, <1>25, <2>1 DEF MakeWave
  <2>. QED  BY <2>2 DEF Refusable
<1>. QED  BY <1>17, <1>20, <1>21, <1>22, <1>23, <1>24, <1>25

\* A job is refused for an edit, a wave that is taken or a campaign that is not its
\* own or not complete, and for nothing else.
THEOREM Causes == Spec => RefusedForCause
<1>1. IndInv /\ [Next]_vars
         => [\A j \in Jobs : At(j, "refused")' /\ ~At(j, "refused") => Refusable(j)]_vars
  BY Refusals
<1>. QED  BY <1>1, Invariant, PTL DEF Spec, RefusedForCause
-----------------------------------------------------------------------------
(* NodeOrdering.                                                           *)

\* The node of the six that runs permutation p in a wave.
NodeOf(p, w) == (p - w) % 6

LEMMA NodeOfPermutation ==
    ASSUME NEW p \in PermutationIndices, NEW w \in Nat, NEW n \in 0 .. 5
    PROVE  PermutationIndex(n, w) = p <=> n = NodeOf(p, w)
BY Z3 DEF PermutationIndices, PermutationIndex, NodeOf

\* ... is of the other parity in the next wave.
LEMMA ParityChanges ==
    ASSUME NEW p \in PermutationIndices, NEW w \in Nat
    PROVE  /\ NodeOf(p, w) \in 0 .. 5 /\ NodeOf(p, w + 1) \in 0 .. 5
           /\ SizeOrderIndex(NodeOf(p, w + 1)) = 1 - SizeOrderIndex(NodeOf(p, w))
BY Z3 DEF PermutationIndices, NodeOf, SizeOrderIndex

\* Two consecutive waves of six nodes run every permutation with every size order
\* exactly once, whichever waves they are (ordering.py, BENCHMARK_PROTOCOL.md).
THEOREM TwoWavesBalance ==
    ASSUME NEW w \in Nat, NEW p \in PermutationIndices, NEW s \in 0 .. 1
    PROVE  JointCount(6, {w, w + 1}, p, s) = 1
<1>. DEFINE x == IF SizeOrderIndex(NodeOf(p, w)) = s THEN <<NodeOf(p, w), w>>
                                                     ELSE <<NodeOf(p, w + 1), w + 1>>
            S == {y \in (0 .. 5) \X {w, w + 1} :
                     PermutationIndex(y[1], y[2]) = p /\ SizeOrderIndex(y[1]) = s}
<1>1. SizeOrderIndex(NodeOf(p, w)) \in 0 .. 1
  BY ParityChanges, Z3 DEF SizeOrderIndex
<1>2. SizeOrderIndex(NodeOf(p, w + 1)) = 1 - SizeOrderIndex(NodeOf(p, w))
  BY ParityChanges
<1>3. ASSUME NEW y \in S  PROVE y = x
  <2>1. PICK n \in 0 .. 5, v \in {w, w + 1} : y = <<n, v>>  OBVIOUS
  <2>2. n = NodeOf(p, v) /\ SizeOrderIndex(n) = s  BY <2>1, NodeOfPermutation
  <2>. QED  BY <1>1, <1>2, <2>1, <2>2
<1>4. x \in S
  <2>1. CASE SizeOrderIndex(NodeOf(p, w)) = s
    BY <2>1, ParityChanges, NodeOfPermutation
  <2>2. CASE SizeOrderIndex(NodeOf(p, w)) # s
    <3>1. SizeOrderIndex(NodeOf(p, w + 1)) = s  BY <2>2, <1>1, <1>2
    <3>2. w + 1 \in Nat  OBVIOUS
    <3>. QED  BY <2>2, <3>1, <3>2, ParityChanges, NodeOfPermutation
  <2>. QED  BY <2>1, <2>2
<1>5. S = {x}
  <2>. HIDE DEF x, S
  <2>. QED  BY <1>3, <1>4
<1>6. Cardinality({x}) = 1  BY FS_Singleton
<1>7. JointCount(6, {w, w + 1}, p, s) = Cardinality(S)  BY DEF JointCount
<1>. QED  BY <1>5, <1>6, <1>7
=================================================================================
