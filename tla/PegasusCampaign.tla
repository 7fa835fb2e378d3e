---------------------------- MODULE PegasusCampaign -----------------------------
(***************************************************************************)
(* The campaigns of Pegasus: jobs that share a run ID, and each of them    *)
(* one step of prepare_wave.py at a time.                                  *)
(*                                                                         *)
(* A job collects the runtime environment, reads the source config and     *)
(* manifest (each more than once, while they may be edited), creates the   *)
(* run directory or validates the one that is there, creates its wave, and *)
(* only then measures, with the config and manifest of the run directory.  *)
(* Nothing but mkdir and exclusive creation keeps the jobs apart, and a job *)
(* that fails or is killed takes no further step: fairness is not assumed.   *)
(***************************************************************************)
EXTENDS NodeOrdering

CONSTANTS Jobs,       \* the jobs submitted with one run ID
          WaveOf,     \* job -> its wave number
          Nodes,      \* expected node count
          Versions,   \* contents of a source file
          Hosts,      \* runtime environments the allocations have
          Nobody,     \* not a job
          Edits       \* bound: edits of the source files

ASSUME CampaignAssumption ==
    /\ WaveOf \in [Jobs -> Nat]
    /\ Nodes \in 1 .. 150
    /\ Versions # {} /\ Hosts # {}
    /\ Nobody \notin Jobs
    /\ Edits \in Nat

VARIABLES source, job, runRoot, wave, edits

vars == <<source, job, runRoot, wave, edits>>

Sources == {"config", "manifest"}

\* What the hashes in run-metadata.json and wave-metadata.json stand for.  The
\* runtime environment names the manifest it was collected for.
Runtimes == [host : Hosts, manifest : Versions]
Identities == [config : Versions, manifest : Versions, runtime : Runtimes]

Waves == {WaveOf[j] : j \in Jobs}

\* Where a job is: preparing, filling a run directory or a wave it has made,
\* measuring, or at its end.
Reading == {"config", "configAgain", "manifest", "manifestHash", "manifestAgain",
            "configHash"}
Filling == {"fill", "makeWaves"}
InWave == {"makeNodes", "describe", "prepared", "measuring"}
Ended == {"measuring", "refused"}
Steps == {"preflight", "look", "validate", "create", "enter", "makeWave"}
            \cup Reading \cup Filling \cup InWave \cup Ended

\* steady: no source has changed since this job began to read them (history).
JobStates ==
    [step : Steps, config : Versions, configHash : Versions, manifest : Versions,
     manifestHash : Versions, runtime : Runtimes, steady : BOOLEAN]

\* The run directory: the job that made it, how many of its files are complete
\* (config, manifest, runtime environment, metadata, in this order), what they hold
\* then, and the directory of the waves.  A file whose writing was cut short counts
\* as missing: neither parses nor has the hash.
RunRoots ==
    [owner : Jobs \cup {Nobody}, files : 0 .. 4,
     config : Versions, manifest : Versions, runtime : Runtimes, says : Identities,
     waves : BOOLEAN]

\* A wave directory: the job that made it, whether wave-metadata.json is complete,
\* what it says then, and what its nodes measure with.
WaveRoots ==
    [owner : Jobs \cup {Nobody}, nodes : BOOLEAN, metadata : BOOLEAN, says : Identities,
     measured : BOOLEAN, rows : Identities]

\* What a variable that is not set yet is taken to hold.
Unset(h) ==
    [config |-> source["config"], manifest |-> source["manifest"],
     runtime |-> [host |-> h, manifest |-> source["manifest"]]]

Init ==
    /\ source \in [Sources -> Versions]
    /\ \E h \in Hosts : LET unset == Unset(h) IN
          /\ job = [j \in Jobs |->
                [step |-> "preflight", config |-> unset.config, configHash |-> unset.config,
                 manifest |-> unset.manifest, manifestHash |-> unset.manifest,
                 runtime |-> unset.runtime, steady |-> TRUE]]
          /\ runRoot = [owner |-> Nobody, files |-> 0, config |-> unset.config,
                        manifest |-> unset.manifest, runtime |-> unset.runtime,
                        says |-> unset, waves |-> FALSE]
          /\ wave = [w \in Waves |->
                [owner |-> Nobody, nodes |-> FALSE, metadata |-> FALSE, says |-> unset,
                 measured |-> FALSE, rows |-> unset]]
    /\ edits = 0

At(j, s) == job[j].step = s

\* Job j goes on at step s, after the update n of its variables.
Becomes(j, n, s) ==
    /\ job' = [job EXCEPT ![j] = [n EXCEPT !.step = s]]
    /\ UNCHANGED <<source, edits>>

\* ... if ok, and ends with an error otherwise.
Checks(j, n, ok, s) == Becomes(j, n, IF ok THEN s ELSE "refused")

NoDirectory == UNCHANGED <<runRoot, wave>>

-----------------------------------------------------------------------------
(* Preflight, and the inputs of prepare_wave.                              *)

CollectRuntime(j) ==
    /\ At(j, "preflight")
    /\ \E h \in Hosts :
          Becomes(j, [job[j] EXCEPT
             !.runtime = [host |-> h, manifest |-> source["manifest"]]], "config")
    /\ NoDirectory

LoadConfig(j) ==
    /\ At(j, "config")
    /\ Becomes(j, [job[j] EXCEPT !.config = source["config"]], "configAgain")
    /\ NoDirectory

\* _require_deterministic reads the file again.
CheckConfig(j) ==
    /\ At(j, "configAgain")
    /\ Checks(j, job[j], job[j].config = source["config"], "manifest")
    /\ NoDirectory

LoadManifest(j) ==
    /\ At(j, "manifest")
    /\ Becomes(j, [job[j] EXCEPT !.manifest = source["manifest"]], "manifestHash")
    /\ NoDirectory

HashManifest(j) ==
    /\ At(j, "manifestHash")
    /\ Becomes(j, [job[j] EXCEPT !.manifestHash = source["manifest"]], "manifestAgain")
    /\ NoDirectory

\* ... and the runtime environment must have been collected for this manifest.
CheckManifest(j) ==
    /\ At(j, "manifestAgain")
    /\ Checks(j, job[j], /\ job[j].manifest = source["manifest"]
                         /\ job[j].runtime.manifest = job[j].manifestHash, "configHash")
    /\ NoDirectory

HashConfig(j) ==
    /\ At(j, "configHash")
    /\ Becomes(j, [job[j] EXCEPT !.configHash = source["config"]], "look")
    /\ NoDirectory

\* Mutant of Identity: the runtime environment is identified by its host alone.
IdentityOfHost(j) ==
    [config |-> job[j].configHash, manifest |-> job[j].manifestHash,
     runtime |-> job[j].runtime.host]

\* expected_run_metadata, and the same hashes in wave-metadata.json.
Identity(j) ==
    [config |-> job[j].configHash, manifest |-> job[j].manifestHash,
     runtime |-> job[j].runtime]

-----------------------------------------------------------------------------
(* The run directory.                                                      *)

Made == runRoot.owner # Nobody

Look(j) ==
    /\ At(j, "look")
    /\ Becomes(j, job[j], IF Made THEN "validate" ELSE "create")
    /\ NoDirectory

\* Mutants of Matches: the runtime environment is not compared; the hosts that
\* submitted are.
MatchesSources(j) ==
    /\ runRoot.files = 4
    /\ runRoot.says.config = Identity(j).config /\ runRoot.says.manifest = Identity(j).manifest
    /\ runRoot.config = job[j].configHash /\ runRoot.manifest = job[j].manifestHash

MatchesOwner(j) ==
    /\ runRoot.files = 4
    /\ runRoot.says = Identity(j) /\ runRoot.owner = j

\* _validate_existing_campaign: the recorded metadata, then the hashes of the files.
Matches(j) ==
    /\ runRoot.files = 4
    /\ runRoot.says = Identity(j)
    /\ runRoot.config = job[j].configHash
    /\ runRoot.manifest = job[j].manifestHash
    /\ runRoot.runtime = job[j].runtime

Validate(j) ==
    At(j, "validate") /\ Checks(j, job[j], Matches(j), "enter") /\ NoDirectory

MakeRunRoot(j) ==
    /\ At(j, "create")
    /\ Checks(j, job[j], ~Made, "fill")
    /\ \/ Made /\ UNCHANGED runRoot
       \/ /\ ~Made
          /\ runRoot' = [runRoot EXCEPT
                !.owner = j, !.config = job[j].config, !.manifest = job[j].manifest,
                !.runtime = job[j].runtime, !.says = Identity(j)]
    /\ UNCHANGED wave

WriteRunFile(j) ==
    /\ At(j, "fill")
    /\ runRoot' = [runRoot EXCEPT !.files = @ + 1]
    /\ Becomes(j, job[j], IF runRoot.files = 3 THEN "makeWaves" ELSE "fill")
    /\ UNCHANGED wave

MakeWaves(j) ==
    /\ At(j, "makeWaves")
    /\ runRoot' = [runRoot EXCEPT !.waves = TRUE]
    /\ Becomes(j, job[j], "enter")
    /\ UNCHANGED wave

-----------------------------------------------------------------------------
(* The wave directory, and the measurement in it.                          *)

Own(j) == wave[WaveOf[j]]

Taken(j) == Own(j).owner # Nobody

Enter(j) ==
    /\ At(j, "enter")
    /\ Checks(j, job[j], runRoot.waves /\ ~Taken(j), "makeWave")
    /\ NoDirectory

Claims(j) ==
    wave' = [wave EXCEPT ![WaveOf[j]].owner = j, ![WaveOf[j]].says = Identity(j)]

\* Mutant of MakeWave: mkdir with exist_ok.
MakeWaveAnyway(j) ==
    At(j, "makeWave") /\ Becomes(j, job[j], "makeNodes") /\ Claims(j) /\ UNCHANGED runRoot

MakeWave(j) ==
    /\ At(j, "makeWave")
    /\ Checks(j, job[j], ~Taken(j), "makeNodes")
    /\ \/ Taken(j) /\ UNCHANGED wave
       \/ ~Taken(j) /\ Claims(j)
    /\ UNCHANGED runRoot

MakeNodes(j) ==
    /\ At(j, "makeNodes")
    /\ wave' = [wave EXCEPT ![WaveOf[j]].nodes = TRUE]
    /\ Becomes(j, job[j], "describe")
    /\ UNCHANGED runRoot

WriteWaveMetadata(j) ==
    /\ At(j, "describe")
    /\ wave' = [wave EXCEPT ![WaveOf[j]].metadata = TRUE]
    /\ Becomes(j, job[j], "prepared")
    /\ UNCHANGED runRoot

\* Mutant of Measure: with the source config instead of the campaign's.
MeasureSources(j) ==
    /\ At(j, "prepared")
    /\ wave' = [wave EXCEPT ![WaveOf[j]].measured = TRUE,
          ![WaveOf[j]].rows = [config |-> source["config"], manifest |-> runRoot.manifest,
                               runtime |-> job[j].runtime]]
    /\ Becomes(j, job[j], "measuring")
    /\ UNCHANGED runRoot

\* The job script goes on to run_node.sh (PegasusWave): its rows carry the hash of
\* the run directory's config and the runtime environment of the preflight.
Measure(j) ==
    /\ At(j, "prepared")
    /\ wave' = [wave EXCEPT ![WaveOf[j]].measured = TRUE,
          ![WaveOf[j]].rows = [config |-> runRoot.config, manifest |-> runRoot.manifest,
                               runtime |-> job[j].runtime]]
    /\ Becomes(j, job[j], "measuring")
    /\ UNCHANGED runRoot

-----------------------------------------------------------------------------
\* Somebody edits or rebuilds a source file while jobs wait or read.
Edit ==
    /\ edits < Edits /\ edits' = edits + 1
    /\ \E f \in Sources, v \in Versions : source' = [source EXCEPT ![f] = v]
    /\ job' = [j \in Jobs |-> [job[j] EXCEPT !.steady = @ /\ job[j].step \notin Reading]]
    /\ UNCHANGED <<runRoot, wave>>

JobStep(j) ==
    \/ CollectRuntime(j) \/ LoadConfig(j) \/ CheckConfig(j)
    \/ LoadManifest(j) \/ HashManifest(j) \/ CheckManifest(j) \/ HashConfig(j)
    \/ Look(j) \/ Validate(j)
    \/ MakeRunRoot(j) \/ WriteRunFile(j) \/ MakeWaves(j)
    \/ Enter(j) \/ MakeWave(j) \/ MakeNodes(j) \/ WriteWaveMetadata(j) \/ Measure(j)

Next == (\E j \in Jobs : JobStep(j)) \/ Edit

Spec == Init /\ [][Next]_vars

-----------------------------------------------------------------------------
(* Properties.                                                             *)

TypeOK ==
    /\ source \in [Sources -> Versions]
    /\ job \in [Jobs -> JobStates]
    /\ runRoot \in RunRoots
    /\ wave \in [Waves -> WaveRoots]
    /\ edits \in 0 .. Edits

\* Two jobs never write into one directory, however they race for it: who fills the
\* run directory or a wave made it, and nobody else ever will (prepare_wave has
\* no lock; PEGASUS_EXECUTION.md has only the job master create them, exclusively).
OneWriter ==
    \A j \in Jobs :
       /\ job[j].step \in Filling => runRoot.owner = j
       /\ job[j].step \in InWave => Own(j).owner = j

\* All waves of a campaign are of one config, one manifest and one runtime
\* environment, those of run-metadata.json, whatever was edited, killed or
\* raced (_validate_existing_campaign).
OneIdentity ==
    \A w \in Waves :
       wave[w].owner # Nobody => Made /\ wave[w].says = runRoot.says

\* A wave is measured only under complete campaign and wave metadata, and with the
\* config and manifest they name.  The creator of a campaign vouches for what it
\* read; a job that joins finds out what was edited meanwhile.
MeasuredAsRecorded ==
    \A w \in Waves :
       wave[w].measured =>
          /\ runRoot.files = 4
          /\ wave[w].nodes /\ wave[w].metadata
          /\ wave[w].owner # runRoot.owner \/ job[runRoot.owner].steady
                => wave[w].rows = wave[w].says

\* What job j may be refused for: an edit under its eyes, a wave that is taken, a
\* campaign that is not its own or not complete, a lost race for a new campaign.
Refusable(j) ==
    \/ ~job[j].steady
    \/ job[j].runtime.manifest # job[j].manifestHash
    \/ Taken(j)
    \/ Made /\ (runRoot.says # Identity(j) \/ ~runRoot.waves
                   \/ ~job[runRoot.owner].steady \/ At(j, "create"))

\* A job is refused for one of these reasons only (prepare_wave): a complete
\* campaign of its own identity always takes it in.
RefusedForCause ==
    [][\A j \in Jobs : At(j, "refused")' /\ ~At(j, "refused") => Refusable(j)]_vars
=================================================================================
