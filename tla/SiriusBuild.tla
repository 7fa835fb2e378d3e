------------------------------- MODULE SiriusBuild --------------------------------
(***************************************************************************)
(* The build job of the Sirius benchmarks, amd_build.main: one attempt to  *)
(* configure three profiles, to build their targets one by one and to      *)
(* certify those that were built; then, in the production mode, the        *)
(* preparation of the measurement in the same allocation                   *)
(* (amd_prepare.prepare).                                                  *)
(*                                                                         *)
(* Whatever the job reads can be replaced while it runs: the source tree,  *)
(* the CPU and GPU libraries, the files of a configured profile and its    *)
(* binaries.  disk holds their present versions; job holds what the        *)
(* process has recorded of them.  A replaced file is never put back: no    *)
(* hash could tell.                                                        *)
(***************************************************************************)
EXTENDS Integers, Sequences, Functions, FiniteSets

CONSTANTS Order,     \* targets of a profile, [library, role], in order of name
          Faults     \* bound: failed commands, replaced files, refused checks

\* slots: with --clean-benchmarks only the benchmarks are built.
Slots(clean) == {t \in Range(Order) : clean => t.role = "benchmark"}
Profiles == <<"cpu", "hip", "openmp">>
ProfileSet == Range(Profiles)
Libraries == {t.library : t \in Range(Order)}

ASSUME BuildAssumption ==
    /\ Order \in Seq([library : {"rocblas", "rocthrust"}, role : {"example", "benchmark"}])
    /\ Faults \in Nat

VARIABLES
    disk,      \* versions of the inputs now
    late,      \* the deadline that has passed: none, profile or job
    job,       \* the process
    rows,      \* profile -> target -> the row of job.slots
    madeFrom,  \* profile -> target -> the source its binary was built from (history)
    faults     \* faults so far

vars == <<disk, late, job, rows, madeFrom, faults>>

Versions == 0 .. 2 * Faults + 1   \* a replaced source is neither 0 nor 1
Disk == [source : Versions, libs : [{"cpu", "gpu"} -> Versions],
         tree : [ProfileSet -> Versions], binaries : [ProfileSet -> Versions]]
LibsOf(p) == IF p = "cpu" THEN "cpu" ELSE "gpu"

Compiles == {"NOT_ATTEMPTED", "SUCCEEDED", "FAILED", "TIMED_OUT"}
Stages == {"none", "CONFIGURE", "PROFILE_PROVENANCE", "BUILD_BUDGET", "SHARED_DEPENDENCY",
           "COMPILE_LINK", "COMPILE_LINK_TIMEOUT", "MANIFEST_PENDING", "MANIFEST_GENERATION",
           "ARTIFACT_VERIFICATION", "FINAL_PROVENANCE"}
Row == [status : {"NOT_ATTEMPTED", "BUILT", "FAILED", "NOT_BUILT_DEPENDENCY"},
        compile : Compiles, stage : Stages]
Unbuilt == [status |-> "NOT_ATTEMPTED", compile |-> "NOT_ATTEMPTED", stage |-> "none"]

Dependencies == {"gpu_suite_common", "rocthrust_openmp_wrapper"}
Untried == [d \in Dependencies |-> "untried"]
SharedBy(p, t) ==
    (IF t.role = "benchmark" THEN <<"gpu_suite_common">> ELSE <<>>)
    \o (IF p = "openmp" /\ t.library = "rocthrust" THEN <<"rocthrust_openmp_wrapper">>
        ELSE <<>>)

\* What the manifest of a profile names; none is written yet, or ever.
None == [libs |-> -1, binaries |-> -1]
Manifests == [libs : Versions \cup {-1}, binaries : Versions \cup {-1}]

\* Where the process is: in execute (build_profile: target, verify), in main, in
\* amd_prepare.prepare.
Places == {"start", "setup", "profile", "configure", "target", "verify", "combine",
           "finally", "demote", "freeze", "place", "collect", "recheck", "ended"}
Jobs == [at : Places, clean : BOOLEAN, error : BOOLEAN,
         next : 1 .. Len(Profiles) + 1,       \* the profile, and the targets left of it
         todo : SUBSET Slots(FALSE),
         shared : [ProfileSet -> [Dependencies -> {"untried"} \cup Compiles]],
         broken : SUBSET ProfileSet,          \* ended by AttemptBreaks (history)
         before : Versions,                   \* the source as it was at the start
         aocl : [status : {"off", "selected", "rejected"}, libs : Versions],
         pinned : Versions, libs : Versions,  \* of the profile, when it was configured
         manifest : Manifests,                \* generated for the profile
         certified : [ProfileSet -> Manifests],
         runtime : Disk,                      \* what collect_runtime has seen
         summary : {"none", "BUILT", "INCOMPLETE", "FAILED", "PREPARED",
                    "PREPARATION_FAILED"}]

Init ==
    /\ disk \in {[source |-> v, libs |-> [k \in {"cpu", "gpu"} |-> 0],
                  tree |-> [p \in ProfileSet |-> 0],
                  binaries |-> [p \in ProfileSet |-> 0]] : v \in {0, 1}}
    /\ late = "none"
    /\ job \in {[at |-> "start", clean |-> c, error |-> FALSE, next |-> 1, todo |-> {},
                 shared |-> [p \in ProfileSet |-> Untried], broken |-> {}, before |-> 0,
                 aocl |-> [status |-> "off", libs |-> 0], pinned |-> 0, libs |-> 0,
                 manifest |-> None, certified |-> [p \in ProfileSet |-> None],
                 runtime |-> disk, summary |-> "none"] : c \in BOOLEAN}
    /\ rows = [p \in ProfileSet |-> [t \in Slots(job.clean) |-> Unbuilt]]
    /\ madeFrom = [p \in ProfileSet |-> [t \in Slots(job.clean) |-> 0]]
    /\ faults = 0

Approved == 0                      \* --expected-source-sha256
Targets == Slots(job.clean)
Profile == Profiles[job.next]
At(s) == job.at = s
Fault == faults < Faults /\ faults' = faults + 1
Goes(j, s) == job' = [j EXCEPT !.at = s]

\* Build.run: a command is not started after the deadline; one that is started
\* succeeds, fails, is stopped at its time limit, or cannot be launched.
Command(result) ==
    \/ late = "none" /\ result = "SUCCEEDED" /\ UNCHANGED faults
    \/ late = "none" /\ result # "SUCCEEDED" /\ Fault
    \/ late # "none" /\ result = "NOT_ATTEMPTED" /\ UNCHANGED faults
Runs == Command("SUCCEEDED")
Fails == \E result \in Compiles \ {"SUCCEEDED"} : Command(result)
\* A file that cannot be written, a check of what the model leaves out.
Refused == Fault

\* An exception that leaves execute's try: the finally clause is next.
Aborts == Goes([job EXCEPT !.error = TRUE], "finally") /\ UNCHANGED <<disk, late, rows, madeFrom>>

-----------------------------------------------------------------------------
(* execute, up to the profiles.                                            *)

\* source_evidence before anything else: only the approved source is built.
TakeEvidence ==
    /\ At("start") /\ Runs
    /\ Goes([job EXCEPT !.before = disk.source, !.error = disk.source # Approved],
            IF disk.source = Approved THEN "setup" ELSE "demote")
    /\ UNCHANGED <<disk, late, rows, madeFrom>>

EvidenceFails ==
    /\ At("start") /\ Fails
    /\ Goes([job EXCEPT !.error = TRUE], "demote")
    /\ UNCHANGED <<disk, late, rows, madeFrom>>

\* The preflight of the allocation, the selection of AOCL's libraries (asked for
\* or not; exactly one candidate of each kind, or none is), tools and inventories.
SetUp ==
    /\ At("setup") /\ Runs
    /\ \E s \in {"off", "selected", "rejected"} :
          Goes([job EXCEPT !.aocl = [status |-> s, libs |-> disk.libs["cpu"]]], "profile")
    /\ UNCHANGED <<disk, late, rows, madeFrom>>

SetUpFails ==
    /\ At("setup") /\ Aborts
    /\ \/ Fails
       \/ Refused

-----------------------------------------------------------------------------
(* execute, the profiles.                                                  *)

\* The deadline of the job ends the loop; a changed source ends the job.
StartProfile ==
    /\ At("profile") /\ job.next <= Len(Profiles)
    /\ IF late = "job" THEN Goes(job, "combine")
       ELSE /\ disk.source = job.before
            /\ Goes(job, "configure")
    /\ UNCHANGED <<disk, late, rows, madeFrom, faults>>

SourceChanged ==
    /\ At("profile") /\ job.next <= Len(Profiles) /\ late = "none"
    /\ \/ disk.source # job.before /\ UNCHANGED faults
       \/ Fails
    /\ Aborts

\* validate_aocl_selection: neither replaced nor, if rejected, enabled.
SelectionHolds(libraries) ==
    /\ job.aocl.status = "selected" => disk.libs["cpu"] = job.aocl.libs
    /\ job.aocl.status = "rejected" => "rocblas" \notin libraries

\* profile_targets: CMake enables both targets of a library or says why neither.
Configure ==
    /\ At("configure") /\ Runs
    /\ \E libraries \in SUBSET Libraries :
          LET names == {t \in Targets : t.library \in libraries}
              j == [job EXCEPT !.todo = names, !.pinned = disk.tree[Profile],
                               !.libs = disk.libs[LibsOf(Profile)]]
          IN  /\ Profile = "cpu" => SelectionHolds(libraries)
              /\ rows' = [rows EXCEPT ![Profile] = [t \in Targets |->
                    IF t.library \in libraries THEN Unbuilt
                    ELSE [Unbuilt EXCEPT !.status = "NOT_BUILT_DEPENDENCY"]]]
              /\ IF names = {} THEN Goes([job EXCEPT !.next = @ + 1], "profile")
                                 ELSE Goes(j, "target")
    /\ UNCHANGED <<disk, late, madeFrom>>

ConfigureFails ==
    /\ At("configure")
    /\ \E disabled \in SUBSET Libraries :
          /\ \/ disabled = {} /\ Fails
             \/ Refused
             \/ /\ Profile = "cpu" /\ ~SelectionHolds(Libraries \ disabled)
                /\ UNCHANGED faults
          /\ rows' = [rows EXCEPT ![Profile] = [t \in Targets |->
                IF t.library \in disabled
                THEN [Unbuilt EXCEPT !.status = "NOT_BUILT_DEPENDENCY"]
                ELSE [Unbuilt EXCEPT !.status = "FAILED", !.stage = "CONFIGURE"]]]
    /\ Goes([job EXCEPT !.next = @ + 1], "profile")
    /\ UNCHANGED <<disk, late, madeFrom>>

-----------------------------------------------------------------------------
(* build_profile.                                                          *)

\* names is sorted: the next target is the first of those left.
IsNext(t) ==
    /\ t \in job.todo
    /\ \E i \in DOMAIN Order : t = Order[i] /\ \A k \in 1 .. i - 1 : Order[k] \notin job.todo
Unchanged == disk.tree[Profile] = job.pinned
RowBecomes(t, row) == rows' = [rows EXCEPT ![Profile][t] = row]
Compiled == {t \in Targets : rows[Profile][t].compile = "SUCCEEDED"}

\* A dependency of the target that is not there: the first of its list.
Missing(t, d) ==
    LET needs == SharedBy(Profile, t)
        there(i) == job.shared[Profile][needs[i]] = "SUCCEEDED"
    IN  \E i \in DOMAIN needs : d = needs[i] /\ ~there(i) /\ \A k \in 1 .. i - 1 : there(k)
Ready(t) == \A d \in Range(SharedBy(Profile, t)) : job.shared[Profile][d] = "SUCCEEDED"

\* Mutant of Leaves: the profile's expired deadline outlives it.
LeavesLate(j) ==
    /\ Goes([j EXCEPT !.next = @ + 1, !.todo = {}], "profile")
    /\ late' = late

\* The budget of a profile ends with it, the job's does not.
Leaves(j) ==
    /\ Goes([j EXCEPT !.next = @ + 1, !.todo = {}, !.pinned = 0, !.libs = 0,
                      !.manifest = None], "profile")
    /\ late' = IF late = "job" THEN late ELSE "none"

\* The except clause: what was compiled has failed after all, at this stage.
ProfileStops(j, r, phase) ==
    /\ rows' = [rows EXCEPT ![Profile] = [t \in Targets |->
          IF r[t].compile = "SUCCEEDED"
          THEN [r[t] EXCEPT !.status = "FAILED", !.stage = phase]
          ELSE IF r[t].status = "NOT_ATTEMPTED" /\ r[t].stage = "none"
                  /\ t \in job.todo
          THEN [r[t] EXCEPT !.stage = "PROFILE_PROVENANCE"] ELSE r[t]]]
    /\ Leaves(j)

\* attempt catches what Build.run makes of a failed command, and nothing else: a log
\* that cannot be hashed or is no text, a record that cannot be written, end the
\* profile.  What was attempted is then recorded nowhere.
AttemptBreaks ==
    /\ late = "none" /\ Fault
    /\ ProfileStops([job EXCEPT !.broken = @ \cup {Profile}], rows[Profile],
                    "PROFILE_PROVENANCE")

\* Each shared dependency is attempted once for the profile.
TryDependency ==
    /\ At("target")
    /\ \E t \in job.todo, d \in Dependencies :
          /\ IsNext(t) /\ Missing(t, d) /\ job.shared[Profile][d] = "untried"
          /\ \/ \E result \in Compiles :
                   LET j == [job EXCEPT !.shared[Profile][d] = result]
                   IN  /\ Command(result)
                       /\ IF Unchanged THEN Goes(j, "target") /\ UNCHANGED <<rows, late>>
                          ELSE ProfileStops(j, rows[Profile], "PROFILE_PROVENANCE")
             \/ AttemptBreaks
    /\ UNCHANGED <<disk, madeFrom>>

BlockTarget ==
    /\ At("target")
    /\ \E t \in job.todo, d \in Dependencies :
          /\ IsNext(t) /\ Missing(t, d) /\ job.shared[Profile][d] # "untried"
          /\ RowBecomes(t, [rows[Profile][t] EXCEPT !.stage =
                IF job.shared[Profile][d] = "NOT_ATTEMPTED" THEN "BUILD_BUDGET"
                                                            ELSE "SHARED_DEPENDENCY"])
          /\ Goes([job EXCEPT !.todo = @ \ {t}], "target")
    /\ UNCHANGED <<disk, late, madeFrom, faults>>

\* A target is attempted once; what it leaves is not yet BUILT.
Attempted(result) ==
    [status |-> IF result = "NOT_ATTEMPTED" THEN result ELSE "FAILED", compile |-> result,
     stage |-> IF result = "SUCCEEDED" THEN "MANIFEST_PENDING"
               ELSE IF result = "TIMED_OUT" THEN "COMPILE_LINK_TIMEOUT"
               ELSE IF late # "none" THEN "BUILD_BUDGET" ELSE "COMPILE_LINK"]

\* Mutant of TryTarget: the first failed target ends its profile.
TryTargetOrStop ==
    /\ At("target")
    /\ \E t \in job.todo :
          /\ IsNext(t) /\ Ready(t)
          /\ \/ \E result \in Compiles :
                   /\ Command(result)
                   /\ IF Unchanged
                      THEN /\ RowBecomes(t, Attempted(result)) /\ UNCHANGED late
                           /\ Goes([job EXCEPT !.todo =
                                  IF result = "SUCCEEDED" THEN @ \ {t} ELSE {}], "target")
                      ELSE ProfileStops(job, [rows[Profile] EXCEPT ![t] = Attempted(result)],
                                        "PROFILE_PROVENANCE")
             \/ AttemptBreaks
          /\ madeFrom' = [madeFrom EXCEPT ![Profile][t] = disk.source]
    /\ UNCHANGED disk

TryTarget ==
    /\ At("target")
    /\ \E t \in job.todo :
          /\ IsNext(t) /\ Ready(t)
          /\ \/ \E result \in Compiles :
                   /\ Command(result)
                   /\ IF Unchanged
                      THEN /\ RowBecomes(t, Attempted(result)) /\ UNCHANGED late
                           /\ Goes([job EXCEPT !.todo = @ \ {t}], "target")
                      ELSE ProfileStops(job, [rows[Profile] EXCEPT ![t] = Attempted(result)],
                                        "PROFILE_PROVENANCE")
             \/ AttemptBreaks
          /\ madeFrom' = [madeFrom EXCEPT ![Profile][t] = disk.source]
    /\ UNCHANGED disk

\* The generator describes what was compiled; nothing compiled, nothing to do.
Generate ==
    /\ At("target") /\ job.todo = {}
    /\ \/ Compiled = {} /\ Leaves(job) /\ UNCHANGED <<rows, faults>>
       \/ /\ Compiled # {} /\ Unchanged /\ Runs
          /\ Goes([job EXCEPT !.manifest = [libs |-> job.libs,
                                            binaries |-> disk.binaries[Profile]]], "verify")
          /\ UNCHANGED <<rows, late>>
    /\ UNCHANGED <<disk, madeFrom>>

GenerateFails ==
    /\ At("target") /\ job.todo = {} /\ Compiled # {}
    /\ \/ ~Unchanged /\ UNCHANGED faults /\ ProfileStops(job, rows[Profile], "PROFILE_PROVENANCE")
       \/ /\ Unchanged /\ ProfileStops(job, rows[Profile], "MANIFEST_GENERATION")
          /\ \/ Fails
             \/ Refused
    /\ UNCHANGED <<disk, madeFrom>>

\* verify_artifacts: the manifest's binaries and the libraries of the configuration.
Verified(p, c) ==
    /\ disk.binaries[p] = c.binaries /\ disk.libs[LibsOf(p)] = c.libs
    /\ (p = "cpu" /\ job.aocl.status = "selected") => disk.libs["cpu"] = job.aocl.libs

MayCertify == late = "none" /\ Unchanged /\ Verified(Profile, job.manifest)

Certify ==
    /\ At("verify") /\ MayCertify
    /\ rows' = [rows EXCEPT ![Profile] = [t \in Targets |->
          IF t \in Compiled
          THEN [rows[Profile][t] EXCEPT !.status = "BUILT", !.stage = "none"]
          ELSE rows[Profile][t]]]
    /\ Leaves([job EXCEPT !.certified[Profile] = job.manifest])
    /\ UNCHANGED <<disk, madeFrom, faults>>

CertifyFails ==
    /\ At("verify")
    /\ \/ ~MayCertify /\ UNCHANGED faults
       \/ Refused
    /\ ProfileStops(job, rows[Profile],
                    IF Unchanged THEN "ARTIFACT_VERIFICATION" ELSE "PROFILE_PROVENANCE")
    /\ UNCHANGED <<disk, madeFrom>>

-----------------------------------------------------------------------------
(* execute after the profiles, and main.                                   *)

Certified == {p \in ProfileSet : job.certified[p] # None}

\* validate_manifest_artifacts over all profiles: the binaries and the libraries
\* are still those recorded, and both GPU profiles name the same.
ArtifactsIntact ==
    /\ \A p \in Certified : disk.binaries[p] = job.certified[p].binaries
                            /\ disk.libs[LibsOf(p)] = job.certified[p].libs
    /\ {"hip", "openmp"} \subseteq Certified =>
          job.certified["hip"].libs = job.certified["openmp"].libs

Combine ==
    /\ \/ At("combine")
       \/ At("profile") /\ job.next > Len(Profiles)
    /\ Goes([job EXCEPT !.error = ~ArtifactsIntact], "finally")
    /\ UNCHANGED <<disk, late, rows, madeFrom, faults>>

\* Mutant of Conclude: the final source evidence is saved and not compared.
ConcludeUncompared ==
    /\ At("finally")
    /\ \/ Runs /\ Goes(job, "demote")
       \/ Fails /\ Goes([job EXCEPT !.error = TRUE], "demote")
    /\ UNCHANGED <<disk, late, rows, madeFrom>>

\* The finally clause: without the evidence that the source is what it was, the
\* deadline included, nothing stays BUILT.
Conclude ==
    /\ At("finally")
    /\ \/ Runs /\ Goes([job EXCEPT !.error = @ \/ disk.source # job.before], "demote")
       \/ Fails /\ Goes([job EXCEPT !.error = TRUE], "demote")
    /\ UNCHANGED <<disk, late, rows, madeFrom>>

Statuses(r) == {r[p][t].status : p \in ProfileSet, t \in Targets}
BuildStatus(r, error) ==
    IF error THEN "FAILED" ELSE IF Statuses(r) = {"BUILT"} THEN "BUILT"
    ELSE IF Statuses(r) \subseteq {"BUILT", "NOT_BUILT_DEPENDENCY"} THEN "INCOMPLETE"
    ELSE "FAILED"

\* main's except clause and the status of the build.
Demote ==
    /\ At("demote")
    /\ rows' = IF ~job.error THEN rows ELSE
          [p \in ProfileSet |-> [t \in Targets |->
              IF rows[p][t].status # "BUILT" THEN rows[p][t]
              ELSE [rows[p][t] EXCEPT !.status = "FAILED", !.stage = "FINAL_PROVENANCE"]]]
    /\ LET s == BuildStatus(rows', job.error)
       IN  Goes([job EXCEPT !.summary = s],
                IF job.clean /\ s = "BUILT" THEN "freeze" ELSE "ended")
    /\ UNCHANGED <<disk, late, madeFrom, faults>>

-----------------------------------------------------------------------------
(* amd_prepare.prepare.                                                    *)

\* freeze_inputs: the manifest of all binaries, validated by artifact_inputs.
Freeze ==
    /\ At("freeze") /\ ArtifactsIntact
    /\ Goes(job, "place")
    /\ UNCHANGED <<disk, late, rows, madeFrom, faults>>

\* The APU helper is compiled, and run once under MPI to prove the placement.
ProvePlacement ==
    /\ At("place") /\ Runs
    /\ Goes(job, "collect")
    /\ UNCHANGED <<disk, late, rows, madeFrom>>

\* collect_runtime hashes the inputs, resolves the libraries of every binary and
\* hashes the inputs again before it writes runtime-environment.json.
Collect ==
    /\ At("collect") /\ Runs /\ ArtifactsIntact
    /\ Goes([job EXCEPT !.runtime = disk], "recheck")
    /\ UNCHANGED <<disk, late, rows, madeFrom>>

\* Mutant of Prepared: the source is not looked at again.
PreparedUnchecked ==
    /\ At("recheck") /\ Runs
    /\ Goes([job EXCEPT !.summary = "PREPARED"], "ended")
    /\ UNCHANGED <<disk, late, rows, madeFrom>>

Prepared ==
    /\ At("recheck") /\ Runs /\ disk.source = Approved
    /\ Goes([job EXCEPT !.summary = "PREPARED"], "ended")
    /\ UNCHANGED <<disk, late, rows, madeFrom>>

PreparationFails ==
    /\ job.at \in {"freeze", "place", "collect", "recheck"}
    /\ \/ At("freeze") /\ Refused
       \/ ~At("freeze") /\ Fails
       \/ job.at \in {"freeze", "collect"} /\ ~ArtifactsIntact /\ UNCHANGED faults
       \/ At("recheck") /\ disk.source # Approved /\ UNCHANGED faults
    /\ Goes([job EXCEPT !.summary = "PREPARATION_FAILED"], "ended")
    /\ UNCHANGED <<disk, late, rows, madeFrom>>

-----------------------------------------------------------------------------
(* Deadlines and replacements.                                             *)

\* The time of a profile's build, or of the whole job, is up.
Deadline ==
    /\ ~At("ended") /\ Fault
    /\ \/ late # "job" /\ late' = "job"
       \/ late = "none" /\ job.at \in {"target", "verify"} /\ late' = "profile"
    /\ UNCHANGED <<disk, job, rows, madeFrom>>

\* Only what is still to be read: a profile's files while it is built, its
\* binaries once the manifest names them.
Replace ==
    /\ ~At("ended") /\ Fault
    /\ \/ disk' = [disk EXCEPT !.source = @ + 2]
       \/ \E k \in {"cpu", "gpu"} : disk' = [disk EXCEPT !.libs[k] = @ + 1]
       \/ job.at \in {"target", "verify"} /\ disk' = [disk EXCEPT !.tree[Profile] = @ + 1]
       \/ \E p \in ProfileSet :
             /\ \/ p \in Certified
                \/ At("verify") /\ p = Profile
             /\ disk' = [disk EXCEPT !.binaries[p] = @ + 1]
    /\ UNCHANGED <<late, job, rows, madeFrom>>

Next ==
    \/ TakeEvidence \/ EvidenceFails \/ SetUp \/ SetUpFails \/ StartProfile \/ SourceChanged
    \/ Configure \/ ConfigureFails \/ TryDependency \/ BlockTarget \/ TryTarget
    \/ Generate \/ GenerateFails \/ Certify \/ CertifyFails \/ Combine \/ Conclude \/ Demote
    \/ Freeze \/ ProvePlacement \/ Collect \/ Prepared \/ PreparationFails
    \/ Deadline \/ Replace

Spec == Init /\ [][Next]_vars

-----------------------------------------------------------------------------
(* Properties.                                                             *)

\* Every variable keeps the shape the code gives it.
TypeOK ==
    /\ disk \in Disk /\ job \in Jobs /\ job.todo \subseteq Targets
    /\ late \in {"none", "profile", "job"} /\ faults \in 0 .. Faults
    /\ (late = "profile" => job.at \in {"target", "verify"})
    /\ rows \in [ProfileSet -> [Targets -> Row]]
    /\ madeFrom \in [ProfileSet -> [Targets -> Versions]]

Built == {x \in ProfileSet \X Targets : rows[x[1]][x[2]].status = "BUILT"}

\* A library whose AOCL provider was asked for and rejected is never built with
\* another provider in its place, and one whose provider was selected only with
\* the files that were selected.
NoSubstitute ==
    \A t \in Targets :
        rows["cpu"][t].status = "BUILT" =>
            /\ (job.aocl.status = "rejected" => t.library # "rocblas")
            /\ (job.aocl.status = "selected" => job.certified["cpu"].libs = job.aocl.libs)

\* What the summary leaves BUILT was compiled from the approved source, all of it
\* from one set of GPU libraries, and its profile was certified; a failure that is
\* noticed after the certificate takes BUILT back from every row.  And no AOCL
\* library is substituted, at any moment.
BuiltIsCertified ==
    /\ NoSubstitute
    /\ At("ended") =>
        /\ job.summary \in {"BUILT", "PREPARED"} => Built = ProfileSet \X Targets
        /\ \A x \in Built :
              /\ madeFrom[x[1]][x[2]] = Approved /\ ~job.error
              /\ job.certified[x[1]] # None
        /\ \A x, y \in Built : LibsOf(x[1]) = LibsOf(y[1]) =>
              job.certified[x[1]].libs = job.certified[y[1]].libs

\* A target that failed costs no other target: one that was left unattempted was
\* late or could not be launched, needs a dependency that was attempted and did not
\* build, or belongs to a profile that ended early, and its row says which: a changed
\* configuration or an exception that attempt does not catch ends a profile, a failed
\* command never does.
NothingSkipped ==
    At("ended") /\ ~job.error =>
        \A p \in ProfileSet, t \in Targets :
            rows[p][t].status = "NOT_ATTEMPTED" =>
                \/ rows[p][t].stage \in {"BUILD_BUDGET", "COMPILE_LINK"}
                \/ /\ rows[p][t].stage = "SHARED_DEPENDENCY"
                   /\ \E d \in Range(SharedBy(p, t)) :
                         job.shared[p][d] \in {"FAILED", "TIMED_OUT"}
                \/ /\ rows[p][t].stage = "PROFILE_PROVENANCE"
                   /\ disk.tree[p] # 0 \/ p \in job.broken

\* A prepared job hands the measurement the binaries it certified, resolved against
\* the libraries they were built with, from the approved source.
PreparedIsBuilt ==
    job.summary = "PREPARED" =>
        /\ disk.source = Approved
        /\ \A p \in ProfileSet :
              /\ job.certified[p].binaries = job.runtime.binaries[p]
              /\ job.certified[p].libs = job.runtime.libs[LibsOf(p)]
              /\ \A t \in Targets : madeFrom[p][t] = Approved
=================================================================================
