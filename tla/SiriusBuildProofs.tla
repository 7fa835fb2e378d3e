----------------------------- MODULE SiriusBuildProofs ------------------------------
(***************************************************************************)
(* Proofs about SiriusBuild, for any targets and any number of faults: the *)
(* types; what BUILT and PREPARED stand for; that no target is skipped     *)
(* without a reason.                                                       *)
(***************************************************************************)
EXTENDS SiriusBuild, TLAPS

Working == {"start", "setup", "profile", "configure", "target", "verify", "combine"}
Preparing == {"freeze", "place", "collect", "recheck"}
Concluded == {"demote", "ended"} \cup Preparing

\* A replaced file is counted.
Counted ==
    /\ disk.source <= 2 * faults + 1
    /\ \A k \in {"cpu", "gpu"} : disk.libs[k] <= faults
    /\ \A p \in ProfileSet : disk.tree[p] <= faults /\ disk.binaries[p] <= faults

\* Only the approved source is built, and versions only grow: if it is the approved
\* one at the end, everything was made from it.
Sourced ==
    /\ job.at \in Working => ~job.error
    /\ ~job.error => job.before = Approved
    /\ \A p \in ProfileSet, t \in Targets : madeFrom[p][t] <= disk.source
    /\ job.at \in Concluded /\ ~job.error =>
           \A p \in ProfileSet, t \in Targets : madeFrom[p][t] = Approved

\* Where there is a profile at hand, and targets left.
AtHand ==
    /\ job.at \in {"configure", "target", "verify"} => job.next \in DOMAIN Profiles
    /\ job.at # "target" => job.todo = {}
    /\ job.at \in {"start", "setup"} => \A p \in ProfileSet, t \in Targets : rows[p][t] = Unbuilt

\* BUILT comes with a certificate and after a compilation.
BuiltMeans ==
    /\ job.at = "verify" => job.manifest # None
    /\ \A p \in ProfileSet, t \in Targets : rows[p][t].status = "BUILT" =>
           job.certified[p] # None /\ rows[p][t].compile = "SUCCEEDED"

\* A rejected provider's library is never compiled for the CPU, nor left to be.
Selected ==
    /\ job.aocl.status = "rejected" => \A t \in Targets : t.library = "rocblas" =>
           /\ rows["cpu"][t].compile = "NOT_ATTEMPTED"
           /\ job.next = 1 => t \notin job.todo
    /\ job.aocl.status = "selected" => \A t \in Targets : rows["cpu"][t].status = "BUILT" =>
           job.certified["cpu"].libs = job.aocl.libs

SameLibraries ==
    job.certified["hip"] # None /\ job.certified["openmp"] # None =>
        job.certified["hip"].libs = job.certified["openmp"].libs

\* Why a target of a profile may be left unattempted, with that row and what the
\* process j has noted.
Justified(row, p, t, j) ==
    row.status = "NOT_ATTEMPTED" =>
        \/ row.stage \in {"BUILD_BUDGET", "COMPILE_LINK"}
        \/ /\ row.stage = "SHARED_DEPENDENCY"
           /\ \E d \in Range(SharedBy(p, t)) : j.shared[p][d] \in {"FAILED", "TIMED_OUT"}
        \/ row.stage = "PROFILE_PROVENANCE" /\ (disk.tree[p] # 0 \/ p \in j.broken)

Explained(p, t) == Justified(rows[p][t], p, t, job)

\* Every target of a profile that was left, and each visited one of the profile at
\* hand, has its reason; the others have none yet.
Visited ==
    /\ \A i \in DOMAIN Profiles, t \in Targets : i < job.next => Explained(Profiles[i], t)
    /\ job.at \in {"target", "verify"} =>
           /\ job.pinned <= disk.tree[Profile]
           /\ \A t \in Targets \ job.todo : Explained(Profile, t)
           /\ \A t \in job.todo : rows[Profile][t].stage = "none"

\* Without an error all profiles were visited, or the job was late.
Ends ==
    /\ job.at = "combine" => late = "job"
    /\ job.at = "finally" /\ ~job.error => job.next = 4 \/ late = "job"
    /\ job.at \in Concluded /\ ~job.error => job.next = 4
    /\ job.at \in {"finally"} \cup Concluded /\ ~job.error => SameLibraries

AllBuilt == Targets # {} /\ \A p \in ProfileSet, t \in Targets : rows[p][t].status = "BUILT"

\* What the summary says, and what the preparation has seen.
Summarised ==
    /\ job.at \in Preparing => job.summary = "BUILT"
    /\ job.summary \in {"BUILT", "PREPARED"} =>
           job.at \in {"ended"} \cup Preparing /\ ~job.error /\ AllBuilt
    /\ job.at = "ended" /\ job.error =>
           \A p \in ProfileSet, t \in Targets : rows[p][t].status # "BUILT"
    /\ job.summary = "PREPARED" => job.at = "ended" /\ disk.source = Approved
    /\ job.at = "recheck" \/ job.summary = "PREPARED" => \A p \in ProfileSet :
           /\ job.certified[p].binaries = job.runtime.binaries[p]
           /\ job.certified[p].libs = job.runtime.libs[LibsOf(p)]

IInv ==
    /\ TypeOK /\ Counted /\ Sourced /\ AtHand /\ BuiltMeans /\ Selected
    /\ Visited /\ Ends /\ Summarised

-----------------------------------------------------------------------------
(* How the process moves.                                                  *)

\* The fields of the process that only a profile's build changes.
SameBuild(j, k) ==
    /\ k.next = j.next /\ k.todo = j.todo /\ k.shared = j.shared /\ k.broken = j.broken
    /\ k.pinned = j.pinned /\ k.libs = j.libs /\ k.manifest = j.manifest
    /\ k.certified = j.certified

\* Those that are set once, before it and after it.
SameFrame(j, k) ==
    /\ k.clean = j.clean /\ k.before = j.before /\ k.aocl = j.aocl
    /\ k.runtime = j.runtime /\ k.summary = j.summary

\* What the process is made of.
LEMMA JobDomain ==
    ASSUME NEW j \in Jobs
    PROVE  DOMAIN j = {"at", "clean", "error", "next", "todo", "shared", "broken", "before",
                       "aocl", "pinned", "libs", "manifest", "certified", "runtime", "summary"}
BY DEF Jobs

\* A process that goes somewhere is as it was, but for where it is.
LEMMA Moved ==
    ASSUME NEW j \in Jobs, NEW s \in Places, Goes(j, s)
    PROVE  /\ job' \in Jobs /\ job'.at = s /\ job'.error = j.error
           /\ SameBuild(j, job') /\ SameFrame(j, job')
<1>1. job' = [j EXCEPT !.at = s]
  BY DEF Goes
<1>2. [j EXCEPT !.at = s] \in Jobs
  BY DEF Jobs
<1> QED BY <1>1, <1>2, JobDomain DEF SameBuild, SameFrame

\* The error that is noted changes nothing else.
LEMMA WithError ==
    ASSUME NEW j \in Jobs, NEW e \in BOOLEAN
    PROVE  LET k == [j EXCEPT !.error = e]
           IN  k \in Jobs /\ k.error = e /\ k.at = j.at /\ SameBuild(j, k) /\ SameFrame(j, k)
<1>1. [j EXCEPT !.error = e] \in Jobs
  BY DEF Jobs
<1> QED BY <1>1, JobDomain DEF SameBuild, SameFrame

\* The source evidence, with the error it may be.
LEMMA WithEvidence ==
    ASSUME NEW j \in Jobs, NEW v \in Versions, NEW e \in BOOLEAN
    PROVE  LET k == [j EXCEPT !.before = v, !.error = e]
           IN  /\ k \in Jobs /\ k.error = e /\ k.before = v /\ SameBuild(j, k)
               /\ k.clean = j.clean /\ k.aocl = j.aocl /\ k.runtime = j.runtime
               /\ k.summary = j.summary
<1> DEFINE i == [j EXCEPT !.before = v]
<1>1. i \in Jobs /\ i.before = v /\ SameBuild(j, i) /\ i.clean = j.clean
      /\ i.aocl = j.aocl /\ i.runtime = j.runtime /\ i.summary = j.summary
  BY JobDomain DEF Jobs, SameBuild
<1>2. [j EXCEPT !.before = v, !.error = e] = [i EXCEPT !.error = e]
  OBVIOUS
<1> HIDE DEF i
<1> QED BY <1>1, <1>2, WithError DEF SameBuild, SameFrame

\* The selection of the providers.
LEMMA WithSelection ==
    ASSUME NEW j \in Jobs, NEW s \in {"off", "selected", "rejected"}, NEW v \in Versions
    PROVE  LET k == [j EXCEPT !.aocl = [status |-> s, libs |-> v]]
           IN  /\ k \in Jobs /\ k.error = j.error /\ k.before = j.before /\ SameBuild(j, k)
               /\ k.clean = j.clean /\ k.summary = j.summary
BY JobDomain DEF Jobs, SameBuild

\* The summary.
LEMMA WithSummary ==
    ASSUME NEW j \in Jobs, NEW s \in {"BUILT", "INCOMPLETE", "FAILED", "PREPARED",
                                      "PREPARATION_FAILED"}
    PROVE  LET k == [j EXCEPT !.summary = s]
           IN  /\ k \in Jobs /\ k.error = j.error /\ k.before = j.before /\ SameBuild(j, k)
               /\ k.clean = j.clean /\ k.summary = s /\ k.aocl = j.aocl
               /\ k.runtime = j.runtime
BY JobDomain DEF Jobs, SameBuild

\* What the runtime environment has seen.
LEMMA WithRuntime ==
    ASSUME NEW j \in Jobs, NEW d \in Disk
    PROVE  LET k == [j EXCEPT !.runtime = d]
           IN  /\ k \in Jobs /\ k.error = j.error /\ k.before = j.before /\ SameBuild(j, k)
               /\ k.clean = j.clean /\ k.summary = j.summary /\ k.aocl = j.aocl
               /\ k.runtime = d
BY JobDomain DEF Jobs, SameBuild

\* Faults are counted up to their bound.
LEMMA FaultsCount ==
    ASSUME TypeOK
    PROVE  /\ Fault \/ UNCHANGED faults \/ (\E result \in Compiles : Command(result))
                 => faults' \in 0 .. Faults /\ faults <= faults' /\ faults' \in Nat
           /\ Runs => late = "none"
           /\ \A result \in Compiles \ {"SUCCEEDED"} : Command(result) => late # "none" \/ Fault
BY BuildAssumption DEF TypeOK, Fault, Command, Runs, Compiles

-----------------------------------------------------------------------------
(* The steps outside of a profile's build: they leave its rows alone.      *)

Quiet ==
    /\ UNCHANGED <<disk, late, rows, madeFrom>>
    /\ faults' \in 0 .. Faults /\ faults <= faults'
    /\ job' \in Jobs /\ SameBuild(job, job') /\ job'.clean = job.clean
    /\ job.at \notin {"target", "verify"} /\ job'.at \notin {"start", "target", "verify"}

\* What such a step cannot disturb.
LEMMA QuietKeeps ==
    ASSUME IInv, Quiet
    PROVE  /\ TypeOK' /\ Counted' /\ BuiltMeans' /\ Visited'
           /\ job'.aocl = job.aocl => Selected'
           /\ job'.at \notin {"setup", "configure"} => AtHand'
           /\ \A p \in ProfileSet, t \in Targets' : madeFrom'[p][t] <= disk'.source
           /\ Targets' = Targets
<1>1. Targets' = Targets
  BY DEF Quiet, Targets
<1>2. /\ UNCHANGED <<disk, late, rows, madeFrom>>
      /\ faults' \in 0 .. Faults /\ faults <= faults'
      /\ job' \in Jobs /\ SameBuild(job, job') /\ job'.clean = job.clean
      /\ job.at \notin {"target", "verify"} /\ job'.at \notin {"start", "target", "verify"}
  BY DEF Quiet
<1>3. job.todo = {} /\ job'.todo = {}
  BY <1>2 DEF IInv, AtHand, SameBuild
<1>4. TypeOK'
  BY <1>1, <1>2, <1>3 DEF IInv, TypeOK
<1>5. Counted'
  <2>1. disk.source \in Nat /\ faults \in Nat /\ faults' \in Nat
    BY <1>2, BuildAssumption DEF IInv, TypeOK, Disk, Versions
  <2>2. /\ \A k \in {"cpu", "gpu"} : disk.libs[k] \in Nat
        /\ \A p \in ProfileSet : disk.tree[p] \in Nat /\ disk.binaries[p] \in Nat
    BY BuildAssumption DEF IInv, TypeOK, Disk, Versions
  <2> QED BY <1>2, <2>1, <2>2 DEF IInv, Counted
<1>6. BuiltMeans'
  BY <1>1, <1>2 DEF IInv, BuiltMeans, SameBuild
<1>7. Visited'
  BY <1>1, <1>2, <1>3 DEF IInv, Visited, Explained, Justified, SameBuild
<1>8. job'.aocl = job.aocl => Selected'
  BY <1>1, <1>2, <1>3 DEF IInv, Selected, SameBuild
<1>9. job'.at \notin {"setup", "configure"} => AtHand'
  BY <1>1, <1>2, <1>3 DEF IInv, AtHand
<1>10. \A p \in ProfileSet, t \in Targets' : madeFrom'[p][t] <= disk'.source
  BY <1>1, <1>2 DEF IInv, Sourced
<1> QED BY <1>1, <1>4, <1>5, <1>6, <1>7, <1>8, <1>9, <1>10

\* The step is quiet, and what the places it goes to demand holds.
LEMMA EvidenceKeeps ==
    ASSUME IInv, TakeEvidence \/ EvidenceFails
    PROVE  IInv'
<1> USE DEF Places
<1>0. /\ job \in Jobs /\ job.at = "start" /\ disk.source \in Versions /\ Versions \subseteq Int
      /\ job.summary \notin {"BUILT", "PREPARED"}
  BY BuildAssumption DEF IInv, TypeOK, Disk, TakeEvidence, EvidenceFails, At, Summarised,
     Preparing, Versions
<1>1. faults' \in 0 .. Faults /\ faults <= faults'
  BY FaultsCount DEF IInv, TakeEvidence, EvidenceFails, Runs, Fails, Compiles
<1>2. ASSUME NEW k \in Jobs, SameBuild(job, k), k.clean = job.clean, k.summary = job.summary,
             k.aocl = job.aocl, NEW s \in {"setup", "demote"}, Goes(k, s),
             UNCHANGED <<disk, late, rows, madeFrom>>,
             s = "setup" => ~k.error /\ k.before = Approved,
             s = "demote" => k.error
      PROVE  IInv'
  <2>1. /\ job' \in Jobs /\ job'.at = s /\ job'.error = k.error
        /\ SameBuild(k, job') /\ SameFrame(k, job')
    BY <1>2, Moved
  <2>2. Quiet
    BY <1>0, <1>1, <1>2, <2>1 DEF Quiet, SameBuild, SameFrame
  <2>3. job'.aocl = job.aocl /\ job'.summary = job.summary /\ job'.before = k.before
    BY <1>2, <2>1 DEF SameFrame
  <2>4. TypeOK' /\ Counted' /\ BuiltMeans' /\ Visited' /\ Selected' /\ Targets' = Targets
    BY <2>2, <2>3, QuietKeeps
  <2>5. AtHand'
    BY <1>0, <1>2, <2>1, <2>2, <2>4 DEF IInv, AtHand, SameBuild
  <2>6. Sourced'
    BY <1>2, <2>1, <2>2, <2>3, QuietKeeps DEF Sourced, Working, Concluded, Preparing
  <2>7. Ends' /\ Summarised'
    BY <1>0, <1>2, <2>1, <2>3 DEF Ends, Summarised, Concluded, Preparing
  <2> QED BY <2>4, <2>5, <2>6, <2>7 DEF IInv
<1>3. CASE TakeEvidence
  <2>0. /\ Goes([job EXCEPT !.before = disk.source, !.error = disk.source # Approved],
                IF disk.source = Approved THEN "setup" ELSE "demote")
        /\ UNCHANGED <<disk, late, rows, madeFrom>>
    BY <1>3 DEF TakeEvidence
  <2>1. CASE disk.source = Approved
    <3> DEFINE k == [job EXCEPT !.before = disk.source, !.error = FALSE]
    <3>1. Goes(k, "setup")
      BY <2>0, <2>1
    <3>2. /\ k \in Jobs /\ k.error = FALSE /\ k.before = disk.source /\ SameBuild(job, k)
          /\ k.clean = job.clean /\ k.aocl = job.aocl /\ k.summary = job.summary
      BY <1>0, WithEvidence
    <3> HIDE DEF k
    <3> QED BY <1>2, <2>0, <2>1, <3>1, <3>2
  <2>2. CASE disk.source # Approved
    <3> DEFINE k == [job EXCEPT !.before = disk.source, !.error = TRUE]
    <3>1. Goes(k, "demote")
      BY <2>0, <2>2
    <3>2. /\ k \in Jobs /\ k.error = TRUE /\ k.before = disk.source /\ SameBuild(job, k)
          /\ k.clean = job.clean /\ k.aocl = job.aocl /\ k.summary = job.summary
      BY <1>0, WithEvidence
    <3> HIDE DEF k
    <3> QED BY <1>2, <2>0, <2>2, <3>1, <3>2
  <2> QED BY <2>1, <2>2
<1>4. CASE EvidenceFails
  <2> DEFINE k == [job EXCEPT !.error = TRUE]
  <2>1. k \in Jobs /\ k.error = TRUE /\ SameBuild(job, k) /\ SameFrame(job, k)
    BY <1>0, WithError
  <2>2. Goes(k, "demote") /\ UNCHANGED <<disk, late, rows, madeFrom>>
    BY <1>4 DEF EvidenceFails
  <2> HIDE DEF k
  <2> QED BY <1>2, <2>1, <2>2 DEF SameFrame
<1> QED BY <1>3, <1>4

\* The way to the profiles, and between them.
LEMMA WayKeeps ==
    ASSUME IInv, SetUp \/ StartProfile
    PROVE  IInv'
<1> USE DEF Places
<1>0. /\ job \in Jobs /\ job.at \in {"setup", "profile"} /\ disk.libs["cpu"] \in Versions
      /\ job.summary \notin {"BUILT", "PREPARED"} /\ ~job.error /\ job.before = Approved
      /\ job.todo = {}
  BY DEF IInv, TypeOK, Disk, SetUp, StartProfile, At, Summarised, Preparing, Sourced,
     Working, AtHand
<1>1. faults' \in 0 .. Faults /\ faults <= faults'
  BY FaultsCount DEF IInv, SetUp, StartProfile, Runs, Compiles
<1>2. ASSUME NEW k \in Jobs, SameBuild(job, k), k.clean = job.clean, k.summary = job.summary,
             k.error = job.error, k.before = job.before,
             NEW s \in {"profile", "combine", "configure"}, Goes(k, s),
             UNCHANGED <<disk, late, rows, madeFrom>>,
             k.aocl = job.aocl \/ job.at = "setup",
             s = "combine" => late = "job",
             s = "configure" => job.next \in DOMAIN Profiles
      PROVE  IInv'
  <2>1. /\ job' \in Jobs /\ job'.at = s /\ job'.error = k.error
        /\ SameBuild(k, job') /\ SameFrame(k, job')
    BY <1>2, Moved
  <2>2. Quiet
    BY <1>0, <1>1, <1>2, <2>1 DEF Quiet, SameBuild, SameFrame
  <2>3. /\ job'.aocl = k.aocl /\ job'.summary = job.summary /\ job'.before = k.before
        /\ job'.next = job.next /\ job'.todo = {}
    BY <1>0, <1>2, <2>1 DEF SameFrame, SameBuild
  <2>4. TypeOK' /\ Counted' /\ BuiltMeans' /\ Visited' /\ Targets' = Targets
    BY <2>2, QuietKeeps
  <2>5. Selected'
    <3>1. CASE k.aocl = job.aocl
      BY <2>2, <2>3, <3>1, QuietKeeps
    <3>2. CASE job.at = "setup"
      <4>1. \A p \in ProfileSet, t \in Targets : rows[p][t] = Unbuilt
        BY <3>2 DEF IInv, AtHand
      <4>2. "cpu" \in ProfileSet
        BY DEF ProfileSet, Profiles, Range
      <4> QED BY <1>2, <2>3, <2>4, <4>1, <4>2 DEF Selected, Unbuilt
    <3> QED BY <1>2, <3>1, <3>2
  <2>6. AtHand'
    BY <1>2, <2>1, <2>3 DEF AtHand
  <2>7. Sourced'
    BY <1>0, <1>2, <2>1, <2>2, <2>3, QuietKeeps DEF Sourced, Working, Concluded, Preparing
  <2>8. Ends' /\ Summarised'
    BY <1>0, <1>2, <2>1, <2>3 DEF Ends, Summarised, Concluded, Preparing
  <2> QED BY <2>4, <2>5, <2>6, <2>7, <2>8 DEF IInv
<1>3. CASE SetUp
  <2>1. PICK s \in {"off", "selected", "rejected"} :
           Goes([job EXCEPT !.aocl = [status |-> s, libs |-> disk.libs["cpu"]]], "profile")
    BY <1>3 DEF SetUp
  <2> DEFINE k == [job EXCEPT !.aocl = [status |-> s, libs |-> disk.libs["cpu"]]]
  <2>2. /\ k \in Jobs /\ k.error = job.error /\ k.before = job.before /\ SameBuild(job, k)
        /\ k.clean = job.clean /\ k.summary = job.summary
    BY <1>0, WithSelection
  <2>3. Goes(k, "profile") /\ job.at = "setup" /\ UNCHANGED <<disk, late, rows, madeFrom>>
    BY <1>3, <2>1 DEF SetUp, At
  <2> HIDE DEF k
  <2> QED BY <1>2, <2>2, <2>3
<1>4. CASE StartProfile
  <2>1. job.next \in 1 .. Len(Profiles) /\ DOMAIN Profiles = 1 .. Len(Profiles)
    BY <1>0, <1>4 DEF StartProfile, Jobs, Profiles
  <2>2. PICK s \in {"combine", "configure"} : Goes(job, s) /\ (s = "combine" => late = "job")
    BY <1>4 DEF StartProfile
  <2>3. SameBuild(job, job) /\ UNCHANGED <<disk, late, rows, madeFrom>>
    BY <1>4 DEF SameBuild, StartProfile
  <2> QED BY <1>0, <1>2, <2>1, <2>2, <2>3
<1> QED BY <1>3, <1>4

\* An exception before a profile's build leads to the finally clause.
LEMMA AbortKeeps ==
    ASSUME IInv, SetUpFails \/ SourceChanged
    PROVE  IInv'
<1>0. /\ job \in Jobs /\ job.at \in {"setup", "profile"}
      /\ job.summary \notin {"BUILT", "PREPARED"}
  BY DEF IInv, TypeOK, SetUpFails, SourceChanged, At, Summarised, Preparing
<1>1. faults' \in 0 .. Faults /\ faults <= faults'
  <2>1. Refused => Fault
    BY DEF Refused
  <2> QED BY <2>1, FaultsCount DEF IInv, SetUpFails, SourceChanged, Fails
<1> DEFINE k == [job EXCEPT !.error = TRUE]
<1>2. k \in Jobs /\ k.error = TRUE /\ SameBuild(job, k) /\ SameFrame(job, k)
  BY <1>0, WithError
<1>3. Goes(k, "finally") /\ UNCHANGED <<disk, late, rows, madeFrom>>
  BY DEF SetUpFails, SourceChanged, Aborts
<1> HIDE DEF k
<1>4. /\ job' \in Jobs /\ job'.at = "finally" /\ job'.error = TRUE
      /\ SameBuild(k, job') /\ SameFrame(k, job')
  BY <1>2, <1>3, Moved DEF Places
<1>5. Quiet
  BY <1>0, <1>1, <1>2, <1>3, <1>4 DEF Quiet, SameBuild, SameFrame
<1>6. job'.aocl = job.aocl /\ job'.summary = job.summary
  BY <1>2, <1>4 DEF SameFrame
<1>7. Sourced'
  BY <1>4, <1>5, QuietKeeps DEF Sourced, Working, Concluded, Preparing
<1>8. Ends' /\ Summarised'
  BY <1>0, <1>4, <1>6 DEF Ends, Summarised, Concluded, Preparing
<1> QED BY <1>4, <1>5, <1>6, <1>7, <1>8, QuietKeeps DEF IInv

\* All artifacts intact: the profiles that share libraries were certified with the same.
LEMMA IntactAgree ==
    ArtifactsIntact => SameLibraries
BY DEF ArtifactsIntact, SameLibraries, Certified, ProfileSet, Profiles, Range

\* The verdict over all profiles.
LEMMA CombineKeeps ==
    ASSUME IInv, Combine
    PROVE  IInv'
<1>0. /\ job \in Jobs /\ job.at \in {"combine", "profile"}
      /\ job.summary \notin {"BUILT", "PREPARED"} /\ job.before = Approved
      /\ job.at = "combine" => late = "job"
      /\ faults' \in 0 .. Faults /\ faults <= faults'
  <2>1. job \in Jobs /\ job.at \in {"combine", "profile"} /\ UNCHANGED faults
    BY DEF IInv, TypeOK, Combine, At
  <2>2. faults \in 0 .. Faults
    BY DEF IInv, TypeOK
  <2> QED BY <2>1, <2>2, BuildAssumption DEF IInv, Summarised, Preparing, Ends, Sourced, Working
<1>1. job.at = "profile" => job.next = 4
  <2>1. Len(Profiles) = 3 /\ job.next \in 1 .. Len(Profiles) + 1
    BY <1>0 DEF Jobs, Profiles
  <2> QED BY <2>1 DEF Combine, At
<1>2. Goes([job EXCEPT !.error = ~ArtifactsIntact], "finally")
      /\ UNCHANGED <<disk, late, rows, madeFrom>>
  BY DEF Combine
<1>3. ASSUME NEW k \in Jobs, SameBuild(job, k), SameFrame(job, k), Goes(k, "finally"),
             ~k.error => SameLibraries
      PROVE  IInv'
  <2>1. /\ job' \in Jobs /\ job'.at = "finally" /\ job'.error = k.error
        /\ SameBuild(k, job') /\ SameFrame(k, job')
    BY <1>3, Moved DEF Places
  <2>2. Quiet
    BY <1>0, <1>2, <1>3, <2>1 DEF Quiet, SameBuild, SameFrame
  <2>3. /\ job'.aocl = job.aocl /\ job'.summary = job.summary /\ job'.before = Approved
        /\ job'.next = job.next /\ job'.certified = job.certified
    BY <1>0, <1>3, <2>1 DEF SameFrame, SameBuild
  <2>4. Sourced'
    BY <2>1, <2>2, <2>3, QuietKeeps DEF Sourced, Working, Concluded, Preparing
  <2>5. Ends' /\ Summarised'
    BY <1>0, <1>1, <1>2, <1>3, <2>1, <2>3 DEF Ends, Summarised, Concluded, Preparing,
       SameLibraries
  <2> QED BY <2>1, <2>2, <2>3, <2>4, <2>5, QuietKeeps DEF IInv
<1>4. CASE ArtifactsIntact
  <2> DEFINE k == [job EXCEPT !.error = FALSE]
  <2>1. Goes(k, "finally")
    BY <1>2, <1>4
  <2>2. k \in Jobs /\ SameBuild(job, k) /\ SameFrame(job, k)
    BY <1>0, WithError
  <2> HIDE DEF k
  <2> QED BY <1>3, <1>4, <2>1, <2>2, IntactAgree
<1>5. CASE ~ArtifactsIntact
  <2> DEFINE k == [job EXCEPT !.error = TRUE]
  <2>1. Goes(k, "finally")
    BY <1>2, <1>5
  <2>2. k \in Jobs /\ k.error = TRUE /\ SameBuild(job, k) /\ SameFrame(job, k)
    BY <1>0, WithError
  <2> HIDE DEF k
  <2> QED BY <1>3, <2>1, <2>2
<1> QED BY <1>4, <1>5

\* The final source evidence: without an error everything was made from the
\* approved source, because the source has it still.
LEMMA ConcludeKeeps ==
    ASSUME IInv, Conclude
    PROVE  IInv'
<1>0. /\ job \in Jobs /\ job.at = "finally" /\ job.summary \notin {"BUILT", "PREPARED"}
      /\ UNCHANGED <<disk, late, rows, madeFrom>>
  BY DEF IInv, TypeOK, Conclude, At, Summarised, Preparing
<1>1. faults' \in 0 .. Faults /\ faults <= faults'
  BY FaultsCount DEF IInv, Conclude, Runs, Fails, Compiles
<1>2. ASSUME NEW k \in Jobs, SameBuild(job, k), SameFrame(job, k), Goes(k, "demote"),
             ~k.error => ~job.error /\ disk.source = job.before /\ late = "none"
      PROVE  IInv'
  <2>1. /\ job' \in Jobs /\ job'.at = "demote" /\ job'.error = k.error
        /\ SameBuild(k, job') /\ SameFrame(k, job')
    BY <1>2, Moved DEF Places
  <2>2. Quiet
    BY <1>0, <1>1, <1>2, <2>1 DEF Quiet, SameBuild, SameFrame
  <2>3. /\ job'.aocl = job.aocl /\ job'.summary = job.summary /\ job'.before = job.before
        /\ job'.next = job.next /\ job'.certified = job.certified
    BY <1>0, <1>2, <2>1 DEF SameFrame, SameBuild
  <2>4. ASSUME ~job'.error
        PROVE  /\ job'.before = Approved /\ job'.next = 4 /\ SameLibraries
               /\ \A p \in ProfileSet, t \in Targets : madeFrom[p][t] = Approved
    <3>1. ~job.error /\ disk.source = Approved /\ late = "none"
      BY <1>2, <2>1, <2>4 DEF IInv, Sourced
    <3>2. job.next = 4 /\ SameLibraries
      BY <1>0, <3>1 DEF IInv, Ends
    <3>3. \A p \in ProfileSet, t \in Targets : madeFrom[p][t] \in Versions
      BY DEF IInv, TypeOK
    <3>4. \A p \in ProfileSet, t \in Targets : madeFrom[p][t] = 0
      BY <3>1, <3>3, BuildAssumption DEF IInv, Sourced, Versions, Approved
    <3> QED BY <2>3, <3>1, <3>2, <3>4 DEF IInv, Sourced, Approved
  <2>5. Sourced'
    BY <1>0, <2>1, <2>2, <2>4, QuietKeeps DEF Sourced, Working, Concluded, Preparing
  <2>6. Ends' /\ Summarised'
    BY <1>0, <2>1, <2>3, <2>4 DEF Ends, Summarised, Concluded, Preparing, SameLibraries
  <2> QED BY <2>1, <2>2, <2>3, <2>5, <2>6, QuietKeeps DEF IInv
<1>3. ASSUME Goes([job EXCEPT !.error = TRUE], "demote")
      PROVE  IInv'
  <2> DEFINE k == [job EXCEPT !.error = TRUE]
  <2>1. k \in Jobs /\ k.error = TRUE /\ SameBuild(job, k) /\ SameFrame(job, k)
    BY <1>0, WithError
  <2>2. Goes(k, "demote")
    BY <1>3
  <2> HIDE DEF k
  <2> QED BY <1>2, <2>1, <2>2
<1>4. ASSUME Runs, Goes([job EXCEPT !.error = @ \/ disk.source # job.before], "demote")
      PROVE  IInv'
  <2>1. CASE job.error \/ disk.source # job.before
    BY <1>3, <1>4, <2>1
  <2>2. CASE ~(job.error \/ disk.source # job.before)
    <3> DEFINE k == [job EXCEPT !.error = FALSE]
    <3>1. k \in Jobs /\ SameBuild(job, k) /\ SameFrame(job, k)
      BY <1>0, WithError
    <3>2. Goes(k, "demote")
      BY <1>4, <2>2
    <3>3. late = "none"
      BY <1>4, FaultsCount DEF IInv
    <3> HIDE DEF k
    <3> QED BY <1>2, <2>2, <3>1, <3>2, <3>3
  <2> QED BY <2>1, <2>2
<1> QED BY <1>3, <1>4 DEF Conclude

\* The end of the build: what has failed after all is BUILT no more, and the summary
\* says BUILT only of a build without error and without any other row.
LEMMA DemoteKeeps ==
    ASSUME IInv, Demote
    PROVE  IInv'
<1>0. /\ job \in Jobs /\ job.at = "demote" /\ job.summary \notin {"BUILT", "PREPARED"}
      /\ UNCHANGED <<disk, late, madeFrom, faults>> /\ job.todo = {}
      /\ rows \in [ProfileSet -> [Targets -> Row]]
  BY DEF IInv, TypeOK, Demote, At, Summarised, Preparing, AtHand
<1> DEFINE Failed(r) == [r EXCEPT !.status = "FAILED", !.stage = "FINAL_PROVENANCE"]
<1>1. /\ ~job.error => rows' = rows
      /\ job.error => rows' = [p \in ProfileSet |-> [t \in Targets |->
              IF rows[p][t].status # "BUILT" THEN rows[p][t] ELSE Failed(rows[p][t])]]
  BY DEF Demote
<1>2. \A r \in Row : /\ Failed(r) \in Row /\ Failed(r).status = "FAILED"
                     /\ Failed(r).compile = r.compile
  BY DEF Row, Stages
<1> HIDE DEF Failed
<1>3. rows' \in [ProfileSet -> [Targets -> Row]]
  <2>1. CASE job.error
    <3> DEFINE R(p) == [t \in Targets |->
              IF rows[p][t].status # "BUILT" THEN rows[p][t] ELSE Failed(rows[p][t])]
    <3>1. \A p \in ProfileSet : R(p) \in [Targets -> Row]
      BY <1>0, <1>2
    <3>2. rows' = [p \in ProfileSet |-> R(p)]
      BY <1>1, <2>1
    <3> HIDE DEF R
    <3> QED BY <3>1, <3>2
  <2>2. CASE ~job.error
    BY <1>0, <1>1, <2>2
  <2> QED BY <2>1, <2>2
<1>4. ASSUME NEW p \in ProfileSet, NEW t \in Targets
      PROVE  /\ rows'[p][t] = rows[p][t] \/ rows'[p][t].status = "FAILED"
             /\ rows'[p][t].compile = rows[p][t].compile
             /\ job.error => rows'[p][t].status # "BUILT"
             /\ ~job.error => rows'[p][t] = rows[p][t]
  <2>1. rows[p][t] \in Row
    BY <1>0
  <2> QED BY <1>1, <1>2, <2>1
<1>s. PICK s : s = BuildStatus(rows', job.error)
  OBVIOUS
<1> DEFINE k == [job EXCEPT !.summary = s]
<1>5. /\ s \in {"BUILT", "INCOMPLETE", "FAILED"}
      /\ s = "BUILT" => ~job.error /\ Statuses(rows') = {"BUILT"}
  BY <1>s DEF BuildStatus
<1>6. PICK a \in {"freeze", "ended"} : Goes(k, a) /\ (a = "freeze" => s = "BUILT")
  BY <1>s DEF Demote
<1>7. /\ k \in Jobs /\ k.error = job.error /\ k.before = job.before /\ SameBuild(job, k)
      /\ k.clean = job.clean /\ k.summary = s /\ k.aocl = job.aocl /\ k.runtime = job.runtime
  <2>1. job \in Jobs
    BY <1>0
  <2>2. s \in {"BUILT", "INCOMPLETE", "FAILED", "PREPARED", "PREPARATION_FAILED"}
    BY <1>5
  <2> QED BY <2>1, <2>2, WithSummary
<1> HIDE DEF k
<1>8. /\ job' \in Jobs /\ job'.at = a /\ job'.error = k.error
      /\ SameBuild(k, job') /\ SameFrame(k, job')
  BY <1>6, <1>7, Moved DEF Places
<1>9. /\ job'.error = job.error /\ job'.before = job.before /\ job'.clean = job.clean
      /\ job'.summary = s /\ job'.aocl = job.aocl /\ job'.next = job.next /\ job'.todo = {}
      /\ job'.shared = job.shared
      /\ job'.broken = job.broken /\ job'.certified = job.certified
  BY <1>0, <1>7, <1>8 DEF SameBuild, SameFrame
<1>10. Targets' = Targets
  BY <1>9 DEF Targets
<1>11. TypeOK' /\ Counted'
  BY <1>0, <1>3, <1>8, <1>9, <1>10 DEF IInv, TypeOK, Counted
<1>12. Sourced' /\ AtHand' /\ Ends'
  BY <1>0, <1>6, <1>8, <1>9, <1>10 DEF IInv, Sourced, AtHand, Ends, SameLibraries, Working,
     Concluded, Preparing
<1>13. BuiltMeans' /\ Selected'
  <2>1. "cpu" \in ProfileSet
    BY DEF ProfileSet, Profiles, Range
  <2> QED BY <1>0, <1>4, <1>8, <1>9, <1>10, <2>1 DEF IInv, BuiltMeans, Selected
<1>14. Visited'
  <2>1. ASSUME NEW i \in DOMAIN Profiles, NEW t \in Targets, i < job.next
        PROVE  Explained(Profiles[i], t)'
    <3>1. Profiles[i] \in ProfileSet
      BY DEF ProfileSet, Range
    <3>2. Explained(Profiles[i], t)
      BY <2>1 DEF IInv, Visited
    <3> QED BY <1>0, <1>4, <1>9, <3>1, <3>2 DEF Explained, Justified
  <2> QED BY <1>8, <1>9, <1>10, <2>1 DEF Visited
<1>15. Summarised'
  <2>1. s = "BUILT" => AllBuilt'
    <3>1. Statuses(rows') = {rows'[p][t].status : p \in ProfileSet, t \in Targets}
      BY DEF Statuses
    <3>2. ASSUME s = "BUILT"
          PROVE  /\ \E p \in ProfileSet, t \in Targets : rows'[p][t].status = "BUILT"
                 /\ \A p \in ProfileSet, t \in Targets : rows'[p][t].status = "BUILT"
      <4>1. "BUILT" \in Statuses(rows') /\ \A x \in Statuses(rows') : x = "BUILT"
        BY <1>5, <3>2
      <4>2. \A p \in ProfileSet, t \in Targets : rows'[p][t].status \in Statuses(rows')
        BY <3>1
      <4>3. \E p \in ProfileSet, t \in Targets : "BUILT" = rows'[p][t].status
        BY <3>1, <4>1
      <4> QED BY <4>1, <4>2, <4>3
    <3> QED BY <1>10, <3>2 DEF AllBuilt
  <2> QED BY <1>4, <1>5, <1>6, <1>8, <1>9, <1>10, <2>1 DEF Summarised, Preparing
<1> QED BY <1>11, <1>12, <1>13, <1>14, <1>15 DEF IInv

\* In a build that was BUILT every profile is certified.
LEMMA AllCertified ==
    ASSUME IInv, AllBuilt
    PROVE  Certified = ProfileSet
<1>1. ASSUME NEW p \in ProfileSet PROVE job.certified[p] # None
  <2>1. PICK t \in Targets : TRUE
    BY DEF AllBuilt
  <2>2. rows[p][t].status = "BUILT"
    BY DEF AllBuilt
  <2> QED BY <2>2 DEF IInv, BuiltMeans
<1> QED BY <1>1 DEF Certified

\* The preparation of what was BUILT: it looks at what the certificates name.
LEMMA PreparationKeeps ==
    ASSUME IInv, Freeze \/ ProvePlacement \/ Collect \/ Prepared \/ PreparationFails
    PROVE  IInv'
<1>0. /\ job \in Jobs /\ job.at \in Preparing /\ job.summary = "BUILT" /\ ~job.error /\ AllBuilt
      /\ UNCHANGED <<disk, late, rows, madeFrom>> /\ disk \in Disk
  BY DEF IInv, TypeOK, Freeze, ProvePlacement, Collect, Prepared, PreparationFails, At,
     Summarised, Preparing
<1>1. faults' \in 0 .. Faults /\ faults <= faults'
  BY FaultsCount DEF IInv, Freeze, ProvePlacement, Collect, Prepared, PreparationFails, Runs,
     Fails, Compiles, Refused
<1> DEFINE Seen(k) == \A p \in ProfileSet :
                          /\ k.certified[p].binaries = k.runtime.binaries[p]
                          /\ k.certified[p].libs = k.runtime.libs[LibsOf(p)]
<1>2. ASSUME NEW k \in Jobs, k.error = job.error, k.before = job.before, SameBuild(job, k),
             k.clean = job.clean, k.aocl = job.aocl,
             NEW s \in {"place", "collect", "recheck", "ended"}, Goes(k, s),
             s = "ended" => k.summary \in {"PREPARED", "PREPARATION_FAILED"},
             s # "ended" => k.summary = "BUILT",
             s = "recheck" \/ k.summary = "PREPARED" => Seen(k),
             k.summary = "PREPARED" => disk.source = Approved
      PROVE  IInv'
  <2>1. /\ job' \in Jobs /\ job'.at = s /\ job'.error = k.error
        /\ SameBuild(k, job') /\ SameFrame(k, job')
    BY <1>2, Moved DEF Places
  <2>2. Quiet
    BY <1>0, <1>1, <1>2, <2>1 DEF Quiet, SameBuild, SameFrame, Preparing
  <2>3. /\ job'.aocl = job.aocl /\ job'.summary = k.summary /\ job'.before = job.before
        /\ job'.next = job.next /\ job'.certified = k.certified /\ k.certified = job.certified
        /\ job'.error = job.error /\ job'.runtime = k.runtime
    BY <1>0, <1>2, <2>1 DEF SameFrame, SameBuild
  <2>4. Targets' = Targets
    BY <2>2, QuietKeeps
  <2>5. Sourced' /\ Ends'
    BY <1>0, <1>2, <2>1, <2>3, <2>4 DEF IInv, Sourced, Ends, Working, Concluded, Preparing,
       SameLibraries
  <2>6. AllBuilt'
    BY <1>0, <2>4 DEF AllBuilt
  <2>7. Seen(k) => Seen(job')
    BY <2>3
  <2>8. Summarised'
    BY <1>0, <1>2, <2>1, <2>3, <2>6, <2>7 DEF Summarised, Preparing
  <2> QED BY <2>1, <2>2, <2>3, <2>5, <2>8, QuietKeeps DEF IInv
<1>3. CASE Freeze \/ ProvePlacement
  <2>1. PICK s \in {"place", "collect"} : Goes(job, s)
    BY <1>3 DEF Freeze, ProvePlacement
  <2>2. SameBuild(job, job)
    BY DEF SameBuild
  <2> QED BY <1>0, <1>2, <2>1, <2>2
<1>4. CASE Collect
  <2> DEFINE k == [job EXCEPT !.runtime = disk]
  <2>1. Goes(k, "recheck") /\ ArtifactsIntact
    BY <1>4 DEF Collect
  <2>2. /\ k \in Jobs /\ k.error = job.error /\ k.before = job.before /\ SameBuild(job, k)
        /\ k.clean = job.clean /\ k.summary = job.summary /\ k.aocl = job.aocl
        /\ k.runtime = disk
    BY <1>0, WithRuntime
  <2>3. Seen(k)
    BY <1>0, <2>1, <2>2, AllCertified DEF ArtifactsIntact, SameBuild
  <2> HIDE DEF k
  <2> QED BY <1>0, <1>2, <2>1, <2>2, <2>3
<1>5. CASE Prepared
  <2> DEFINE k == [job EXCEPT !.summary = "PREPARED"]
  <2>1. Goes(k, "ended") /\ disk.source = Approved /\ job.at = "recheck"
    BY <1>5 DEF Prepared, At
  <2>2. /\ k \in Jobs /\ k.error = job.error /\ k.before = job.before /\ SameBuild(job, k)
        /\ k.clean = job.clean /\ k.summary = "PREPARED" /\ k.aocl = job.aocl
        /\ k.runtime = job.runtime
    BY <1>0, WithSummary
  <2>3. Seen(k)
    BY <2>1, <2>2 DEF IInv, Summarised, SameBuild
  <2> HIDE DEF k
  <2> QED BY <1>2, <2>1, <2>2, <2>3
<1>6. CASE PreparationFails
  <2> DEFINE k == [job EXCEPT !.summary = "PREPARATION_FAILED"]
  <2>1. Goes(k, "ended")
    BY <1>6 DEF PreparationFails
  <2>2. /\ k \in Jobs /\ k.error = job.error /\ k.before = job.before /\ SameBuild(job, k)
        /\ k.clean = job.clean /\ k.summary = "PREPARATION_FAILED" /\ k.aocl = job.aocl
    BY <1>0, WithSummary
  <2> HIDE DEF k
  <2> QED BY <1>2, <2>1, <2>2
<1> QED BY <1>3, <1>4, <1>5, <1>6

-----------------------------------------------------------------------------
(* Deadlines and replacements.                                             *)

\* A passed deadline excuses nothing and demands nothing.
LEMMA DeadlineKeeps ==
    ASSUME IInv, Deadline
    PROVE  IInv'
<1>1. /\ late # "job" /\ late' \in {"job", "profile"}
      /\ late' = "profile" => job.at \in {"target", "verify"}
      /\ UNCHANGED <<disk, job, rows, madeFrom>>
  BY DEF Deadline
<1>2. Targets' = Targets
  BY <1>1 DEF Targets
<1>3. faults' \in 0 .. Faults /\ faults' = faults + 1 /\ faults \in Nat
  BY FaultsCount, BuildAssumption DEF IInv, TypeOK, Deadline, Fault
<1>4. TypeOK'
  BY <1>1, <1>2, <1>3 DEF IInv, TypeOK
<1>5. Counted'
  <2>1. /\ disk.source \in Nat /\ \A k \in {"cpu", "gpu"} : disk.libs[k] \in Nat
        /\ \A p \in ProfileSet : disk.tree[p] \in Nat /\ disk.binaries[p] \in Nat
    BY BuildAssumption DEF IInv, TypeOK, Disk, Versions
  <2> QED BY <1>1, <1>3, <2>1 DEF IInv, Counted
<1>6. Sourced' /\ AtHand' /\ BuiltMeans' /\ Selected' /\ Summarised'
  BY <1>1, <1>2 DEF IInv, Sourced, AtHand, BuiltMeans, Selected, Summarised, AllBuilt
<1>7. Visited'
  BY <1>1, <1>2 DEF IInv, Visited, Explained, Justified, Profile
<1>8. Ends'
  BY <1>1 DEF IInv, Ends, SameLibraries
<1> QED BY <1>4, <1>5, <1>6, <1>7, <1>8 DEF IInv

\* One file more is replaced: its version grows, the count of faults with it.
LEMMA Replaced ==
    ASSUME IInv, Replace
    PROVE  /\ disk' \in Disk /\ disk.source <= disk'.source /\ Counted'
           /\ \A p \in ProfileSet : disk.tree[p] <= disk'.tree[p] /\ disk.tree[p] \in Nat
           /\ \A p \in ProfileSet : disk'.tree[p] \in Nat
<1>0. /\ faults \in Nat /\ faults' = faults + 1 /\ faults' <= Faults /\ Faults \in Nat
      /\ faults < Faults
  BY BuildAssumption DEF IInv, TypeOK, Replace, Fault
<1>1. /\ disk.source \in Versions /\ disk.libs \in [{"cpu", "gpu"} -> Versions]
      /\ disk.tree \in [ProfileSet -> Versions] /\ disk.binaries \in [ProfileSet -> Versions]
      /\ disk = [source |-> disk.source, libs |-> disk.libs, tree |-> disk.tree,
                 binaries |-> disk.binaries]
  BY DEF IInv, TypeOK, Disk
<1>2. Versions = 0 .. 2 * Faults + 1
  BY DEF Versions
<1>3. /\ disk.source <= 2 * faults + 1
      /\ \A k \in {"cpu", "gpu"} : disk.libs[k] <= faults /\ disk.libs[k] \in Nat
      /\ \A p \in ProfileSet : /\ disk.tree[p] <= faults /\ disk.binaries[p] <= faults
                               /\ disk.tree[p] \in Nat /\ disk.binaries[p] \in Nat
  BY <1>0, <1>1, <1>2 DEF IInv, Counted
<1>4. ASSUME NEW n \in Nat, disk' = [disk EXCEPT !.source = n], n = disk.source + 2
      PROVE  /\ disk' \in Disk /\ disk.source <= disk'.source /\ disk'.source <= 2 * faults' + 1
             /\ disk'.libs = disk.libs /\ disk'.tree = disk.tree
             /\ disk'.binaries = disk.binaries
  <2>1. n \in Versions /\ disk.source \in Nat
    BY <1>0, <1>1, <1>2, <1>3, <1>4
  <2>2. disk' = [source |-> n, libs |-> disk.libs, tree |-> disk.tree,
                 binaries |-> disk.binaries]
    BY <1>1, <1>4
  <2>3. disk' \in Disk
    BY <1>1, <2>1, <2>2 DEF Disk
  <2> QED BY <1>0, <1>3, <1>4, <2>1, <2>2, <2>3
<1>5. ASSUME NEW k \in {"cpu", "gpu"}, disk' = [disk EXCEPT !.libs[k] = @ + 1]
      PROVE  /\ disk' \in Disk /\ disk'.source = disk.source
             /\ \A i \in {"cpu", "gpu"} : disk'.libs[i] <= faults'
             /\ disk'.tree = disk.tree /\ disk'.binaries = disk.binaries
  <2> DEFINE f == [disk.libs EXCEPT ![k] = disk.libs[k] + 1]
  <2>1. f \in [{"cpu", "gpu"} -> Versions] /\ \A i \in {"cpu", "gpu"} : f[i] <= faults'
    BY <1>0, <1>1, <1>2, <1>3
  <2>2. disk' = [source |-> disk.source, libs |-> f, tree |-> disk.tree,
                 binaries |-> disk.binaries]
    BY <1>1, <1>5
  <2> HIDE DEF f
  <2>3. disk' \in Disk
    BY <1>1, <2>1, <2>2 DEF Disk
  <2> QED BY <2>1, <2>2, <2>3
<1>6. ASSUME NEW q \in ProfileSet, disk' = [disk EXCEPT !.tree[q] = @ + 1]
      PROVE  /\ disk' \in Disk /\ disk'.source = disk.source /\ disk'.libs = disk.libs
             /\ \A p \in ProfileSet : /\ disk'.tree[p] <= faults' /\ disk.tree[p] <= disk'.tree[p]
                                      /\ disk'.tree[p] \in Nat
             /\ disk'.binaries = disk.binaries
  <2> DEFINE f == [disk.tree EXCEPT ![q] = disk.tree[q] + 1]
  <2>1. /\ f \in [ProfileSet -> Versions]
        /\ \A p \in ProfileSet : f[p] <= faults' /\ disk.tree[p] <= f[p] /\ f[p] \in Nat
    BY SMTT(30), <1>0, <1>1, <1>2, <1>3
  <2>2. disk' = [source |-> disk.source, libs |-> disk.libs, tree |-> f,
                 binaries |-> disk.binaries]
    BY <1>1, <1>6
  <2> HIDE DEF f
  <2>3. disk' \in Disk
    BY <1>1, <2>1, <2>2 DEF Disk
  <2> QED BY <2>1, <2>2, <2>3
<1>7. ASSUME NEW q \in ProfileSet, disk' = [disk EXCEPT !.binaries[q] = @ + 1]
      PROVE  /\ disk' \in Disk /\ disk'.source = disk.source /\ disk'.libs = disk.libs
             /\ \A p \in ProfileSet : disk'.binaries[p] <= faults'
             /\ disk'.tree = disk.tree
  <2> DEFINE f == [disk.binaries EXCEPT ![q] = disk.binaries[q] + 1]
  <2>1. f \in [ProfileSet -> Versions] /\ \A p \in ProfileSet : f[p] <= faults'
    BY SMTT(30), <1>0, <1>1, <1>2, <1>3
  <2>2. disk' = [source |-> disk.source, libs |-> disk.libs, tree |-> disk.tree,
                 binaries |-> f]
    BY <1>1, <1>7
  <2> HIDE DEF f
  <2>3. disk' \in Disk
    BY <1>1, <2>1, <2>2 DEF Disk
  <2> QED BY <2>1, <2>2, <2>3
<1>8. job.at \in {"target", "verify"} => Profile \in ProfileSet
  BY DEF IInv, AtHand, Profile, ProfileSet, Range
<1>9. disk.source \in Nat
  BY <1>0, <1>1, <1>2
<1>10. \/ \E n \in Nat : disk' = [disk EXCEPT !.source = n] /\ n = disk.source + 2
       \/ \E k \in {"cpu", "gpu"} : disk' = [disk EXCEPT !.libs[k] = @ + 1]
       \/ \E q \in ProfileSet : disk' = [disk EXCEPT !.tree[q] = @ + 1]
       \/ \E q \in ProfileSet : disk' = [disk EXCEPT !.binaries[q] = @ + 1]
  BY <1>8, <1>9 DEF Replace
<1> QED
  <2>1. CASE \E n \in Nat : disk' = [disk EXCEPT !.source = n] /\ n = disk.source + 2
    BY <1>0, <1>3, <1>4, <2>1 DEF Counted
  <2>2. CASE \E k \in {"cpu", "gpu"} : disk' = [disk EXCEPT !.libs[k] = @ + 1]
    BY <1>0, <1>3, <1>5, <1>9, <2>2 DEF Counted
  <2>3. CASE \E q \in ProfileSet : disk' = [disk EXCEPT !.tree[q] = @ + 1]
    BY <1>0, <1>3, <1>6, <1>9, <2>3 DEF Counted
  <2>4. CASE \E q \in ProfileSet : disk' = [disk EXCEPT !.binaries[q] = @ + 1]
    BY <1>0, <1>3, <1>7, <1>9, <2>4 DEF Counted
  <2> QED BY <1>10, <2>1, <2>2, <2>3, <2>4

\* Nothing the process has recorded changes with the files.
LEMMA ReplaceKeeps ==
    ASSUME IInv, Replace
    PROVE  IInv'
<1>1. /\ UNCHANGED <<late, job, rows, madeFrom>> /\ job.at # "ended"
      /\ faults' \in 0 .. Faults
  BY FaultsCount DEF IInv, Replace, At
<1>2. /\ disk' \in Disk /\ disk.source <= disk'.source /\ Counted'
      /\ \A p \in ProfileSet : disk.tree[p] <= disk'.tree[p] /\ disk.tree[p] \in Nat
      /\ \A p \in ProfileSet : disk'.tree[p] \in Nat
  BY Replaced
<1>3. Targets' = Targets
  BY <1>1 DEF Targets
<1>4. TypeOK'
  BY <1>1, <1>2, <1>3 DEF IInv, TypeOK
<1>5. Sourced'
  <2>1. disk.source \in Int /\ disk'.source \in Int
        /\ \A p \in ProfileSet, t \in Targets : madeFrom[p][t] \in Int
    BY <1>2, BuildAssumption DEF IInv, TypeOK, Disk, Versions
  <2> QED BY <1>1, <1>2, <1>3, <2>1 DEF IInv, Sourced
<1>6. AtHand' /\ BuiltMeans' /\ Selected' /\ Ends' /\ Summarised'
  BY <1>1, <1>3 DEF IInv, AtHand, BuiltMeans, Selected, Ends, SameLibraries, Summarised, AllBuilt
<1>7. Visited'
  <2>1. ASSUME NEW p \in ProfileSet, NEW t \in Targets, Explained(p, t)
        PROVE  Explained(p, t)'
    BY <1>1, <1>2, <2>1 DEF Explained, Justified
  <2>2. \A i \in DOMAIN Profiles : Profiles[i] \in ProfileSet
    BY DEF ProfileSet, Range
  <2>3. job.at \in {"target", "verify"} => Profile \in ProfileSet /\ Profile' = Profile
    BY <1>1 DEF IInv, AtHand, Profile, ProfileSet, Range
  <2>4. job.pinned \in Int
    BY BuildAssumption DEF IInv, TypeOK, Jobs, Versions
  <2> QED BY <1>1, <1>2, <1>3, <2>1, <2>2, <2>3, <2>4 DEF IInv, Visited
<1> QED BY <1>1, <1>2, <1>4, <1>5, <1>6, <1>7 DEF IInv

-----------------------------------------------------------------------------
(* The build of a profile.                                                 *)

\* What a step of the profile p may do: it concerns p alone, and leaves the rows of p
\* explained.
Types ==
    /\ job' \in Jobs /\ faults' \in 0 .. Faults /\ faults <= faults'
    /\ late' \in {"none", "profile", "job"}
    /\ late' = "profile" => job'.at \in {"target", "verify"}
    /\ rows' \in [ProfileSet -> [Targets -> Row]]
    /\ madeFrom' \in [ProfileSet -> [Targets -> Versions]]
    /\ \A p \in ProfileSet, t \in Targets : madeFrom'[p][t] <= disk.source

Moves ==
    /\ job.at \in {"configure", "target", "verify"}
    /\ job'.at \in {"profile", "target", "verify"}
    /\ job'.next = IF job'.at = "profile" THEN job.next + 1 ELSE job.next
    /\ job'.todo \subseteq Targets /\ (job'.at # "target" => job'.todo = {})
    /\ disk' = disk /\ job'.error = job.error /\ SameFrame(job, job')

Elsewhere(p) ==
    \A q \in ProfileSet \ {p} :
        /\ rows'[q] = rows[q] /\ job'.certified[q] = job.certified[q]
        /\ job'.shared[q] = job.shared[q]
        /\ (q \in job'.broken <=> q \in job.broken)

RowsOf(p) ==
    /\ job'.at = "verify" => job'.manifest # None
    /\ job'.at \in {"target", "verify"} => job'.pinned <= disk.tree[p]
    /\ \A t \in Targets : rows'[p][t].status = "BUILT" =>
           job'.certified[p] # None /\ rows'[p][t].compile = "SUCCEEDED"
    /\ \A t \in Targets \ job'.todo : Explained(p, t)'
    /\ \A t \in job'.todo : rows'[p][t].stage = "none"

Providers(p) ==
    p = "cpu" =>
        /\ job.aocl.status = "rejected" => \A t \in Targets : t.library = "rocblas" =>
               rows'[p][t].compile = "NOT_ATTEMPTED" /\ t \notin job'.todo
        /\ job.aocl.status = "selected" => \A t \in Targets : rows'[p][t].status = "BUILT" =>
               job'.certified[p].libs = job.aocl.libs

\* The profiles are three, and cpu is the first.
LEMMA ThreeProfiles ==
    /\ DOMAIN Profiles = 1 .. 3 /\ Len(Profiles) = 3
    /\ \A i \in DOMAIN Profiles : Profiles[i] \in ProfileSet
    /\ \A i, k \in DOMAIN Profiles : Profiles[i] = Profiles[k] => i = k
    /\ ProfileSet = {"cpu", "hip", "openmp"} /\ Profiles[1] = "cpu"
<1>1. DOMAIN Profiles = 1 .. 3 /\ Len(Profiles) = 3
  BY DEF Profiles
<1>2. \A i \in 1 .. 3 : i = 1 \/ i = 2 \/ i = 3
  OBVIOUS
<1>3. Profiles[1] = "cpu" /\ Profiles[2] = "hip" /\ Profiles[3] = "openmp"
  BY DEF Profiles
<1> QED BY <1>1, <1>2, <1>3 DEF ProfileSet, Range

\* Such a step keeps the invariant.
LEMMA BuildKeeps ==
    ASSUME IInv, NEW p, p = Profile, Types, Moves, Elsewhere(p), RowsOf(p), Providers(p)
    PROVE  IInv'
<1>0. job.next \in DOMAIN Profiles /\ p \in ProfileSet /\ p = Profiles[job.next]
  BY ThreeProfiles DEF IInv, AtHand, Moves, Profile
<1>1. Targets' = Targets
  BY DEF Moves, SameFrame, Targets
<1>2. /\ job.at \in Working \ {"start", "setup", "profile", "combine"}
      /\ job.summary \notin {"BUILT", "PREPARED"} /\ ~job.error /\ job.before = Approved
  BY DEF IInv, Moves, Working, Summarised, Sourced, Preparing
<1>3. /\ job'.summary = job.summary /\ ~job'.error /\ job'.before = Approved
      /\ job'.at \in {"profile", "target", "verify"} /\ job'.aocl = job.aocl
      /\ job'.runtime = job.runtime
  BY <1>2 DEF Moves, SameFrame
<1>4. TypeOK'
  BY <1>1 DEF IInv, TypeOK, Types, Moves
<1>5. Counted'
  <2>1. /\ disk.source \in Nat /\ \A k \in {"cpu", "gpu"} : disk.libs[k] \in Nat
        /\ \A q \in ProfileSet : disk.tree[q] \in Nat /\ disk.binaries[q] \in Nat
        /\ faults \in Nat /\ faults' \in Nat
    BY BuildAssumption DEF IInv, TypeOK, Disk, Versions, Types
  <2> QED BY <2>1 DEF IInv, Counted, Types, Moves
<1>6. Sourced'
  BY <1>1, <1>3 DEF Sourced, Types, Moves, Working, Concluded, Preparing
<1>7. AtHand'
  BY <1>0, <1>3, ThreeProfiles DEF AtHand, Moves
<1>8. BuiltMeans'
  BY <1>1 DEF IInv, BuiltMeans, RowsOf, Elsewhere
<1>9. Ends' /\ Summarised'
  BY <1>2, <1>3 DEF Ends, Summarised, Concluded, Preparing
<1>10. Selected'
  <2>1. CASE p = "cpu"
    <3>1. job.next = 1
      <4>1. 1 \in DOMAIN Profiles /\ Profiles[1] = Profiles[job.next]
        BY <1>0, <2>1, ThreeProfiles
      <4> QED BY <1>0, <4>1, ThreeProfiles
    <3>2. job'.next = 1 => job'.at # "profile"
      BY <3>1 DEF Moves
    <3> QED BY <1>1, <1>3, <2>1 DEF Selected, Providers
  <2>2. CASE p # "cpu"
    <3>1. job.next # 1 /\ job.next \in 1 .. 3
      BY <1>0, <2>2, ThreeProfiles
    <3>2. job'.next # 1
      BY <3>1 DEF Moves
    <3>3. /\ rows'["cpu"] = rows["cpu"] /\ job'.certified["cpu"] = job.certified["cpu"]
      BY <2>2, ThreeProfiles DEF Elsewhere
    <3> QED BY <1>1, <1>3, <3>2, <3>3 DEF IInv, Selected
  <2> QED BY <2>1, <2>2
<1>11. Visited'
  <2>1. ASSUME NEW i \in DOMAIN Profiles, NEW t \in Targets, i < job.next
        PROVE  Explained(Profiles[i], t)'
    <3>1. Profiles[i] \in ProfileSet \ {p}
      BY <1>0, <2>1, ThreeProfiles
    <3>2. Explained(Profiles[i], t)
      BY <2>1 DEF IInv, Visited
    <3>3. /\ rows'[Profiles[i]] = rows[Profiles[i]] /\ disk' = disk
          /\ job'.shared[Profiles[i]] = job.shared[Profiles[i]]
          /\ (Profiles[i] \in job'.broken <=> Profiles[i] \in job.broken)
      BY <3>1 DEF Elsewhere, Moves
    <3> QED BY <3>2, <3>3 DEF Explained, Justified
  <2>2. CASE job'.at = "profile"
    <3>1. job'.next = job.next + 1 /\ job'.todo = {}
      BY <2>2 DEF Moves
    <3>2. \A t \in Targets : Explained(p, t)'
      BY <3>1 DEF RowsOf
    <3>3. \A i \in DOMAIN Profiles : i < job'.next => i < job.next \/ i = job.next
      BY <1>0, <3>1, ThreeProfiles
    <3>4. \A i \in DOMAIN Profiles, t \in Targets : i < job'.next => Explained(Profiles[i], t)'
      BY <1>0, <2>1, <3>2, <3>3
    <3> QED BY <1>1, <2>2, <3>4 DEF Visited
  <2>3. CASE job'.at # "profile"
    <3>1. job'.next = job.next /\ Profile' = p
      BY <2>3 DEF Moves, Profile
    <3> QED BY <1>1, <2>1, <3>1 DEF Visited, RowsOf, Moves
  <2> QED BY <2>2, <2>3
<1> QED BY <1>4, <1>5, <1>6, <1>7, <1>8, <1>9, <1>10, <1>11 DEF IInv

\* A process that has left a profile.
LEMMA Left ==
    ASSUME NEW j \in Jobs, j.next \in 1 .. 3, Leaves(j), late \in {"none", "profile", "job"}
    PROVE  /\ job' \in Jobs /\ job'.at = "profile" /\ job'.error = j.error
           /\ job'.next = j.next + 1 /\ job'.todo = {} /\ SameFrame(j, job')
           /\ job'.shared = j.shared
           /\ job'.broken = j.broken /\ job'.certified = j.certified
           /\ late' \in {"none", "job"}
<1> DEFINE k == [j EXCEPT !.next = j.next + 1, !.todo = {}, !.pinned = 0, !.libs = 0,
                          !.manifest = None]
<1>1. Goes(k, "profile") /\ late' \in {"none", "job"}
  BY DEF Leaves
<1>2. 0 \in Versions /\ None \in Manifests /\ j.next + 1 \in 1 .. Len(Profiles) + 1
  BY BuildAssumption, ThreeProfiles DEF Versions, None, Manifests
<1>3. /\ k \in Jobs /\ k.at = j.at /\ k.error = j.error /\ k.next = j.next + 1 /\ k.todo = {}
      /\ SameFrame(j, k) /\ k.shared = j.shared
      /\ k.broken = j.broken /\ k.certified = j.certified
  <2> DEFINE a == [j EXCEPT !.next = j.next + 1, !.todo = {}]
             b == [a EXCEPT !.pinned = 0, !.libs = 0]
  <2>1. /\ a \in Jobs /\ a.at = j.at /\ a.error = j.error /\ a.next = j.next + 1 /\ a.todo = {}
        /\ SameFrame(j, a) /\ a.shared = j.shared
        /\ a.broken = j.broken /\ a.certified = j.certified
    BY <1>2, JobDomain DEF Jobs, SameFrame
  <2>2. k = [b EXCEPT !.manifest = None]
    OBVIOUS
  <2> HIDE DEF a
  <2>3. /\ b \in Jobs /\ b.at = a.at /\ b.error = a.error /\ b.next = a.next /\ b.todo = a.todo
        /\ SameFrame(a, b) /\ b.shared = a.shared
        /\ b.broken = a.broken /\ b.certified = a.certified
    BY <1>2, <2>1, JobDomain DEF Jobs, SameFrame
  <2> HIDE DEF b, k
  <2>4. /\ k \in Jobs /\ k.at = b.at /\ k.error = b.error /\ k.next = b.next /\ k.todo = b.todo
        /\ SameFrame(b, k) /\ k.shared = b.shared
        /\ k.broken = b.broken /\ k.certified = b.certified
    BY <1>2, <2>2, <2>3, JobDomain DEF Jobs, SameFrame
  <2> QED BY <2>1, <2>3, <2>4 DEF SameFrame
<1> HIDE DEF k
<1> QED BY <1>1, <1>3, Moved DEF SameFrame, SameBuild, Places

\* The next profile, after a configuration that failed or enabled nothing.
LEMMA NextProfile ==
    ASSUME NEW j \in Jobs, j.next \in 1 .. 3, Goes([j EXCEPT !.next = @ + 1], "profile")
    PROVE  /\ job' \in Jobs /\ job'.at = "profile" /\ job'.error = j.error
           /\ job'.next = j.next + 1 /\ job'.todo = j.todo /\ SameFrame(j, job')
           /\ job'.shared = j.shared
           /\ job'.broken = j.broken /\ job'.certified = j.certified
<1> DEFINE k == [j EXCEPT !.next = j.next + 1]
<1>1. Goes(k, "profile")
  OBVIOUS
<1>2. j.next + 1 \in 1 .. Len(Profiles) + 1
  BY ThreeProfiles
<1>3. /\ k \in Jobs /\ k.error = j.error /\ k.next = j.next + 1 /\ k.todo = j.todo
      /\ SameFrame(j, k) /\ k.shared = j.shared
      /\ k.broken = j.broken /\ k.certified = j.certified
  BY <1>2, JobDomain DEF Jobs, SameFrame
<1> HIDE DEF k
<1> QED BY <1>1, <1>3, Moved DEF SameFrame, SameBuild, Places

\* Sets of targets.
Names == SUBSET Slots(FALSE)

\* What a configuration leaves to be built.
WithNames(j, names, v, w) == [j EXCEPT !.todo = names, !.pinned = v, !.libs = w]

\* It concerns the targets of the profile, and no other.
LEMMA WithTargets ==
    ASSUME NEW j \in Jobs, NEW names \in Names, NEW v \in Versions,
           NEW w \in Versions
    PROVE  LET k == WithNames(j, names, v, w)
           IN  /\ k \in Jobs /\ k.error = j.error /\ k.next = j.next /\ k.todo = names
               /\ k.pinned = v /\ SameFrame(j, k) /\ k.shared = j.shared
               /\ k.broken = j.broken
               /\ k.certified = j.certified
BY JobDomain DEF Jobs, SameFrame, WithNames, Names

\* One target less.
LEMMA WithTodo ==
    ASSUME NEW j \in Jobs, NEW names \in Names
    PROVE  LET k == [j EXCEPT !.todo = names]
           IN  /\ k \in Jobs /\ k.error = j.error /\ k.next = j.next /\ k.todo = names
               /\ k.pinned = j.pinned /\ SameFrame(j, k) /\ k.shared = j.shared
               /\ k.broken = j.broken
               /\ k.certified = j.certified /\ k.manifest = j.manifest
BY JobDomain DEF Jobs, SameFrame, Names

\* A shared dependency that was tried.
WithAttempt(j, p, d, r) == [j EXCEPT !.shared[p][d] = r]

\* It is noted for the profile, and nowhere else.
LEMMA WithShared ==
    ASSUME NEW j \in Jobs, NEW p \in ProfileSet, NEW d \in Dependencies, NEW r \in Compiles
    PROVE  LET k == WithAttempt(j, p, d, r)
           IN  /\ k \in Jobs /\ k.error = j.error /\ k.next = j.next /\ k.todo = j.todo
               /\ k.pinned = j.pinned /\ SameFrame(j, k) /\ k.certified = j.certified
               /\ k.manifest = j.manifest
               /\ \A q \in ProfileSet \ {p} : k.shared[q] = j.shared[q]
               /\ \A e : e # d => k.shared[p][e] = j.shared[p][e]
               /\ k.broken = j.broken
<1> DEFINE s == [j.shared EXCEPT ![p] = [j.shared[p] EXCEPT ![d] = r]]
           k == [j EXCEPT !.shared = s]
<1>1. /\ j.shared \in [ProfileSet -> [Dependencies -> {"untried"} \cup Compiles]]
      /\ j.shared[p] \in [Dependencies -> {"untried"} \cup Compiles]
  BY DEF Jobs
<1>2. WithAttempt(j, p, d, r) = k
  BY <1>1, JobDomain DEF WithAttempt
<1>3. /\ s \in [ProfileSet -> [Dependencies -> {"untried"} \cup Compiles]]
      /\ \A q \in ProfileSet \ {p} : s[q] = j.shared[q]
      /\ \A e : e # d => s[p][e] = j.shared[p][e]
  BY <1>1
<1> HIDE DEF s
<1>4. /\ k \in Jobs /\ k.error = j.error /\ k.next = j.next /\ k.todo = j.todo
      /\ k.pinned = j.pinned /\ SameFrame(j, k) /\ k.certified = j.certified
      /\ k.manifest = j.manifest /\ k.shared = s /\ k.broken = j.broken
  BY <1>3, JobDomain DEF Jobs, SameFrame
<1> HIDE DEF k
<1> QED BY <1>2, <1>3, <1>4

\* An attempt whose exception ends the profile p.
WithBreak(j, p) == [j EXCEPT !.broken = @ \cup {p}]

\* It is noted, and nothing else is.
LEMMA WithBroken ==
    ASSUME NEW j \in Jobs, NEW p \in ProfileSet
    PROVE  LET k == WithBreak(j, p)
           IN  /\ k \in Jobs /\ k.error = j.error /\ k.next = j.next /\ k.todo = j.todo
               /\ k.pinned = j.pinned /\ SameFrame(j, k) /\ k.certified = j.certified
               /\ k.manifest = j.manifest /\ k.shared = j.shared
               /\ k.broken = j.broken \cup {p}
<1> DEFINE S == j.broken \cup {p}
           k == [j EXCEPT !.broken = S]
<1>1. S \in SUBSET ProfileSet
  BY DEF Jobs
<1>2. WithBreak(j, p) = k
  BY DEF WithBreak
<1> HIDE DEF S
<1>3. /\ k \in Jobs /\ k.error = j.error /\ k.next = j.next /\ k.todo = j.todo
      /\ k.pinned = j.pinned /\ SameFrame(j, k) /\ k.certified = j.certified
      /\ k.manifest = j.manifest /\ k.shared = j.shared /\ k.broken = S
  BY <1>1, JobDomain DEF Jobs, SameFrame
<1> HIDE DEF k
<1> QED BY <1>2, <1>3 DEF S

\* The manifest of the profile.
LEMMA WithManifest ==
    ASSUME NEW j \in Jobs, NEW m \in Manifests
    PROVE  LET k == [j EXCEPT !.manifest = m]
           IN  /\ k \in Jobs /\ k.error = j.error /\ k.next = j.next /\ k.todo = j.todo
               /\ k.pinned = j.pinned /\ SameFrame(j, k) /\ k.shared = j.shared
               /\ k.broken = j.broken
               /\ k.certified = j.certified /\ k.manifest = m
BY JobDomain DEF Jobs, SameFrame

\* The certificate of a profile, the manifest it was verified against.
WithCertified(j, p, m) == [j EXCEPT !.certified[p] = m]

\* No other profile's certificate changes.
LEMMA WithCertificate ==
    ASSUME NEW j \in Jobs, NEW p \in ProfileSet, NEW m \in Manifests
    PROVE  LET k == WithCertified(j, p, m)
           IN  /\ k \in Jobs /\ k.error = j.error /\ k.next = j.next /\ SameFrame(j, k)
               /\ k.shared = j.shared /\ k.broken = j.broken /\ k.certified[p] = m
               /\ \A q \in ProfileSet \ {p} : k.certified[q] = j.certified[q]
<1>1. j.certified \in [ProfileSet -> Manifests]
  BY DEF Jobs
<1>2. [j.certified EXCEPT ![p] = m] \in [ProfileSet -> Manifests]
  BY <1>1
<1> QED BY <1>1, <1>2, JobDomain DEF Jobs, SameFrame, WithCertified

-----------------------------------------------------------------------------
(* The actions that build a profile.                                       *)

\* Where a profile is at hand.
LEMMA Here ==
    ASSUME IInv, job.at \in {"configure", "target", "verify"}
    PROVE  /\ job \in Jobs /\ job.next \in 1 .. 3 /\ Profile \in ProfileSet
           /\ disk \in Disk /\ late \in {"none", "profile", "job"}
           /\ rows \in [ProfileSet -> [Targets -> Row]]
           /\ rows[Profile] \in [Targets -> Row]
           /\ madeFrom \in [ProfileSet -> [Targets -> Versions]]
           /\ \A p \in ProfileSet, t \in Targets : madeFrom[p][t] <= disk.source
           /\ job.todo \subseteq Targets
           /\ Profile = "cpu" => job.next = 1
           /\ Versions \subseteq Nat
<1>1. job.next \in DOMAIN Profiles
  BY DEF IInv, AtHand
<1>2. Profile \in ProfileSet /\ (Profile = "cpu" => job.next = 1) /\ job.next \in 1 .. 3
  <2>1. 1 \in DOMAIN Profiles
    BY ThreeProfiles
  <2> QED BY <1>1, <2>1, ThreeProfiles DEF Profile
<1>3. Versions \subseteq Nat
  BY BuildAssumption DEF Versions
<1> QED BY <1>2, <1>3 DEF IInv, TypeOK, Sourced

\* The rows of one profile are replaced.
LEMMA RowsChange ==
    ASSUME rows \in [ProfileSet -> [Targets -> Row]], Profile \in ProfileSet,
           NEW r \in [Targets -> Row], rows' = [rows EXCEPT ![Profile] = r]
    PROVE  /\ rows' \in [ProfileSet -> [Targets -> Row]] /\ rows'[Profile] = r
           /\ \A q \in ProfileSet \ {Profile} : rows'[q] = rows[q]
OBVIOUS

\* A step that leaves the profile, with the rows r and what the process j has noted.
LEMMA LeaveKeeps ==
    ASSUME IInv, job.at \in {"configure", "target", "verify"},
           NEW j \in Jobs, j.next = job.next, j.error = job.error, SameFrame(job, j),
           \A q \in ProfileSet \ {Profile} :
               j.certified[q] = job.certified[q] /\ j.shared[q] = job.shared[q]
               /\ (q \in j.broken <=> q \in job.broken),
           NEW r \in [Targets -> Row], rows' = [rows EXCEPT ![Profile] = r],
           job' \in Jobs, job'.at = "profile", job'.error = j.error, job'.next = j.next + 1,
           job'.todo = {}, SameFrame(j, job'), job'.shared = j.shared /\ job'.broken = j.broken,
           job'.certified = j.certified, late' \in {"none", "job"},
           disk' = disk, faults' \in 0 .. Faults, faults <= faults',
           madeFrom' \in [ProfileSet -> [Targets -> Versions]],
           \A p \in ProfileSet, t \in Targets : madeFrom'[p][t] <= disk.source,
           \A t \in Targets :
               /\ r[t].status = "BUILT" => j.certified[Profile] # None
                                           /\ r[t].compile = "SUCCEEDED"
               /\ Justified(r[t], Profile, t, j),
           Profile = "cpu" => \A t \in Targets :
               /\ job.aocl.status = "rejected" /\ t.library = "rocblas" =>
                      r[t].compile = "NOT_ATTEMPTED"
               /\ job.aocl.status = "selected" /\ r[t].status = "BUILT" =>
                      j.certified[Profile].libs = job.aocl.libs
    PROVE  IInv'
<1>1. PICK p : p = Profile
  OBVIOUS
<1>2. /\ rows' \in [ProfileSet -> [Targets -> Row]] /\ rows'[p] = r
      /\ \A q \in ProfileSet \ {p} : rows'[q] = rows[q]
  BY <1>1, Here, RowsChange
<1>3. Types
  BY <1>2 DEF Types
<1>4. Moves
  BY DEF Moves, SameFrame
<1>5. Elsewhere(p)
  BY <1>1, <1>2 DEF Elsewhere
<1>6. RowsOf(p)
  <2>1. \A t \in Targets : Explained(p, t)'
    BY <1>1, <1>2 DEF Explained, Justified
  <2> QED BY <1>1, <1>2, <2>1 DEF RowsOf
<1>7. Providers(p)
  BY <1>1, <1>2 DEF Providers
<1> QED BY <1>1, <1>3, <1>4, <1>5, <1>6, <1>7, BuildKeeps

\* A profile that stops early: nothing of it is BUILT, and what was not attempted is
\* left because its files have changed, because an attempt broke, or for the reason it
\* had.
LEMMA StopKeeps ==
    ASSUME IInv, job.at \in {"target", "verify"},
           NEW j \in Jobs, j.next = job.next, j.error = job.error, SameFrame(job, j),
           j.certified = job.certified,
           \A q \in ProfileSet \ {Profile} : j.shared[q] = job.shared[q]
                                             /\ (q \in j.broken <=> q \in job.broken),
           NEW r \in [Targets -> Row], NEW phase \in Stages, ProfileStops(j, r, phase),
           disk' = disk, faults' \in 0 .. Faults, faults <= faults',
           madeFrom' \in [ProfileSet -> [Targets -> Versions]],
           \A p \in ProfileSet, t \in Targets : madeFrom'[p][t] <= disk.source,
           \A t \in Targets : r[t].status = "BUILT" => r[t].compile = "SUCCEEDED",
           Profile = "cpu" /\ job.aocl.status = "rejected" => \A t \in Targets :
               t.library = "rocblas" => r[t].compile = "NOT_ATTEMPTED",
           \A t \in Targets : \/ t \in job.todo /\ r[t].stage = "none"
                             \/ Justified(r[t], Profile, t, j),
           job.todo = {} \/ ~Unchanged \/ Profile \in j.broken
    PROVE  IInv'
<1>0. job.next \in 1 .. 3 /\ Profile \in ProfileSet /\ late \in {"none", "profile", "job"}
  BY Here
<1> DEFINE u == [t \in Targets |->
          IF r[t].compile = "SUCCEEDED"
          THEN [r[t] EXCEPT !.status = "FAILED", !.stage = phase]
          ELSE IF r[t].status = "NOT_ATTEMPTED" /\ r[t].stage = "none" /\ t \in job.todo
          THEN [r[t] EXCEPT !.stage = "PROFILE_PROVENANCE"] ELSE r[t]]
<1>1. rows' = [rows EXCEPT ![Profile] = u] /\ Leaves(j)
  BY DEF ProfileStops
<1>2. /\ job' \in Jobs /\ job'.at = "profile" /\ job'.error = j.error
      /\ job'.next = j.next + 1 /\ job'.todo = {} /\ SameFrame(j, job')
      /\ job'.shared = j.shared /\ job'.broken = j.broken /\ job'.certified = j.certified
      /\ late' \in {"none", "job"}
  BY <1>0, <1>1, Left
<1>3. ASSUME NEW t \in Targets
      PROVE  /\ u[t] \in Row /\ u[t].status # "BUILT"
             /\ u[t].compile = r[t].compile
             /\ u[t].status = "NOT_ATTEMPTED" =>
                    \/ u[t] = r[t] /\ ~(t \in job.todo /\ r[t].stage = "none")
                    \/ t \in job.todo /\ u[t].stage = "PROFILE_PROVENANCE"
  <2>1. r[t] \in Row /\ "PROFILE_PROVENANCE" \in Stages
    BY DEF Stages
  <2>2. CASE r[t].compile = "SUCCEEDED"
    BY <2>1, <2>2 DEF Row
  <2>3. CASE /\ r[t].compile # "SUCCEEDED" /\ r[t].status = "NOT_ATTEMPTED"
             /\ r[t].stage = "none" /\ t \in job.todo
    BY <2>1, <2>3 DEF Row
  <2>4. CASE /\ r[t].compile # "SUCCEEDED"
             /\ ~(r[t].status = "NOT_ATTEMPTED" /\ r[t].stage = "none" /\ t \in job.todo)
    BY <2>1, <2>4 DEF Row
  <2> QED BY <2>2, <2>3, <2>4
<1>4. u \in [Targets -> Row]
  BY <1>3
<1> HIDE DEF u
<1>5. ASSUME NEW t \in Targets
      PROVE  Justified(u[t], Profile, t, j)
  <2>1. CASE u[t].status # "NOT_ATTEMPTED"
    BY <2>1 DEF Justified
  <2>2. CASE /\ u[t].status = "NOT_ATTEMPTED" /\ u[t] = r[t]
             /\ ~(t \in job.todo /\ r[t].stage = "none")
    BY <2>2
  <2>3. CASE t \in job.todo /\ u[t].stage = "PROFILE_PROVENANCE"
    <3>1. ASSUME ~Unchanged PROVE disk.tree[Profile] # 0
      <4>1. job.pinned <= disk.tree[Profile] /\ disk.tree[Profile] # job.pinned
        BY <3>1 DEF Unchanged, IInv, Visited
      <4>2. job.pinned \in Nat /\ disk.tree[Profile] \in Nat
        BY <1>0, BuildAssumption DEF IInv, TypeOK, Jobs, Disk, Versions
      <4> QED BY <4>1, <4>2
    <3> QED BY <2>3, <3>1 DEF Justified
  <2> QED BY <1>3, <2>1, <2>2, <2>3
<1>6. \A t \in Targets :
          /\ u[t].status = "BUILT" => j.certified[Profile] # None /\ u[t].compile = "SUCCEEDED"
          /\ Justified(u[t], Profile, t, j)
  BY <1>3, <1>5
<1>7. Profile = "cpu" => \A t \in Targets :
          /\ job.aocl.status = "rejected" /\ t.library = "rocblas" =>
                 u[t].compile = "NOT_ATTEMPTED"
          /\ job.aocl.status = "selected" /\ u[t].status = "BUILT" =>
                 j.certified[Profile].libs = job.aocl.libs
  BY <1>3
<1>8. /\ rows' = [rows EXCEPT ![Profile] = u] /\ job.at \in {"configure", "target", "verify"}
      /\ \A q \in ProfileSet \ {Profile} :
             j.certified[q] = job.certified[q] /\ j.shared[q] = job.shared[q]
             /\ (q \in j.broken <=> q \in job.broken)
  BY <1>1
<1> QED BY ZenonT(60), <1>2, <1>4, <1>6, <1>7, <1>8, LeaveKeeps

\* The configuration of a profile.
LEMMA ConfigureKeeps ==
    ASSUME IInv, Configure
    PROVE  IInv'
<1> USE DEF Places
<1>0. /\ job.at = "configure" /\ job.todo = {} /\ late # "profile"
      /\ disk' = disk /\ late' = late /\ madeFrom' = madeFrom /\ late \in {"none", "job"}
  BY Here DEF Configure, At, IInv, AtHand, TypeOK
<1>1. /\ job \in Jobs /\ job.next \in 1 .. 3 /\ Profile \in ProfileSet
      /\ disk \in Disk /\ madeFrom \in [ProfileSet -> [Targets -> Versions]]
      /\ rows \in [ProfileSet -> [Targets -> Row]]
      /\ \A p \in ProfileSet, t \in Targets : madeFrom[p][t] <= disk.source
  BY <1>0, Here
<1>2. faults' \in 0 .. Faults /\ faults <= faults'
  BY FaultsCount DEF IInv, Configure, Runs, Compiles
<1>3. PICK libraries \in SUBSET Libraries :
        /\ Profile = "cpu" => SelectionHolds(libraries)
        /\ rows' = [rows EXCEPT ![Profile] = [t \in Targets |->
              IF t.library \in libraries THEN Unbuilt
              ELSE [Unbuilt EXCEPT !.status = "NOT_BUILT_DEPENDENCY"]]]
        /\ IF {t \in Targets : t.library \in libraries} = {}
           THEN Goes([job EXCEPT !.next = @ + 1], "profile")
           ELSE Goes([job EXCEPT !.todo = {t \in Targets : t.library \in libraries},
                                 !.pinned = disk.tree[Profile],
                                 !.libs = disk.libs[LibsOf(Profile)]], "target")
  BY DEF Configure
<1> DEFINE r == [t \in Targets |->
              IF t.library \in libraries THEN Unbuilt
              ELSE [Unbuilt EXCEPT !.status = "NOT_BUILT_DEPENDENCY"]]
           names == {t \in Targets : t.library \in libraries}
<1>4. Unbuilt \in Row /\ [Unbuilt EXCEPT !.status = "NOT_BUILT_DEPENDENCY"] \in Row
  BY DEF Unbuilt, Row, Compiles, Stages
<1>5. /\ r \in [Targets -> Row] /\ rows' = [rows EXCEPT ![Profile] = r]
      /\ \A t \in Targets : /\ r[t].status # "BUILT" /\ r[t].compile = "NOT_ATTEMPTED"
                            /\ r[t].stage = "none"
                            /\ t \notin names => r[t].status = "NOT_BUILT_DEPENDENCY"
  BY <1>3, <1>4 DEF Unbuilt
<1>6. Profile = "cpu" /\ job.aocl.status = "rejected" =>
        \A t \in Targets : t.library = "rocblas" => t \notin names
  BY <1>3 DEF SelectionHolds
<1>7. /\ names = {} => Goes([job EXCEPT !.next = @ + 1], "profile")
      /\ names # {} => Goes([job EXCEPT !.todo = names, !.pinned = disk.tree[Profile],
                                        !.libs = disk.libs[LibsOf(Profile)]], "target")
  BY <1>3
<1>8. names \subseteq Targets
  OBVIOUS
<1> HIDE DEF r, names
<1>9. CASE names = {}
  <2>1. /\ job' \in Jobs /\ job'.at = "profile" /\ job'.error = job.error
        /\ job'.next = job.next + 1 /\ job'.todo = {} /\ SameFrame(job, job')
        /\ job'.shared = job.shared
        /\ job'.broken = job.broken /\ job'.certified = job.certified
    BY <1>0, <1>1, <1>7, <1>9, NextProfile
  <2>2. \A t \in Targets :
          /\ r[t].status = "BUILT" => job.certified[Profile] # None /\ r[t].compile = "SUCCEEDED"
          /\ Justified(r[t], Profile, t, job)
    BY <1>5, <1>9 DEF Justified
  <2>3. Profile = "cpu" => \A t \in Targets :
          /\ job.aocl.status = "rejected" /\ t.library = "rocblas" =>
                 r[t].compile = "NOT_ATTEMPTED"
          /\ job.aocl.status = "selected" /\ r[t].status = "BUILT" =>
                 job.certified[Profile].libs = job.aocl.libs
    BY <1>5
  <2>4. SameFrame(job, job)
    BY DEF SameFrame
  <2> QED BY <1>0, <1>1, <1>2, <1>5, <2>1, <2>2, <2>3, <2>4, LeaveKeeps
<1>10. CASE names # {}
  <2>1. PICK p : p = Profile
    OBVIOUS
  <2>2. PICK k : k = [job EXCEPT !.todo = names, !.pinned = disk.tree[Profile],
                                 !.libs = disk.libs[LibsOf(Profile)]]
    OBVIOUS
  <2>3. /\ disk.tree[Profile] \in Versions /\ disk.libs[LibsOf(Profile)] \in Versions
        /\ names \in SUBSET Slots(FALSE)
    BY <1>1, <1>8 DEF Disk, LibsOf, Targets, Slots
  <2>4. /\ k \in Jobs /\ k.error = job.error /\ k.next = job.next /\ k.todo = names
        /\ k.pinned = disk.tree[Profile] /\ SameFrame(job, k) /\ k.shared = job.shared
        /\ k.broken = job.broken
        /\ k.certified = job.certified
    <3>1. PICK j, n, v, w : /\ j = job /\ n = names
                            /\ v = disk.tree[Profile] /\ w = disk.libs[LibsOf(Profile)]
      OBVIOUS
    <3>2. j \in Jobs
      BY <1>1, <3>1
    <3>3. v \in Versions /\ w \in Versions
      BY <2>3, <3>1
    <3>4. n \in Names
      BY <2>3, <3>1 DEF Names
    <3>5. k = WithNames(j, n, v, w)
      BY <2>2, <3>1 DEF WithNames
    <3>6. /\ k \in Jobs /\ k.error = j.error /\ k.next = j.next /\ k.todo = n
          /\ k.pinned = v /\ SameFrame(j, k) /\ k.shared = j.shared /\ k.broken = j.broken
          /\ k.certified = j.certified
      BY <3>2, <3>3, <3>4, <3>5, WithTargets
    <3> QED BY <3>1, <3>6
  <2>5. Goes(k, "target")
    BY <1>7, <1>10, <2>2
  <2>6. /\ job' \in Jobs /\ job'.at = "target" /\ job'.error = k.error
        /\ SameBuild(k, job') /\ SameFrame(k, job')
    BY <2>4, <2>5, Moved
  <2>7. /\ job'.next = job.next /\ job'.todo = names /\ job'.pinned = disk.tree[Profile]
        /\ job'.shared = job.shared
        /\ job'.broken = job.broken /\ job'.certified = job.certified
        /\ SameFrame(job, job') /\ job'.error = job.error
    BY <2>4, <2>6 DEF SameFrame, SameBuild
  <2>8. /\ rows' \in [ProfileSet -> [Targets -> Row]] /\ rows'[p] = r
        /\ \A q \in ProfileSet \ {p} : rows'[q] = rows[q]
    BY <1>1, <1>5, <2>1, RowsChange
  <2>9. Types
    BY <1>0, <1>1, <1>2, <2>6, <2>8 DEF Types
  <2>10. Moves
    BY <1>0, <1>8, <2>6, <2>7 DEF Moves
  <2>11. Elsewhere(p)
    BY <2>7, <2>8 DEF Elsewhere
  <2>12. RowsOf(p)
    <3>1. disk.tree[p] \in Nat
      BY <1>1, <2>1, BuildAssumption DEF Disk, Versions
    <3>2. \A t \in Targets \ job'.todo : Explained(p, t)'
      BY <1>5, <2>7, <2>8 DEF Explained, Justified
    <3> QED BY <1>5, <1>8, <2>1, <2>6, <2>7, <2>8, <3>1, <3>2 DEF RowsOf
  <2>13. Providers(p)
    BY <1>5, <1>6, <2>1, <2>7, <2>8 DEF Providers
  <2> QED BY <2>1, <2>9, <2>10, <2>11, <2>12, <2>13, BuildKeeps
<1> QED BY <1>9, <1>10

\* The configuration that fails leaves its rows FAILED, or never enabled.
LEMMA ConfigureFailsKeeps ==
    ASSUME IInv, ConfigureFails
    PROVE  IInv'
<1>0. /\ job.at = "configure" /\ job.todo = {}
      /\ disk' = disk /\ late' = late /\ madeFrom' = madeFrom /\ late \in {"none", "job"}
      /\ Goes([job EXCEPT !.next = @ + 1], "profile")
  BY Here DEF ConfigureFails, At, IInv, AtHand, TypeOK
<1>1. /\ job \in Jobs /\ job.next \in 1 .. 3 /\ Profile \in ProfileSet
      /\ disk \in Disk /\ madeFrom \in [ProfileSet -> [Targets -> Versions]]
      /\ \A p \in ProfileSet, t \in Targets : madeFrom[p][t] <= disk.source
  BY <1>0, Here
<1>2. faults' \in 0 .. Faults /\ faults <= faults'
  BY FaultsCount DEF IInv, ConfigureFails, Fails, Refused, Compiles
<1>3. PICK disabled \in SUBSET Libraries :
        rows' = [rows EXCEPT ![Profile] = [t \in Targets |->
                IF t.library \in disabled
                THEN [Unbuilt EXCEPT !.status = "NOT_BUILT_DEPENDENCY"]
                ELSE [Unbuilt EXCEPT !.status = "FAILED", !.stage = "CONFIGURE"]]]
  BY DEF ConfigureFails
<1> DEFINE r == [t \in Targets |->
                IF t.library \in disabled
                THEN [Unbuilt EXCEPT !.status = "NOT_BUILT_DEPENDENCY"]
                ELSE [Unbuilt EXCEPT !.status = "FAILED", !.stage = "CONFIGURE"]]
<1>4. /\ [Unbuilt EXCEPT !.status = "NOT_BUILT_DEPENDENCY"] \in Row
      /\ [Unbuilt EXCEPT !.status = "FAILED", !.stage = "CONFIGURE"] \in Row
  BY DEF Unbuilt, Row, Compiles, Stages
<1>5. /\ r \in [Targets -> Row] /\ rows' = [rows EXCEPT ![Profile] = r]
      /\ \A t \in Targets : /\ r[t].status \notin {"BUILT", "NOT_ATTEMPTED"}
                            /\ r[t].compile = "NOT_ATTEMPTED"
  BY <1>3, <1>4 DEF Unbuilt
<1> HIDE DEF r
<1>6. /\ job' \in Jobs /\ job'.at = "profile" /\ job'.error = job.error
      /\ job'.next = job.next + 1 /\ job'.todo = {} /\ SameFrame(job, job')
      /\ job'.shared = job.shared
      /\ job'.broken = job.broken /\ job'.certified = job.certified
  BY <1>0, <1>1, NextProfile
<1>7. \A t \in Targets :
        /\ r[t].status = "BUILT" => job.certified[Profile] # None /\ r[t].compile = "SUCCEEDED"
        /\ Justified(r[t], Profile, t, job)
  BY <1>5 DEF Justified
<1>8. Profile = "cpu" => \A t \in Targets :
        /\ job.aocl.status = "rejected" /\ t.library = "rocblas" =>
               r[t].compile = "NOT_ATTEMPTED"
        /\ job.aocl.status = "selected" /\ r[t].status = "BUILT" =>
               job.certified[Profile].libs = job.aocl.libs
  BY <1>5
<1>9. SameFrame(job, job)
  BY DEF SameFrame
<1> QED BY <1>0, <1>1, <1>2, <1>5, <1>6, <1>7, <1>8, <1>9, LeaveKeeps

\* A step that stays with the profile, with the rows r and the process j.
LEMMA StayKeeps ==
    ASSUME IInv, job.at = "target",
           NEW j \in Jobs, j.next = job.next, j.error = job.error, SameFrame(job, j),
           j.certified = job.certified, j.pinned = job.pinned,
           \A q \in ProfileSet \ {Profile} : j.shared[q] = job.shared[q]
                                             /\ (q \in j.broken <=> q \in job.broken),
           j.todo \subseteq job.todo, NEW s \in {"target", "verify"}, Goes(j, s),
           s = "verify" => j.todo = {} /\ j.manifest # None,
           NEW r \in [Targets -> Row], rows' = [rows EXCEPT ![Profile] = r],
           disk' = disk, late' = late, faults' \in 0 .. Faults, faults <= faults',
           madeFrom' \in [ProfileSet -> [Targets -> Versions]],
           \A p \in ProfileSet, t \in Targets : madeFrom'[p][t] <= disk.source,
           \A t \in Targets : r[t].status = "BUILT" =>
               rows[Profile][t].status = "BUILT" /\ r[t].compile = "SUCCEEDED",
           \A t \in Targets \ j.todo : Justified(r[t], Profile, t, j),
           \A t \in j.todo : r[t].stage = "none",
           Profile = "cpu" /\ job.aocl.status = "rejected" => \A t \in Targets :
               t.library = "rocblas" => r[t].compile = "NOT_ATTEMPTED"
    PROVE  IInv'
<1>1. PICK p : p = Profile
  OBVIOUS
<1>2. /\ rows' \in [ProfileSet -> [Targets -> Row]] /\ rows'[p] = r
      /\ \A q \in ProfileSet \ {p} : rows'[q] = rows[q]
  BY <1>1, Here, RowsChange
<1>3. /\ job' \in Jobs /\ job'.at = s /\ job'.error = j.error
      /\ SameBuild(j, job') /\ SameFrame(j, job')
  BY Moved DEF Places
<1>4. /\ job'.next = job.next /\ job'.todo = j.todo /\ job'.pinned = job.pinned
      /\ job'.shared = j.shared /\ job'.broken = j.broken /\ job'.certified = job.certified
      /\ SameFrame(job, job') /\ job'.error = job.error /\ job'.manifest = j.manifest
  BY <1>3 DEF SameFrame, SameBuild
<1>5. /\ job.todo \subseteq Targets /\ p \in ProfileSet /\ (p = "cpu" => job.next = 1)
      /\ late \in {"none", "profile", "job"}
  BY <1>1, Here
<1>6. Types
  BY <1>2, <1>3, <1>5 DEF Types
<1>7. Moves
  BY <1>3, <1>4, <1>5 DEF Moves
<1>8. Elsewhere(p)
  BY <1>1, <1>2, <1>4 DEF Elsewhere
<1>9. RowsOf(p)
  <2>1. \A t \in Targets \ job'.todo : Explained(p, t)'
    BY <1>1, <1>2, <1>4 DEF Explained, Justified
  <2>2. job.pinned <= disk.tree[p]
    BY <1>1 DEF IInv, Visited
  <2>3. \A t \in Targets : r[t].status = "BUILT" =>
          job.certified[p] # None /\ r[t].compile = "SUCCEEDED"
    BY <1>1, <1>5 DEF IInv, BuiltMeans
  <2> QED BY <1>2, <1>3, <1>4, <2>1, <2>2, <2>3 DEF RowsOf
<1>10. Providers(p)
  BY <1>1, <1>2, <1>4, <1>5 DEF Providers, IInv, Selected
<1> QED BY <1>1, <1>6, <1>7, <1>8, <1>9, <1>10, BuildKeeps

\* The row of one target is replaced.
LEMMA OneRow ==
    ASSUME rows \in [ProfileSet -> [Targets -> Row]], Profile \in ProfileSet,
           NEW t \in Targets, NEW row \in Row, RowBecomes(t, row)
    PROVE  LET r == [rows[Profile] EXCEPT ![t] = row]
           IN  /\ r \in [Targets -> Row] /\ rows' = [rows EXCEPT ![Profile] = r]
               /\ r[t] = row /\ \A u \in Targets \ {t} : r[u] = rows[Profile][u]
BY DEF RowBecomes

\* An attempt whose exception is not caught ends the profile.
LEMMA BreakKeeps ==
    ASSUME IInv, job.at = "target", AttemptBreaks, disk' = disk,
           madeFrom' \in [ProfileSet -> [Targets -> Versions]],
           \A p \in ProfileSet, t \in Targets : madeFrom'[p][t] <= disk.source
    PROVE  IInv'
<1>1. /\ job \in Jobs /\ Profile \in ProfileSet /\ rows[Profile] \in [Targets -> Row]
  BY Here
<1>2. faults' \in 0 .. Faults /\ faults <= faults'
  BY FaultsCount DEF IInv, AttemptBreaks
<1>3. PICK p, j0, j : p = Profile /\ j0 = job /\ j = WithBreak(j0, p)
  OBVIOUS
<1>4. j0 \in Jobs /\ p \in ProfileSet
  BY <1>1, <1>3
<1>5. /\ j \in Jobs /\ j.error = j0.error /\ j.next = j0.next /\ SameFrame(j0, j)
      /\ j.certified = j0.certified /\ j.shared = j0.shared /\ j.broken = j0.broken \cup {p}
  BY <1>3, <1>4, WithBroken
<1>6. ProfileStops(j, rows[Profile], "PROFILE_PROVENANCE") /\ "PROFILE_PROVENANCE" \in Stages
  BY <1>3 DEF AttemptBreaks, WithBreak, Stages
<1>7. PICK r, phase : r = rows[Profile] /\ phase = "PROFILE_PROVENANCE"
  OBVIOUS
<1>8. r \in [Targets -> Row] /\ phase \in Stages /\ ProfileStops(j, r, phase)
  BY <1>1, <1>6, <1>7
<1>9. /\ \A u \in Targets : r[u].status = "BUILT" => r[u].compile = "SUCCEEDED"
      /\ Profile = "cpu" /\ job.aocl.status = "rejected" => \A u \in Targets :
             u.library = "rocblas" => r[u].compile = "NOT_ATTEMPTED"
  BY <1>1, <1>7 DEF IInv, BuiltMeans, Selected
<1>10. \A u \in Targets : \/ u \in job.todo /\ r[u].stage = "none"
                          \/ Justified(r[u], Profile, u, j)
  <2>1. ASSUME NEW u \in Targets \ job.todo PROVE Explained(Profile, u)
    BY <2>1 DEF IInv, Visited
  <2>2. \A u \in job.todo : r[u].stage = "none"
    BY <1>7 DEF IInv, Visited
  <2> QED BY <1>3, <1>5, <1>7, <2>1, <2>2 DEF Explained, Justified
<1>11. /\ j.next = job.next /\ j.error = job.error /\ SameFrame(job, j)
       /\ j.certified = job.certified /\ Profile \in j.broken
       /\ \A q \in ProfileSet \ {Profile} : j.shared[q] = job.shared[q]
                                            /\ (q \in j.broken <=> q \in job.broken)
       /\ job.at \in {"target", "verify"} /\ j \in Jobs
  BY <1>3, <1>5
<1> QED BY ZenonT(60), <1>2, <1>8, <1>9, <1>10, <1>11, StopKeeps

\* A shared dependency is tried, once.
LEMMA DependencyKeeps ==
    ASSUME IInv, TryDependency
    PROVE  IInv'
<1>0. /\ job.at = "target" /\ disk' = disk /\ madeFrom' = madeFrom
  BY DEF TryDependency, At
<1>1. /\ job \in Jobs /\ Profile \in ProfileSet /\ job.next \in 1 .. 3
      /\ rows \in [ProfileSet -> [Targets -> Row]] /\ rows[Profile] \in [Targets -> Row]
      /\ madeFrom \in [ProfileSet -> [Targets -> Versions]]
      /\ \A p \in ProfileSet, t \in Targets : madeFrom[p][t] <= disk.source
      /\ Profile = "cpu" => job.next = 1
  BY <1>0, Here
<1>2. CASE AttemptBreaks
  BY <1>0, <1>1, <1>2, BreakKeeps
<1>3. CASE ~AttemptBreaks
  <2>1. PICK t \in job.todo, d \in Dependencies, result \in Compiles :
          /\ job.shared[Profile][d] = "untried" /\ Command(result)
          /\ IF Unchanged
             THEN /\ Goes([job EXCEPT !.shared[Profile][d] = result], "target")
                  /\ UNCHANGED <<rows, late>>
             ELSE ProfileStops([job EXCEPT !.shared[Profile][d] = result], rows[Profile],
                               "PROFILE_PROVENANCE")
    BY <1>3 DEF TryDependency
  <2>3. faults' \in 0 .. Faults /\ faults <= faults'
    BY <2>1, FaultsCount DEF IInv
  <2>4. PICK p, j0 : p = Profile /\ j0 = job
    OBVIOUS
  <2>5. PICK j : j = WithAttempt(j0, p, d, result)
    OBVIOUS
  <2>6. p \in ProfileSet /\ j0 \in Jobs
    BY <1>1, <2>4
  <2>7. /\ j \in Jobs /\ j.error = j0.error /\ j.next = j0.next /\ j.todo = j0.todo
        /\ j.pinned = j0.pinned /\ SameFrame(j0, j) /\ j.certified = j0.certified
        /\ \A q \in ProfileSet \ {p} : j.shared[q] = j0.shared[q]
        /\ j.broken = j0.broken
        /\ \A e : e # d => j.shared[p][e] = j0.shared[p][e]
    BY <2>5, <2>6, WithShared
  <2>8. /\ Unchanged => Goes(j, "target") /\ UNCHANGED <<rows, late>>
        /\ ~Unchanged => ProfileStops(j, rows[Profile], "PROFILE_PROVENANCE")
    BY <2>1, <2>4, <2>5 DEF WithAttempt
  <2>9. /\ \A u \in Targets : rows[Profile][u].status = "BUILT" =>
               rows[Profile][u].compile = "SUCCEEDED"
        /\ Profile = "cpu" /\ job.aocl.status = "rejected" => \A u \in Targets :
               u.library = "rocblas" => rows[Profile][u].compile = "NOT_ATTEMPTED"
    BY <1>1 DEF IInv, BuiltMeans, Selected
  <2>a. \A u \in Targets : \/ u \in job.todo /\ rows[Profile][u].stage = "none"
                           \/ Justified(rows[Profile][u], Profile, u, j)
    <3>1. ASSUME NEW u \in Targets \ job.todo PROVE Explained(Profile, u)
      BY <1>0, <3>1 DEF IInv, Visited
    <3>2. \A e : job.shared[Profile][e] \in {"FAILED", "TIMED_OUT"} =>
            j.shared[Profile][e] \in {"FAILED", "TIMED_OUT"}
      BY <2>1, <2>4, <2>7
    <3>3. \A u \in job.todo : rows[Profile][u].stage = "none"
      BY <1>0 DEF IInv, Visited
    <3> QED BY <2>4, <2>7, <3>1, <3>2, <3>3 DEF Explained, Justified
  <2>10. CASE Unchanged
    <3>1. /\ \A u \in Targets \ j.todo : Justified(rows[Profile][u], Profile, u, j)
          /\ \A u \in j.todo : rows[Profile][u].stage = "none"
      <4>1. \A u \in job.todo : rows[Profile][u].stage = "none"
        BY <1>0 DEF IInv, Visited
      <4>2. j.todo = job.todo
        BY <2>4, <2>7
      <4> QED BY <2>a, <4>1, <4>2
    <3>2. rows' = [rows EXCEPT ![Profile] = rows[Profile]] /\ late' = late /\ Goes(j, "target")
      BY <1>1, <2>8, <2>10
    <3>3. j.todo \subseteq job.todo /\ j.pinned = job.pinned
      BY <2>4, <2>7
    <3>4. /\ j.next = job.next /\ j.error = job.error /\ SameFrame(job, j)
          /\ j.certified = job.certified
          /\ \A q \in ProfileSet \ {Profile} : j.shared[q] = job.shared[q]
                                               /\ (q \in j.broken <=> q \in job.broken)
      BY <2>4, <2>7
    <3>5. PICK r : r = rows[Profile]
      OBVIOUS
    <3>6. /\ r \in [Targets -> Row] /\ rows' = [rows EXCEPT ![Profile] = r]
          /\ \A u \in Targets : r[u].status = "BUILT" =>
                 rows[Profile][u].status = "BUILT" /\ r[u].compile = "SUCCEEDED"
          /\ Profile = "cpu" /\ job.aocl.status = "rejected" => \A u \in Targets :
                 u.library = "rocblas" => r[u].compile = "NOT_ATTEMPTED"
          /\ \A u \in Targets \ j.todo : Justified(r[u], Profile, u, j)
          /\ \A u \in j.todo : r[u].stage = "none"
      BY <1>1, <2>9, <3>1, <3>2, <3>5
    <3>7. j \in Jobs
      BY <2>7
    <3>8. madeFrom' \in [ProfileSet -> [Targets -> Versions]]
          /\ \A q \in ProfileSet, u \in Targets : madeFrom'[q][u] <= disk.source
      BY <1>0, <1>1
    <3> QED BY ZenonT(60), <1>0, <2>3, <3>2, <3>3, <3>4, <3>6, <3>7, <3>8, StayKeeps
  <2>11. CASE ~Unchanged
    <3>1. /\ j.next = job.next /\ j.error = job.error /\ SameFrame(job, j)
          /\ j.certified = job.certified
          /\ \A q \in ProfileSet \ {Profile} : j.shared[q] = job.shared[q]
                                               /\ (q \in j.broken <=> q \in job.broken)
      BY <2>4, <2>7
    <3>2. PICK r, phase : r = rows[Profile] /\ phase = "PROFILE_PROVENANCE"
      OBVIOUS
    <3>3. /\ r \in [Targets -> Row] /\ phase \in Stages /\ ProfileStops(j, r, phase)
          /\ \A u \in Targets : r[u].status = "BUILT" => r[u].compile = "SUCCEEDED"
          /\ Profile = "cpu" /\ job.aocl.status = "rejected" => \A u \in Targets :
                 u.library = "rocblas" => r[u].compile = "NOT_ATTEMPTED"
          /\ \A u \in Targets : \/ u \in job.todo /\ r[u].stage = "none"
                                \/ Justified(r[u], Profile, u, j)
      BY <1>1, <2>8, <2>9, <2>a, <2>11, <3>2 DEF Stages
    <3>4. /\ madeFrom' \in [ProfileSet -> [Targets -> Versions]]
          /\ \A q \in ProfileSet, u \in Targets : madeFrom'[q][u] <= disk.source
          /\ job.at \in {"target", "verify"} /\ j \in Jobs
      BY <1>0, <1>1, <2>7
    <3> QED BY ZenonT(60), <1>0, <2>3, <2>11, <3>1, <3>3, <3>4, StopKeeps
  <2> QED BY <2>10, <2>11
<1> QED BY <1>2, <1>3

\* A target whose dependency is not there is left, and its row says so.
LEMMA BlockKeeps ==
    ASSUME IInv, BlockTarget
    PROVE  IInv'
<1>0. /\ job.at = "target" /\ disk' = disk /\ madeFrom' = madeFrom /\ late' = late
      /\ faults' = faults
  BY DEF BlockTarget, At
<1>1. /\ job \in Jobs /\ Profile \in ProfileSet
      /\ rows \in [ProfileSet -> [Targets -> Row]] /\ rows[Profile] \in [Targets -> Row]
      /\ job.todo \subseteq Targets
  BY <1>0, Here
<1>2. /\ madeFrom' \in [ProfileSet -> [Targets -> Versions]]
      /\ \A q \in ProfileSet, u \in Targets : madeFrom'[q][u] <= disk.source
  BY <1>0, Here
<1>3. faults' \in 0 .. Faults /\ faults <= faults'
  BY <1>0, BuildAssumption DEF IInv, TypeOK
<1>4. PICK t, d, row :
        /\ t \in job.todo /\ d \in Dependencies
        /\ Missing(t, d) /\ job.shared[Profile][d] # "untried"
        /\ row = [rows[Profile][t] EXCEPT !.stage =
                     IF job.shared[Profile][d] = "NOT_ATTEMPTED" THEN "BUILD_BUDGET"
                                                                ELSE "SHARED_DEPENDENCY"]
        /\ RowBecomes(t, row)
        /\ Goes([job EXCEPT !.todo = job.todo \ {t}], "target")
  BY DEF BlockTarget
<1>a. t \in Targets
  BY <1>1, <1>4
<1>5. /\ d \in Range(SharedBy(Profile, t))
      /\ job.shared[Profile][d] \in {"NOT_ATTEMPTED", "FAILED", "TIMED_OUT"}
  <2>1. d \in Range(SharedBy(Profile, t)) /\ job.shared[Profile][d] # "SUCCEEDED"
    BY <1>4 DEF Missing, Range
  <2>2. job.shared[Profile][d] \in {"untried"} \cup Compiles
    BY <1>1, <1>4 DEF Jobs
  <2> QED BY <1>4, <2>1, <2>2 DEF Compiles
<1>6. /\ row \in Row /\ row.status = rows[Profile][t].status
      /\ row.compile = rows[Profile][t].compile
      /\ \/ row.stage = "BUILD_BUDGET"
         \/ row.stage = "SHARED_DEPENDENCY" /\ job.shared[Profile][d] \in {"FAILED", "TIMED_OUT"}
  <2>1. rows[Profile][t] \in Row
    BY <1>1, <1>a
  <2> QED BY <1>4, <1>5, <2>1 DEF Row, Stages
<1>7. PICK r : r = [rows[Profile] EXCEPT ![t] = row]
  OBVIOUS
<1>8. /\ r \in [Targets -> Row] /\ rows' = [rows EXCEPT ![Profile] = r]
      /\ r[t] = row /\ \A u \in Targets \ {t} : r[u] = rows[Profile][u]
  BY SMTT(30), <1>1, <1>a, <1>4, <1>6, <1>7, OneRow
<1>9. PICK j, j0, n : j = [j0 EXCEPT !.todo = n] /\ j0 = job /\ n = job.todo \ {t}
  OBVIOUS
<1>10. n \in Names
  BY <1>1, <1>9 DEF Names, Targets, Slots
<1>11. j0 \in Jobs
  BY <1>1, <1>9
<1>12. /\ j \in Jobs /\ j.error = j0.error /\ j.next = j0.next /\ j.todo = n
       /\ j.pinned = j0.pinned /\ SameFrame(j0, j) /\ j.shared = j0.shared
       /\ j.broken = j0.broken
       /\ j.certified = j0.certified /\ j.manifest = j0.manifest
  BY <1>9, <1>10, <1>11, WithTodo
<1>13. /\ j.next = job.next /\ j.error = job.error /\ SameFrame(job, j)
       /\ j.certified = job.certified /\ j.pinned = job.pinned
       /\ \A q \in ProfileSet \ {Profile} : j.shared[q] = job.shared[q]
                                            /\ (q \in j.broken <=> q \in job.broken)
       /\ j.todo \subseteq job.todo /\ Goes(j, "target")
  BY <1>4, <1>9, <1>12
<1>14. /\ \A u \in Targets : r[u].status = "BUILT" =>
               rows[Profile][u].status = "BUILT" /\ r[u].compile = "SUCCEEDED"
       /\ Profile = "cpu" /\ job.aocl.status = "rejected" => \A u \in Targets :
               u.library = "rocblas" => r[u].compile = "NOT_ATTEMPTED"
  BY SMTT(30), <1>1, <1>a, <1>6, <1>8 DEF IInv, BuiltMeans, Selected
<1>15. /\ \A u \in Targets \ j.todo : Justified(r[u], Profile, u, j)
       /\ \A u \in j.todo : r[u].stage = "none"
  <2>1. ASSUME NEW u \in Targets \ job.todo PROVE Justified(rows[Profile][u], Profile, u, job)
    BY <1>0, <2>1 DEF IInv, Visited, Explained
  <2>2. t \in Targets /\ j.shared = job.shared /\ j.broken = job.broken /\ j.todo = job.todo \ {t}
    BY <1>a, <1>9, <1>12
  <2>3. \A u \in job.todo : rows[Profile][u].stage = "none"
    BY <1>0 DEF IInv, Visited
  <2>4. Justified(row, Profile, t, j)
    BY <1>5, <1>6, <2>2 DEF Justified
  <2>5. ASSUME NEW u \in Targets \ j.todo PROVE Justified(r[u], Profile, u, j)
    <3>1. CASE u = t
      BY <1>8, <2>4, <3>1
    <3>2. CASE u # t
      <4>1. u \in Targets \ job.todo /\ r[u] = rows[Profile][u]
        BY <1>8, <2>2, <2>5, <3>2
      <4> QED BY <2>1, <2>2, <4>1 DEF Justified
    <3> QED BY <3>1, <3>2
  <2>6. \A u \in j.todo : r[u].stage = "none"
    BY <1>1, <1>8, <2>2, <2>3
  <2> QED BY <2>5, <2>6
<1>16. j \in Jobs
  BY <1>12
<1> QED BY ZenonT(60), <1>0, <1>2, <1>3, <1>8, <1>13, <1>14, <1>15, <1>16, StayKeeps

\* What is compiled now is made of the source as it is now.
LEMMA MadeNow ==
    ASSUME IInv, job.at = "target", NEW t \in Targets,
           madeFrom' = [madeFrom EXCEPT ![Profile][t] = disk.source]
    PROVE  /\ madeFrom' \in [ProfileSet -> [Targets -> Versions]]
           /\ \A q \in ProfileSet, u \in Targets : madeFrom'[q][u] <= disk.source
<1>1. /\ Profile \in ProfileSet /\ madeFrom \in [ProfileSet -> [Targets -> Versions]]
      /\ \A p \in ProfileSet, u \in Targets : madeFrom[p][u] <= disk.source
      /\ disk.source \in Versions /\ disk.source \in Nat
  BY Here DEF Disk
<1> DEFINE m == [madeFrom[Profile] EXCEPT ![t] = disk.source]
<1>2. /\ m \in [Targets -> Versions] /\ m[t] = disk.source
      /\ \A u \in Targets \ {t} : m[u] = madeFrom[Profile][u]
  BY <1>1
<1>3. madeFrom' = [madeFrom EXCEPT ![Profile] = m]
  BY <1>1
<1> HIDE DEF m
<1>4. /\ madeFrom' \in [ProfileSet -> [Targets -> Versions]] /\ madeFrom'[Profile] = m
      /\ \A q \in ProfileSet \ {Profile} : madeFrom'[q] = madeFrom[q]
  BY <1>1, <1>2, <1>3
<1>5. disk.source <= disk.source
  BY <1>1
<1> QED BY <1>1, <1>2, <1>4, <1>5

\* A target is attempted.
LEMMA TargetKeeps ==
    ASSUME IInv, TryTarget
    PROVE  IInv'
<1>0. job.at = "target" /\ disk' = disk
  BY DEF TryTarget, At
<1>1. /\ job \in Jobs /\ Profile \in ProfileSet /\ job.next \in 1 .. 3
      /\ rows \in [ProfileSet -> [Targets -> Row]] /\ rows[Profile] \in [Targets -> Row]
      /\ job.todo \subseteq Targets /\ (Profile = "cpu" => job.next = 1)
  BY <1>0, Here
<1>2. PICK t :
        /\ t \in job.todo /\ madeFrom' = [madeFrom EXCEPT ![Profile][t] = disk.source]
        /\ \/ AttemptBreaks
           \/ \E result \in Compiles :
                 /\ Command(result)
                 /\ IF Unchanged
                    THEN /\ RowBecomes(t, Attempted(result)) /\ late' = late
                         /\ Goes([job EXCEPT !.todo = job.todo \ {t}], "target")
                    ELSE ProfileStops(job, [rows[Profile] EXCEPT ![t] = Attempted(result)],
                                      "PROFILE_PROVENANCE")
  BY DEF TryTarget
<1>a. t \in Targets
  BY <1>1, <1>2
<1>3. /\ madeFrom' \in [ProfileSet -> [Targets -> Versions]]
      /\ \A q \in ProfileSet, u \in Targets : madeFrom'[q][u] <= disk.source
  BY <1>0, <1>a, <1>2, MadeNow
<1>4. CASE AttemptBreaks
  BY <1>0, <1>3, <1>4, BreakKeeps
<1>5. ASSUME NEW result \in Compiles, NEW row, row = Attempted(result), Command(result),
             IF Unchanged
             THEN /\ RowBecomes(t, row) /\ late' = late
                  /\ Goes([job EXCEPT !.todo = job.todo \ {t}], "target")
             ELSE ProfileStops(job, [rows[Profile] EXCEPT ![t] = row], "PROFILE_PROVENANCE")
      PROVE  IInv'
  <2>3. faults' \in 0 .. Faults /\ faults <= faults'
    BY <1>5, FaultsCount DEF IInv
  <2>5. /\ row \in Row /\ row.status # "BUILT"
        /\ row.status = "NOT_ATTEMPTED" => row.stage \in {"BUILD_BUDGET", "COMPILE_LINK"}
    BY <1>5 DEF Attempted, Row, Stages, Compiles
  <2>6. PICK r : r = [rows[Profile] EXCEPT ![t] = row]
    OBVIOUS
  <2>7. /\ r \in [Targets -> Row] /\ r[t] = row
        /\ \A u \in Targets \ {t} : r[u] = rows[Profile][u]
    BY <1>1, <1>a, <2>5, <2>6
  <2>8. /\ \A u \in Targets : r[u].status = "BUILT" =>
                 rows[Profile][u].status = "BUILT" /\ r[u].compile = "SUCCEEDED"
        /\ Profile = "cpu" /\ job.aocl.status = "rejected" => \A u \in Targets :
                 u.library = "rocblas" => r[u].compile = "NOT_ATTEMPTED"
    <3>1. Profile = "cpu" /\ job.aocl.status = "rejected" => t.library # "rocblas"
      BY <1>1, <1>2 DEF IInv, Selected
    <3>2. /\ \A u \in Targets : rows[Profile][u].status = "BUILT" =>
                 rows[Profile][u].compile = "SUCCEEDED"
          /\ Profile = "cpu" /\ job.aocl.status = "rejected" => \A u \in Targets :
                 u.library = "rocblas" => rows[Profile][u].compile = "NOT_ATTEMPTED"
      BY <1>1 DEF IInv, BuiltMeans, Selected
    <3> QED BY <1>a, <2>5, <2>7, <3>1, <3>2
  <2>b. \A u \in job.todo : rows[Profile][u].stage = "none"
    BY <1>0 DEF IInv, Visited
  <2>a. \A u \in Targets : \/ u \in job.todo \ {t} /\ r[u].stage = "none"
                           \/ u \notin job.todo \ {t} /\ Justified(r[u], Profile, u, job)
    <3>1. ASSUME NEW u \in Targets \ job.todo
          PROVE  Justified(rows[Profile][u], Profile, u, job)
      BY <1>0, <3>1 DEF IInv, Visited, Explained
    <3>2. Justified(r[t], Profile, t, job)
      BY <2>5, <2>7 DEF Justified
    <3> QED BY <1>1, <1>2, <2>7, <2>b, <3>1, <3>2
  <2>9. CASE Unchanged
    <3>1. /\ RowBecomes(t, row) /\ late' = late
          /\ Goes([job EXCEPT !.todo = job.todo \ {t}], "target")
      BY <1>5, <2>9
    <3>2. rows' = [rows EXCEPT ![Profile] = r]
      BY <1>1, <1>a, <2>5, <2>6, <3>1, OneRow
    <3>3. PICK j, j0, n : j = [j0 EXCEPT !.todo = n] /\ j0 = job /\ n = job.todo \ {t}
      OBVIOUS
    <3>4. n \in Names
      BY <1>1, <3>3 DEF Names, Targets, Slots
    <3>5. j0 \in Jobs
      BY <1>1, <3>3
    <3>6. /\ j \in Jobs /\ j.error = j0.error /\ j.next = j0.next /\ j.todo = n
          /\ j.pinned = j0.pinned /\ SameFrame(j0, j) /\ j.shared = j0.shared
          /\ j.broken = j0.broken
          /\ j.certified = j0.certified /\ j.manifest = j0.manifest
      BY <3>3, <3>4, <3>5, WithTodo
    <3>7. /\ j.next = job.next /\ j.error = job.error /\ SameFrame(job, j)
          /\ j.certified = job.certified /\ j.pinned = job.pinned
          /\ \A q \in ProfileSet \ {Profile} : j.shared[q] = job.shared[q]
                                               /\ (q \in j.broken <=> q \in job.broken)
          /\ j.todo \subseteq job.todo /\ Goes(j, "target")
      BY <3>1, <3>3, <3>6
    <3>8. /\ \A u \in Targets \ j.todo : Justified(r[u], Profile, u, j)
          /\ \A u \in j.todo : r[u].stage = "none"
      <4>1. j.shared = job.shared /\ j.broken = job.broken /\ j.todo = job.todo \ {t}
        BY <1>a, <3>3, <3>6
      <4>2. ASSUME NEW u \in Targets \ j.todo PROVE Justified(r[u], Profile, u, j)
        <5>1. Justified(r[u], Profile, u, job)
          BY <2>a, <4>1, <4>2
        <5> QED BY <4>1, <5>1 DEF Justified
      <4>3. \A u \in j.todo : r[u].stage = "none"
        BY <1>1, <2>7, <2>b, <4>1
      <4> QED BY <4>2, <4>3
    <3>9. j \in Jobs /\ r \in [Targets -> Row]
      BY <2>7, <3>6
    <3> QED BY <1>0, <1>3, <2>3, <2>8, <3>1, <3>2, <3>7, <3>8, <3>9, StayKeeps
  <2>10. CASE ~Unchanged
    <3>1. PICK phase : phase = "PROFILE_PROVENANCE"
      OBVIOUS
    <3>2. ProfileStops(job, r, phase) /\ phase \in Stages
      BY <1>5, <2>6, <2>10, <3>1 DEF Stages
    <3>3. SameFrame(job, job) /\ job.at \in {"target", "verify"}
      BY <1>0 DEF SameFrame
    <3>4. job \in Jobs /\ r \in [Targets -> Row]
      BY <1>1, <2>7
    <3>5. /\ \A u \in Targets : r[u].status = "BUILT" => r[u].compile = "SUCCEEDED"
          /\ \A u \in Targets : \/ u \in job.todo /\ r[u].stage = "none"
                                \/ Justified(r[u], Profile, u, job)
      BY <2>8, <2>a
    <3> QED BY <1>0, <1>3, <2>3, <2>8, <2>10, <3>2, <3>3, <3>4, <3>5, StopKeeps
  <2> QED BY <2>9, <2>10
<1> QED BY <1>2, <1>4, <1>5

\* The rows of a profile all of whose targets were visited.
LEMMA AllVisited ==
    ASSUME IInv, job.at \in {"target", "verify"}, job.todo = {}
    PROVE  /\ rows[Profile] \in [Targets -> Row]
           /\ rows' = rows => rows' = [rows EXCEPT ![Profile] = rows[Profile]]
           /\ \A t \in Targets :
                 /\ rows[Profile][t].status = "BUILT" =>
                        job.certified[Profile] # None /\ rows[Profile][t].compile = "SUCCEEDED"
                 /\ Justified(rows[Profile][t], Profile, t, job)
           /\ Profile = "cpu" => \A t \in Targets :
                 /\ job.aocl.status = "rejected" /\ t.library = "rocblas" =>
                        rows[Profile][t].compile = "NOT_ATTEMPTED"
                 /\ job.aocl.status = "selected" /\ rows[Profile][t].status = "BUILT" =>
                        job.certified[Profile].libs = job.aocl.libs
<1>1. /\ Profile \in ProfileSet /\ rows \in [ProfileSet -> [Targets -> Row]]
      /\ rows[Profile] \in [Targets -> Row]
  BY Here
<1>2. \A t \in Targets : Explained(Profile, t)
  BY DEF IInv, Visited
<1> QED BY <1>1, <1>2 DEF IInv, BuiltMeans, Selected, Explained

\* What was compiled is described, or there was nothing to describe.
LEMMA GenerateKeeps ==
    ASSUME IInv, Generate
    PROVE  IInv'
<1>0. /\ job.at = "target" /\ job.todo = {} /\ disk' = disk /\ rows' = rows
      /\ madeFrom' = madeFrom
  BY DEF Generate, At
<1>1. /\ job \in Jobs /\ job.next \in 1 .. 3 /\ Profile \in ProfileSet /\ disk \in Disk
      /\ late \in {"none", "profile", "job"}
  BY <1>0, Here
<1>2. /\ madeFrom' \in [ProfileSet -> [Targets -> Versions]]
      /\ \A q \in ProfileSet, u \in Targets : madeFrom'[q][u] <= disk.source
  BY <1>0, Here
<1>3. faults' \in 0 .. Faults /\ faults <= faults'
  BY FaultsCount DEF IInv, Generate, Runs, Compiles
<1>4. SameFrame(job, job)
  BY DEF SameFrame
<1>5. PICK r : r = rows[Profile]
  OBVIOUS
<1>6. /\ r \in [Targets -> Row] /\ rows' = [rows EXCEPT ![Profile] = r]
      /\ \A t \in Targets :
            /\ r[t].status = "BUILT" => job.certified[Profile] # None /\ r[t].compile = "SUCCEEDED"
            /\ Justified(r[t], Profile, t, job)
      /\ Profile = "cpu" => \A t \in Targets :
            /\ job.aocl.status = "rejected" /\ t.library = "rocblas" =>
                   r[t].compile = "NOT_ATTEMPTED"
            /\ job.aocl.status = "selected" /\ r[t].status = "BUILT" =>
                   job.certified[Profile].libs = job.aocl.libs
  BY <1>0, <1>5, AllVisited
<1>7. CASE Leaves(job)
  <2>1. /\ job' \in Jobs /\ job'.at = "profile" /\ job'.error = job.error
        /\ job'.next = job.next + 1 /\ job'.todo = {} /\ SameFrame(job, job')
        /\ job'.shared = job.shared
        /\ job'.broken = job.broken /\ job'.certified = job.certified
        /\ late' \in {"none", "job"}
    BY <1>1, <1>7, Left
  <2>2. job.at \in {"configure", "target", "verify"} /\ job \in Jobs
    BY <1>0, <1>1
  <2> QED BY <1>0, <1>2, <1>3, <1>4, <1>6, <2>1, <2>2, LeaveKeeps
<1>8. CASE /\ late' = late
           /\ Goes([job EXCEPT !.manifest = [libs |-> job.libs,
                                             binaries |-> disk.binaries[Profile]]], "verify")
  <2>1. PICK j0, m, j : /\ j0 = job /\ m = [libs |-> job.libs, binaries |-> disk.binaries[Profile]]
                        /\ j = [j0 EXCEPT !.manifest = m]
    OBVIOUS
  <2>2. m \in Manifests /\ m # None
    <3>1. job.libs \in Versions /\ disk.binaries[Profile] \in Versions /\ -1 \notin Versions
      BY <1>1, BuildAssumption DEF Jobs, Disk, Versions
    <3> QED BY <2>1, <3>1 DEF Manifests, None
  <2>3. j0 \in Jobs
    BY <1>1, <2>1
  <2>4. /\ j \in Jobs /\ j.error = j0.error /\ j.next = j0.next /\ j.todo = j0.todo
        /\ j.pinned = j0.pinned /\ SameFrame(j0, j) /\ j.shared = j0.shared
        /\ j.broken = j0.broken
        /\ j.certified = j0.certified /\ j.manifest = m
    <3>1. m \in Manifests
      BY <2>2
    <3>2. j = [j0 EXCEPT !.manifest = m]
      BY <2>1
    <3> QED BY <2>3, <3>1, <3>2, WithManifest
  <2>5. /\ j.next = job.next /\ j.error = job.error /\ SameFrame(job, j)
        /\ j.certified = job.certified /\ j.pinned = job.pinned
        /\ \A q \in ProfileSet \ {Profile} : j.shared[q] = job.shared[q]
                                             /\ (q \in j.broken <=> q \in job.broken)
        /\ j.todo \subseteq job.todo /\ Goes(j, "verify") /\ j.todo = {} /\ j.manifest # None
    BY <1>0, <1>8, <2>1, <2>2, <2>4
  <2>6. /\ \A u \in Targets : r[u].status = "BUILT" =>
               rows[Profile][u].status = "BUILT" /\ r[u].compile = "SUCCEEDED"
        /\ Profile = "cpu" /\ job.aocl.status = "rejected" => \A u \in Targets :
               u.library = "rocblas" => r[u].compile = "NOT_ATTEMPTED"
        /\ \A u \in Targets \ j.todo : Justified(r[u], Profile, u, j)
        /\ \A u \in j.todo : r[u].stage = "none"
    BY <1>0, <1>5, <1>6, <2>1, <2>4 DEF Justified
  <2>7. j \in Jobs
    BY <2>4
  <2>8. r \in [Targets -> Row] /\ rows' = [rows EXCEPT ![Profile] = r] /\ late' = late
    BY <1>6, <1>8
  <2> QED BY <1>0, <1>2, <1>3, <2>5, <2>6, <2>7, <2>8, StayKeeps
<1> QED BY <1>7, <1>8 DEF Generate

\* A description that fails takes back what was compiled.
LEMMA GenerateFailsKeeps ==
    ASSUME IInv, GenerateFails
    PROVE  IInv'
<1>0. /\ job.at = "target" /\ job.todo = {} /\ disk' = disk /\ madeFrom' = madeFrom
      /\ \E phase \in Stages : ProfileStops(job, rows[Profile], phase)
  BY DEF GenerateFails, At, Stages
<1>1. PICK phase \in Stages : \E r : r = rows[Profile] /\ ProfileStops(job, r, phase)
  BY <1>0
<1>2. PICK r : r = rows[Profile] /\ ProfileStops(job, r, phase)
  BY <1>1
<1>3. /\ madeFrom' \in [ProfileSet -> [Targets -> Versions]]
      /\ \A q \in ProfileSet, u \in Targets : madeFrom'[q][u] <= disk.source
      /\ job \in Jobs
  BY <1>0, Here
<1>4. faults' \in 0 .. Faults /\ faults <= faults'
  BY FaultsCount DEF IInv, GenerateFails, Fails, Refused, Compiles
<1>5. SameFrame(job, job)
  BY DEF SameFrame
<1>6. /\ r \in [Targets -> Row]
      /\ \A t \in Targets : r[t].status = "BUILT" => r[t].compile = "SUCCEEDED"
      /\ Profile = "cpu" /\ job.aocl.status = "rejected" => \A t \in Targets :
             t.library = "rocblas" => r[t].compile = "NOT_ATTEMPTED"
      /\ \A t \in Targets : Justified(r[t], Profile, t, job)
  BY <1>0, <1>2, AllVisited
<1>7. job.at \in {"target", "verify"}
  BY <1>0
<1> QED BY <1>0, <1>2, <1>3, <1>4, <1>5, <1>6, <1>7, StopKeeps

\* A verification that fails does the same.
LEMMA CertifyFailsKeeps ==
    ASSUME IInv, CertifyFails
    PROVE  IInv'
<1>0. /\ job.at = "verify" /\ job.todo = {} /\ disk' = disk /\ madeFrom' = madeFrom
      /\ \E phase \in Stages : ProfileStops(job, rows[Profile], phase)
  BY DEF CertifyFails, At, Stages, IInv, AtHand
<1>1. PICK phase \in Stages : \E r : r = rows[Profile] /\ ProfileStops(job, r, phase)
  BY <1>0
<1>2. PICK r : r = rows[Profile] /\ ProfileStops(job, r, phase)
  BY <1>1
<1>3. /\ madeFrom' \in [ProfileSet -> [Targets -> Versions]]
      /\ \A q \in ProfileSet, u \in Targets : madeFrom'[q][u] <= disk.source
      /\ job \in Jobs
  BY <1>0, Here
<1>4. faults' \in 0 .. Faults /\ faults <= faults'
  BY FaultsCount DEF IInv, CertifyFails, Refused, Compiles
<1>5. SameFrame(job, job)
  BY DEF SameFrame
<1>6. /\ r \in [Targets -> Row]
      /\ \A t \in Targets : r[t].status = "BUILT" => r[t].compile = "SUCCEEDED"
      /\ Profile = "cpu" /\ job.aocl.status = "rejected" => \A t \in Targets :
             t.library = "rocblas" => r[t].compile = "NOT_ATTEMPTED"
      /\ \A t \in Targets : Justified(r[t], Profile, t, job)
  BY <1>0, <1>2, AllVisited
<1>7. job.at \in {"target", "verify"}
  BY <1>0
<1> QED BY <1>0, <1>2, <1>3, <1>4, <1>5, <1>6, <1>7, StopKeeps

\* What was compiled is BUILT once the manifest is verified: with the libraries that
\* were selected, if any were.
LEMMA CertifyKeeps ==
    ASSUME IInv, Certify
    PROVE  IInv'
<1>0. /\ job.at = "verify" /\ job.todo = {} /\ disk' = disk /\ madeFrom' = madeFrom
      /\ faults' = faults /\ job.manifest # None /\ MayCertify
  BY DEF Certify, At, IInv, AtHand, BuiltMeans
<1>1. /\ job \in Jobs /\ job.next \in 1 .. 3 /\ Profile \in ProfileSet
      /\ late \in {"none", "profile", "job"}
  BY <1>0, Here
<1>2. /\ madeFrom' \in [ProfileSet -> [Targets -> Versions]]
      /\ \A q \in ProfileSet, u \in Targets : madeFrom'[q][u] <= disk.source
  BY <1>0, Here
<1>3. faults' \in 0 .. Faults /\ faults <= faults'
  BY <1>0, BuildAssumption DEF IInv, TypeOK
<1>4. PICK j0, p, m, j : /\ j0 = job /\ p = Profile /\ m = job.manifest
                         /\ j = WithCertified(j0, p, m)
  OBVIOUS
<1>5. j0 \in Jobs /\ p \in ProfileSet /\ m \in Manifests
  BY <1>1, <1>4 DEF Jobs
<1>6. /\ j \in Jobs /\ j.error = j0.error /\ j.next = j0.next /\ SameFrame(j0, j)
      /\ j.shared = j0.shared /\ j.broken = j0.broken /\ j.certified[p] = m
      /\ \A q \in ProfileSet \ {p} : j.certified[q] = j0.certified[q]
  BY <1>4, <1>5, WithCertificate
<1>7. Leaves(j)
  BY <1>4 DEF Certify, WithCertified
<1>8. /\ job' \in Jobs /\ job'.at = "profile" /\ job'.error = j.error
      /\ job'.next = j.next + 1 /\ job'.todo = {} /\ SameFrame(j, job')
      /\ job'.shared = j.shared /\ job'.broken = j.broken /\ job'.certified = j.certified
      /\ late' \in {"none", "job"}
  <2>1. j \in Jobs /\ j.next \in 1 .. 3
    BY <1>1, <1>4, <1>6
  <2> QED BY <1>1, <1>7, <2>1, Left
<1> DEFINE r == [t \in Targets |->
              IF t \in Compiled
              THEN [rows[Profile][t] EXCEPT !.status = "BUILT", !.stage = "none"]
              ELSE rows[Profile][t]]
<1>9. rows' = [rows EXCEPT ![Profile] = r]
  BY DEF Certify
<1>10. ASSUME NEW t \in Targets
       PROVE  /\ r[t] \in Row /\ r[t].compile = rows[Profile][t].compile
              /\ r[t].status = "BUILT" => r[t].compile = "SUCCEEDED"
              /\ r[t].status = "NOT_ATTEMPTED" => r[t] = rows[Profile][t]
  <2>1. rows[Profile][t] \in Row
    BY <1>0, AllVisited
  <2>2. rows[Profile][t].status = "BUILT" => rows[Profile][t].compile = "SUCCEEDED"
    BY <1>0, AllVisited
  <2>3. CASE t \in Compiled
    BY <2>1, <2>3 DEF Row, Stages, Compiled
  <2>4. CASE t \notin Compiled
    BY <2>1, <2>2, <2>4
  <2> QED BY <2>3, <2>4
<1>11. r \in [Targets -> Row]
  BY <1>10
<1> HIDE DEF r
<1>12. \A t \in Targets :
         /\ r[t].status = "BUILT" => j.certified[Profile] # None /\ r[t].compile = "SUCCEEDED"
         /\ Justified(r[t], Profile, t, j)
  <2>1. j.certified[Profile] # None /\ j.shared = job.shared /\ j.broken = job.broken
    BY <1>0, <1>4, <1>6
  <2>2. ASSUME NEW t \in Targets PROVE Justified(r[t], Profile, t, j)
    BY <1>0, <1>10, <2>1, AllVisited DEF Justified
  <2> QED BY <1>10, <2>1, <2>2
<1>13. Profile = "cpu" => \A t \in Targets :
         /\ job.aocl.status = "rejected" /\ t.library = "rocblas" =>
                r[t].compile = "NOT_ATTEMPTED"
         /\ job.aocl.status = "selected" /\ r[t].status = "BUILT" =>
                j.certified[Profile].libs = job.aocl.libs
  <2>1. ASSUME Profile = "cpu", job.aocl.status = "selected"
        PROVE  j.certified[Profile].libs = job.aocl.libs
    BY <1>0, <1>4, <1>6, <2>1 DEF MayCertify, Verified, LibsOf
  <2> QED BY <1>0, <1>10, <2>1, AllVisited
<1>14. /\ j.next = job.next /\ j.error = job.error /\ SameFrame(job, j) /\ j \in Jobs
       /\ \A q \in ProfileSet \ {Profile} :
              j.certified[q] = job.certified[q] /\ j.shared[q] = job.shared[q]
              /\ (q \in j.broken <=> q \in job.broken)
       /\ job.at \in {"configure", "target", "verify"}
  BY <1>0, <1>4, <1>6
<1> QED BY ZenonT(60), <1>0, <1>2, <1>3, <1>8, <1>9, <1>11, <1>12, <1>13, <1>14, LeaveKeeps

-----------------------------------------------------------------------------
(* The invariant.                                                          *)

\* The process starts where nothing is recorded.
LEMMA InitHolds == Init => IInv
<1> SUFFICES ASSUME Init PROVE IInv
  OBVIOUS
<1>0. 0 \in Versions /\ 1 \in Versions /\ 0 \in 0 .. Faults
  BY BuildAssumption DEF Versions
<1>1. /\ disk \in Disk /\ disk.source \in {0, 1} /\ \A k \in {"cpu", "gpu"} : disk.libs[k] = 0
      /\ \A p \in ProfileSet : disk.tree[p] = 0 /\ disk.binaries[p] = 0
  BY <1>0 DEF Init, Disk
<1>2. PICK c \in BOOLEAN :
        job = [at |-> "start", clean |-> c, error |-> FALSE, next |-> 1, todo |-> {},
               shared |-> [p \in ProfileSet |-> Untried], broken |-> {}, before |-> 0,
               aocl |-> [status |-> "off", libs |-> 0], pinned |-> 0, libs |-> 0,
               manifest |-> None, certified |-> [p \in ProfileSet |-> None],
               runtime |-> disk, summary |-> "none"]
  BY DEF Init
<1>3. /\ job.at = "start" /\ job.error = FALSE /\ job.next = 1 /\ job.todo = {}
      /\ job.before = 0 /\ job.aocl.status = "off" /\ job.summary = "none"
  BY <1>2
<1>4. job \in Jobs
  <2>1. "start" \in Places /\ 1 \in 1 .. Len(Profiles) + 1 /\ {} \in SUBSET Slots(FALSE)
    BY ThreeProfiles DEF Places
  <2>2. [p \in ProfileSet |-> Untried]
           \in [ProfileSet -> [Dependencies -> {"untried"} \cup Compiles]]
    BY DEF Untried
  <2>3. None \in Manifests
    BY DEF None, Manifests
  <2>4. [p \in ProfileSet |-> None] \in [ProfileSet -> Manifests]
    BY <2>3
  <2>5. [status |-> "off", libs |-> 0]
           \in [status : {"off", "selected", "rejected"}, libs : Versions]
    BY <1>0
  <2> HIDE DEF Untried, None
  <2> QED BY <1>0, <1>1, <1>2, <2>1, <2>2, <2>3, <2>4, <2>5 DEF Jobs
<1>5. /\ rows = [p \in ProfileSet |-> [t \in Targets |-> Unbuilt]]
      /\ madeFrom = [p \in ProfileSet |-> [t \in Targets |-> 0]]
      /\ faults = 0 /\ late = "none"
  BY DEF Init, Targets
<1>6. Unbuilt \in Row /\ Unbuilt.status = "NOT_ATTEMPTED"
  BY DEF Unbuilt, Row, Compiles, Stages
<1>7. TypeOK
  BY <1>0, <1>1, <1>3, <1>4, <1>5, <1>6 DEF TypeOK
<1>8. Counted /\ AtHand /\ BuiltMeans /\ Ends /\ Summarised
  BY <1>1, <1>3, <1>5, <1>6 DEF Counted, AtHand, BuiltMeans, Ends, Summarised, Concluded,
     Preparing
<1>9. Sourced
  BY <1>1, <1>3, <1>5 DEF Sourced, Concluded, Preparing, Working, Approved
<1>10. Selected
  BY <1>3 DEF Selected
<1>11. Visited
  BY <1>3, ThreeProfiles DEF Visited
<1> QED BY <1>7, <1>8, <1>9, <1>10, <1>11 DEF IInv

\* A step that changes nothing.
LEMMA StutterKeeps == IInv /\ UNCHANGED vars => IInv'
<1> SUFFICES ASSUME IInv, UNCHANGED vars PROVE IInv'
  OBVIOUS
<1>1. UNCHANGED <<disk, late, job, rows, madeFrom, faults>> /\ Targets' = Targets
  BY DEF vars, Targets
<1>2. TypeOK' /\ Counted' /\ Sourced' /\ AtHand' /\ BuiltMeans' /\ Selected'
  BY <1>1 DEF IInv, TypeOK, Counted, Sourced, AtHand, BuiltMeans, Selected
<1>3. Visited' /\ Ends' /\ Summarised'
  BY <1>1 DEF IInv, Visited, Explained, Justified, Ends, SameLibraries, Summarised, AllBuilt,
     Profile
<1> QED BY <1>2, <1>3 DEF IInv

\* Every step keeps the invariant.
LEMMA NextKeeps == IInv /\ [Next]_vars => IInv'
<1> SUFFICES ASSUME IInv, [Next]_vars PROVE IInv'
  OBVIOUS
<1>1. CASE TakeEvidence \/ EvidenceFails
  BY <1>1, EvidenceKeeps
<1>2. CASE SetUp \/ StartProfile
  BY <1>2, WayKeeps
<1>3. CASE SetUpFails \/ SourceChanged
  BY <1>3, AbortKeeps
<1>4. CASE Configure
  BY <1>4, ConfigureKeeps
<1>5. CASE ConfigureFails
  BY <1>5, ConfigureFailsKeeps
<1>6. CASE TryDependency
  BY <1>6, DependencyKeeps
<1>7. CASE BlockTarget
  BY <1>7, BlockKeeps
<1>8. CASE TryTarget
  BY <1>8, TargetKeeps
<1>9. CASE Generate
  BY <1>9, GenerateKeeps
<1>10. CASE GenerateFails
  BY <1>10, GenerateFailsKeeps
<1>11. CASE Certify
  BY <1>11, CertifyKeeps
<1>12. CASE CertifyFails
  BY <1>12, CertifyFailsKeeps
<1>13. CASE Combine
  BY <1>13, CombineKeeps
<1>14. CASE Conclude
  BY <1>14, ConcludeKeeps
<1>15. CASE Demote
  BY <1>15, DemoteKeeps
<1>16. CASE Freeze \/ ProvePlacement \/ Collect \/ Prepared \/ PreparationFails
  BY <1>16, PreparationKeeps
<1>17. CASE Deadline
  BY <1>17, DeadlineKeeps
<1>18. CASE Replace
  BY <1>18, ReplaceKeeps
<1>19. CASE UNCHANGED vars
  BY <1>19, StutterKeeps
<1> QED BY <1>1, <1>2, <1>3, <1>4, <1>5, <1>6, <1>7, <1>8, <1>9, <1>10, <1>11, <1>12, <1>13,
           <1>14, <1>15, <1>16, <1>17, <1>18, <1>19 DEF Next

-----------------------------------------------------------------------------
(* What the job is trusted for.                                            *)

\* The inductive invariant holds of every job: what BUILT, a certificate, a summary and
\* the place of the process say of the disk and of the rows.
THEOREM Invariant == Spec => []IInv
BY InitHolds, NextKeeps, PTL DEF Spec

\* Every variable keeps its type.
THEOREM TypeCorrect == Spec => []TypeOK
<1>1. IInv => TypeOK
  BY DEF IInv
<1> QED BY <1>1, Invariant, PTL

\* A row that is BUILT at the end was compiled from the approved source, belongs to a
\* certified profile, and shares its GPU libraries with the other GPU profile; a
\* library whose provider was rejected is never BUILT, nor one with other files than
\* those that were selected.
THEOREM BuiltCertified == Spec => []BuiltIsCertified
<1>1. IInv => BuiltIsCertified
  <2> SUFFICES ASSUME IInv PROVE BuiltIsCertified
    OBVIOUS
  <2>1. NoSubstitute
    BY ThreeProfiles DEF IInv, NoSubstitute, BuiltMeans, Selected
  <2>2. ASSUME job.at = "ended", job.summary \in {"BUILT", "PREPARED"}
        PROVE  Built = ProfileSet \X Targets
    BY <2>2 DEF IInv, Summarised, AllBuilt, Built
  <2>3. ASSUME job.at = "ended", NEW x \in Built
        PROVE  /\ madeFrom[x[1]][x[2]] = Approved /\ ~job.error
               /\ job.certified[x[1]] # None
    <3>1. x[1] \in ProfileSet /\ x[2] \in Targets /\ rows[x[1]][x[2]].status = "BUILT"
      BY DEF Built
    <3>2. ~job.error /\ job.certified[x[1]] # None
      BY <2>3, <3>1 DEF IInv, Summarised, BuiltMeans
    <3> QED BY <2>3, <3>1, <3>2 DEF IInv, Sourced, Concluded
  <2>4. ASSUME job.at = "ended", NEW x \in Built, NEW y \in Built, LibsOf(x[1]) = LibsOf(y[1])
        PROVE  job.certified[x[1]].libs = job.certified[y[1]].libs
    <3>1. /\ x[1] \in ProfileSet /\ y[1] \in ProfileSet /\ ~job.error
          /\ job.certified[x[1]] # None /\ job.certified[y[1]] # None
      BY <2>3, <2>4 DEF Built
    <3>2. SameLibraries
      BY <2>4, <3>1 DEF IInv, Ends, Concluded
    <3>3. \/ x[1] = y[1]
          \/ x[1] = "hip" /\ y[1] = "openmp"
          \/ x[1] = "openmp" /\ y[1] = "hip"
      BY <2>4, <3>1, ThreeProfiles DEF LibsOf
    <3> QED BY <3>1, <3>2, <3>3 DEF SameLibraries
  <2> QED BY <2>1, <2>2, <2>3, <2>4 DEF BuiltIsCertified, At
<1> QED BY <1>1, Invariant, PTL

\* A target that a job without an error leaves unattempted was late or could not be
\* launched, needs a dependency that was attempted and did not build, or belongs to a
\* profile that ended early, whose files have changed or one of whose attempts raised
\* what is not caught: that another target failed is never a reason.
THEOREM NoneSkipped == Spec => []NothingSkipped
<1>1. IInv => NothingSkipped
  <2> SUFFICES ASSUME IInv, job.at = "ended", ~job.error
               PROVE  \A p \in ProfileSet, t \in Targets : Justified(rows[p][t], p, t, job)
    BY DEF NothingSkipped, At, Justified
  <2> TAKE p \in ProfileSet, t \in Targets
  <2>1. job.next = 4
    BY DEF IInv, Ends, Concluded
  <2>2. PICK i \in DOMAIN Profiles : p = Profiles[i]
    BY DEF ProfileSet, Range
  <2>3. i < job.next
    BY <2>1, ThreeProfiles
  <2>4. Explained(p, t)
    BY <2>2, <2>3 DEF IInv, Visited
  <2> QED BY <2>4 DEF Explained
<1> QED BY <1>1, Invariant, PTL

\* A job that is PREPARED hands on the binaries that were certified, seen together with
\* the libraries they were built with, all made from the approved source, which is in
\* place.
THEOREM PreparedBuilt == Spec => []PreparedIsBuilt
<1>1. IInv => PreparedIsBuilt
  BY DEF IInv, PreparedIsBuilt, Summarised, AllBuilt, Sourced, Concluded
<1> QED BY <1>1, Invariant, PTL

=================================================================================
