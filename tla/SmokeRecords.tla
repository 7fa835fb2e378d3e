------------------------------ MODULE SmokeRecords -------------------------------
(***************************************************************************)
(* What the smoke job of prebuilt Sirius artifacts reads and believes: the *)
(* schedule it plans, the libraries an artifact was configured with, the   *)
(* record of its link, the loader's trace of a child, the rows of a        *)
(* benchmark, and the retained evidence of the build.                      *)
(*                                                                         *)
(* An artifact is [library, implementation, role].  A configured dependency*)
(* is named by its provider and its place in the provider's link list; two *)
(* files are the same if they have the same name and version.              *)
(***************************************************************************)
EXTENDS Naturals, Sequences, SequencesExt, FiniteSets

Profiles == <<"cpu", "hip", "openmp">>    \* implementation_order of node 0, wave 0
Roles == {"example", "benchmark"}
Scopes == <<"compute", "end-to-end">>

-----------------------------------------------------------------------------
(* The schedule.                                                           *)

\* build_schedule for node 0: libraries in their fixed order, every case in both
\* scopes, and every implementation in each, one after the other.
BuildSchedule(libraries, cases) ==
    [k \in 1 .. Len(libraries) * cases * 6 |->
        LET i == k - 1
        IN  [library |-> libraries[1 + (i \div (cases * 6))], case |-> (i \div 6) % cases,
             scope |-> Scopes[1 + ((i \div 3) % 2)],
             implementation |-> Profiles[1 + (i % 3)], role |-> "benchmark"]]

-----------------------------------------------------------------------------
(* Configured dependencies.                                                *)

Dep(of, index) == [of |-> of, index |-> index]
Headers == {"aocl_sparse_header", "rocthrust", "rocprim"}
Elf(names) == {n \in names : n.of \notin Headers}

CpuProvider == [rocfft |-> "fftw3f", rocblas |-> "cblas", rocsolver |-> "lapacke",
                rocsparse |-> "aocl_sparse", rocrand |-> "none", rocthrust |-> "none"]

\* _amd_dependency_names: what the build metadata of an artifact must name.
Required(a) ==
    IF a.implementation # "cpu"
    THEN {Dep(n, 0) : n \in {"hip", a.library}
            \cup (IF a.library = "rocsolver" THEN {"rocblas"} ELSE {})
            \cup (IF a.library = "rocthrust" THEN {"rocprim"} ELSE {})}
    ELSE {Dep(n, 0) : n \in {CpuProvider[a.library]} \ {"none"}}
         \cup (IF a.library = "rocsparse" THEN {Dep("aocl_sparse_header", 0)} ELSE {})

\* Every file of the provider's ordered link list.
ProviderNames(configured, prefix) == {n \in configured : n.of = prefix}

\* select_artifact_dependencies: the configured inputs of this artifact alone.
\* Only a benchmark of FFTW is linked with its threads.
Selected(a, configured) ==
    IF a.implementation = "cpu" /\ (a.library # "rocfft" \/ a.role = "benchmark")
    THEN Required(a) \cup ProviderNames(configured, CpuProvider[a.library])
    ELSE Required(a)

\* The named files still have the hashes of the configuration (version 0).
Unchanged(names, lib) == \A n \in names : lib[n] = 0

-----------------------------------------------------------------------------
(* The record of a link.                                                   *)

\* A prerequisite is a file, or the name of an object that existed once.
Prerequisite == [kind : {"object", "file"}, of : STRING]

\* The depfile of the linker: its target and its prerequisites.  An object's name
\* never stands for a library.
DepfileProves(rule, linked) ==
    /\ rule.target = "this" /\ rule.tokens # {}
    /\ \A n \in linked : \E t \in rule.tokens : t.kind = "file" /\ t.of = n.of

\* _hip_link_binding: in the log of the build, the link command occurs once, right
\* after the change to its directory, and the target is completed once, later.
CommandProves(log) ==
    LET At(line) == {k \in DOMAIN log : log[k] = line}
    IN  /\ Cardinality(At("link")) = 1 /\ Cardinality(At("built")) = 1
        /\ \A k \in At("link") : k > 1 /\ log[k - 1] = "invoke"
        /\ \A k \in At("link"), b \in At("built") : k < b

\* A library linked statically, or not at all, leaves no record to ask for.
LinkProves(a, link, configured) ==
    LET linked == Elf(Selected(a, configured))
    IN  IF a.implementation = "hip" THEN CommandProves(link.command)
        ELSE linked = {} \/ DepfileProves(link.depfile, linked)

-----------------------------------------------------------------------------
(* The loader's trace of a child (LD_DEBUG=libs).                          *)

Event(e, path) == [event |-> e, path |-> path, pid |-> "child"]
Program == Dep("program", 0)
TraceStart == [ok |-> TRUE, started |-> FALSE, transferred |-> FALSE,
               finished |-> FALSE, active |-> {}, objects |-> {}]

\* One line of the trace.  An object may be initialised after the program has
\* finished, by a destructor, and need not be finalised.
ReadEvent(s, e) ==
    IF e.pid # "child" THEN [s EXCEPT !.ok = FALSE]
    ELSE CASE e.event = "initialize program" ->
                [s EXCEPT !.ok = @ /\ ~s.started /\ ~s.transferred /\ ~s.finished,
                          !.started = TRUE]
           [] e.event = "transferring control" ->
                [s EXCEPT !.ok = @ /\ s.started /\ ~s.transferred /\ ~s.finished,
                          !.transferred = TRUE]
           [] e.event = "calling init" ->
                [s EXCEPT !.ok = @ /\ e.path \notin s.active,
                          !.active = @ \cup {e.path}, !.objects = @ \cup {e.path}]
           [] e.event = "calling fini" /\ e.path = Program ->
                [s EXCEPT !.ok = @ /\ s.transferred /\ ~s.finished, !.finished = TRUE]
           [] e.event = "calling fini" /\ e.path # Program ->
                [s EXCEPT !.ok = @ /\ e.path \in s.active, !.active = @ \ {e.path}]
           [] OTHER -> s

ParseTrace(trace) == FoldLeft(ReadEvent, TraceStart, trace)

TraceAccepted(trace) ==
    LET s == ParseTrace(trace)
    IN  s.ok /\ s.started /\ s.transferred /\ s.finished /\ s.objects # {}

\* _bind: every library the artifact was linked with is among the observed files
\* (name -> version), and is the configured one.
Bound(a, configured, observed) ==
    \A n \in Elf(Selected(a, configured)) : n \in DOMAIN observed /\ observed[n] = 0

\* What a child that initialises these objects may write: in the order of the
\* loader, with one object finalised, with one initialised by a destructor; or cut
\* off before main, with an event twice, with a second process.
Traces(objects) ==
    LET inits == SetToSeq({Event("calling init", n) : n \in objects})
        main == <<Event("initialize program", Program), Event("transferring control", Program)>>
        fini == <<Event("calling fini", Program)>>
    IN  {inits \o main \o fini,
         inits \o main \o fini \o <<[inits[1] EXCEPT !.event = "calling fini"]>>,
         Tail(inits) \o main \o fini \o <<Head(inits)>>,
         inits \o <<Head(main)>> \o fini,
         inits \o <<Head(inits)>> \o main \o fini,
         inits \o main \o <<[Head(fini) EXCEPT !.pid = "other"]>>}

-----------------------------------------------------------------------------
(* The rows of a benchmark.                                                *)

\* A row, by how it differs from the plan: what it says it is of, its thresholds
\* against those the configuration gives, and its metrics against the latter.
\* A derived bound may be rounded, a configured operand may not.
RowKinds == [of : {"item", "other"}, status : {"success", "failure"},
             thresholds : {"exact", "derived-rounded", "operand-rounded"},
             metrics : {"within", "outside"}]
Verified == [of |-> "item", status |-> "success", thresholds |-> "exact",
             metrics |-> "within"]

\* validate_subprocess_record compares every field but the metrics, which the
\* benchmark is trusted to have judged.
RunnerAccepts(row) ==
    row.of = "item" /\ row.thresholds \in {"exact", "derived-rounded"}

\* Mutant of SmokeAccepts: the benchmark's own verdict is enough.
SmokeAcceptsStatus(row) == RunnerAccepts(row) /\ row.status = "success"

\* validate_smoke_rows judges the metrics by the canonical thresholds.
SmokeAccepts(row) ==
    RunnerAccepts(row) /\ row.status = "success" /\ row.metrics = "within"

-----------------------------------------------------------------------------
(* The retained evidence of a build.                                       *)

\* sources: the identity of the tree before, in each profile and after; built: the
\* slots with status BUILT; exits: of the commands; markers: of the job's end.
CompleteBuild(b) ==
    /\ b.summary = "BUILT" /\ b.built = b.slots
    /\ \A k \in DOMAIN b.sources : b.sources[k] = b.sources[1]
    /\ \A k \in DOMAIN b.exits : b.exits[k] = 0
    /\ b.dispatch = "BUILD_COMPLETE" /\ b.markers = <<0>>
=================================================================================
