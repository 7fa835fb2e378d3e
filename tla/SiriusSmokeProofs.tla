---------------------------- MODULE SiriusSmokeProofs ----------------------------
(***************************************************************************)
(* Proofs about SiriusSmoke for any libraries, configuration, evidence,    *)
(* rows, controllers and number of faults: what a complete smoke stands    *)
(* for, that a proof is one instant, and how a stop is recorded.           *)
(*                                                                         *)
(* Versions only grow.  So what was seen twice did not change in between,  *)
(* and what is as configured now was so when a child loaded it.            *)
(***************************************************************************)
EXTENDS SiriusSmoke, SequenceTheorems, FiniteSetTheorems, TLAPS

Working == Places \ {"except", "finally", "left"}
Proved == Working \ {"start", "proof"}

FileVersions == [Files -> Versions]
ProfileNames == Range(Profiles)

Jobs == [at : Places, focused : BOOLEAN, look : {1, 2}, next : Nat, seen : FileVersions,
         proof : FileVersions \cup {<<>>}, code : FileVersions \cup {<<>>}, campaign : Nat,
         failed : BOOLEAN, good : BOOLEAN, error : {"none", "other", "stop"},
         timed : BOOLEAN, status : {"none", "SMOKE_COMPLETE", "FAILED", "UNKNOWN"},
         exit : {"none", "0", "1"}]

\* The objects a child may load.
Objects == UNION {[names -> Versions] : names \in SUBSET LibraryFiles}

Histories == [instant : FileVersions \cup {<<>>}, stopped : BOOLEAN, masked : BOOLEAN,
              last : [ProfileNames -> Objects \cup {<<>>}],
              before : [ProfileNames -> SUBSET Objects], rows : SUBSET Rows, calls : Nat,
              binaries : SUBSET Nat]

Shape == /\ TypeOK /\ job \in Jobs /\ history \in Histories
         /\ \A f \in Files : disk.file[f] <= faults
         /\ \A n \in LibraryFiles : disk.lib[n] <= faults

\* Before the campaigns, and after them.
Fresh == \/ job.at \in {"start", "import", "link", "resolve", "example"}
         \/ job.at = "proof" /\ job.proof = <<>>
Through == \/ job.at \in {"set", "harness", "complete", "exit0"}
           \/ job.at = "proof" /\ job.proof # <<>>
           \/ job.status = "SMOKE_COMPLETE"

\* Who is inside made the directory.
Attempt ==
    /\ job.at = "start" => \A c \in Controllers : gate[c] # "inside"
    /\ \A c, d \in Controllers : gate[c] = "inside" /\ gate[d] = "inside" => c = d

\* What an outcome may still become.
Ends ==
    /\ job.at \in Working =>
          /\ job.error = "none" /\ ~job.timed /\ ~history.stopped /\ ~history.masked
          /\ job.exit = "none"
          /\ job.status = IF job.at = "exit0" THEN "SMOKE_COMPLETE" ELSE "none"
    /\ job.at = "except" =>
          /\ job.error # "none" /\ job.status \in {"none", "SMOKE_COMPLETE"}
          /\ job.error = "stop" => history.stopped
          /\ job.error # "stop" =>
                ~history.stopped /\ job.exit = "none" /\ job.status = "none"
    /\ job.at \in {"finally", "left"} =>
          /\ job.status = "FAILED" => history.masked \/ (~history.stopped /\ ~job.timed)
          /\ job.status = "UNKNOWN" => history.stopped \/ job.timed
          /\ job.exit = "0" => \/ job.status = "SMOKE_COMPLETE"
                               \/ job.status = "UNKNOWN" /\ history.stopped
    /\ job.status = "SMOKE_COMPLETE" => ~job.timed

Below(v, w) == \A f \in Files : v[f] <= w[f]

\* A file that the inspection found in order.
Sound(f) == Convincing(f) /\ (f # "links" => job.seen[f] = 0)

\* Where an inspection is: what was seen is older than the instant between the two
\* looks, which is older than what is there now.
Looking ==
    /\ job.look = 1 => \A k \in 1 .. 6 : k < job.next =>
          Sound(ProofFiles[k]) /\ job.seen[ProofFiles[k]] <= disk.file[ProofFiles[k]]
    /\ job.look = 2 =>
          /\ \A f \in Files : Sound(f)
          /\ history.instant # <<>>
          /\ Below(job.seen, history.instant) /\ Below(history.instant, disk.file)
          /\ \A k \in 1 .. 6 : k < job.next =>
                history.instant[SecondLook[k]] = job.seen[SecondLook[k]]
          /\ job.proof # <<>> =>
                /\ Below(job.code, history.instant)
                /\ \A b \in history.binaries : b <= history.instant["binaries"]

\* The proof, the code imported after it, and the binaries used.
Proven ==
    /\ job.at = "start" => job.proof = <<>> /\ job.next = 1
    /\ job.at \in Proved \cup {"start"} => job.look = 1
    /\ job.at = "proof" => job.next \in 1 .. 7 /\ Looking
    /\ job.proof # <<>> => job.proof["binaries"] = 0 /\ CompleteBuild(build.evidence)
    /\ ProofIsOneInstant
    /\ job.at \in Proved => job.proof # <<>> /\ Below(job.proof, disk.file)
    /\ job.at \in Proved \ {"import"} \/ (job.at = "proof" /\ job.proof # <<>>) =>
          job.code # <<>> /\ Below(job.proof, job.code) /\ Below(job.code, disk.file)
    /\ \A b \in history.binaries : b <= disk.file["binaries"]
    /\ history.calls = 0 \/ history.binaries # {}
    /\ job.at \in {"harness", "complete", "exit0"} \/ job.status = "SMOKE_COMPLETE" =>
          job.proof # <<>> /\ job.code = job.proof /\ history.binaries \subseteq {0}

Diagnosed == IF job.focused THEN 0 ELSE 2    \* the diagnostic campaigns come first

\* No child of the four campaigns has run.
NoneRan == history.calls = 0 /\ \A p \in ProfileNames : history.last[p] = <<>>

\* Every library an artifact must name is configured.
Named == \A k \in DOMAIN Entries : Required(Entries[k]) \subseteq Configured[Entries[k].implementation]

AllAccepted == \A row \in history.rows : SmokeAccepts(row)

\* Where the job is in its campaigns.
Counted ==
    /\ Fresh => job.campaign = 0 /\ NoneRan /\ history.rows = {} /\ DOMAIN observed = {}
    /\ job.at \in {"import", "link", "resolve", "example"} => job.next <= Len(Entries) + 1
    /\ job.at \in {"resolve", "example", "item", "launch"} => Named
    /\ job.at = "launch" => job.next <= Len(Schedule)
    /\ job.at \in {"item", "launch"} =>
          /\ job.campaign \in 1 .. Diagnosed + 4
          /\ job.campaign <= Diagnosed => NoneRan
          /\ job.campaign > Diagnosed =>
                /\ history.calls = (job.campaign - Diagnosed - 1) * Len(Schedule) + job.next - 1
                /\ \A k \in DOMAIN Schedule : k < job.next \/ job.campaign > Diagnosed + 1 =>
                      history.last[Schedule[k].implementation] # <<>>
          /\ job.good => AllAccepted
          /\ job.campaign = 1 /\ job.next = 1 => DOMAIN observed = {}
          /\ job.campaign # 1 \/ job.next # 1 => job.focused \/ DOMAIN observed # {}
    /\ Through =>
          /\ history.calls = 4 * Len(Schedule) /\ AllAccepted
          /\ \A p \in ProfileNames : history.last[p] # <<>>

\* The objects the children of a profile loaded, the last one's apart.
Earlier(p) == history.before[p]
Loads(p) == history.before[p] \cup ({history.last[p]} \ {<<>>})
AsConfigured(o) == \A n \in DOMAIN o \ {Libc} : o[n] = 0
FirstKey == [item |-> Schedule[1], threads |-> 1]
SameLibc(o) == o[Libc] = observed[FirstKey][Libc]

\* What is remembered of the libraries is older than they are; what a later child
\* of the profile followed was as configured.
Loaded ==
    /\ history.calls = 0 => \A p \in ProfileNames : Loads(p) = {}
    /\ \A p \in ProfileNames : \A o \in Loads(p) :
          /\ Libc \in DOMAIN o /\ DOMAIN o \subseteq Configured[p] \cup {Libc}
          /\ \A n \in DOMAIN o : o[n] <= disk.lib[n]
    /\ \A p \in ProfileNames : \A o \in Earlier(p) : AsConfigured(o)
    /\ \A p \in ProfileNames :
          /\ history.last[p] # <<>>
          /\ ~job.focused \/ (job.at = "launch" /\ Schedule[job.next].implementation = p)
          => AsConfigured(history.last[p])

\* The first diagnostic child saw the oldest C library; the first child of the four
\* campaigns, which saw the same, the newest.
Traced ==
    /\ job.focused => DOMAIN observed = {}
    /\ \A k \in DOMAIN observed :
          observed[k] \in Objects /\ Libc \in DOMAIN observed[k]
          /\ observed[k][Libc] <= disk.lib[Libc]
    /\ DOMAIN observed # {} => FirstKey \in DOMAIN observed
    /\ \A k \in DOMAIN observed : observed[FirstKey][Libc] <= observed[k][Libc]
    /\ ~job.focused /\ history.calls > 0 =>
          /\ \A k \in DOMAIN observed : SameLibc(observed[k])
          /\ \A p \in ProfileNames : \A o \in Loads(p) : SameLibc(o)

IInv == Shape /\ Attempt /\ Ends /\ Proven /\ Counted /\ Loaded /\ Traced

-----------------------------------------------------------------------------
(* Constants: files, profiles, campaigns, the schedule.                    *)

\* Both looks read every file once.
LEMMA FileFacts ==
    /\ Len(ProofFiles) = 6 /\ Len(SecondLook) = 6
    /\ Files = {"evidence", "source", "logs", "binaries", "links", "harness"}
    /\ \A k \in 1 .. 6 : ProofFiles[k] \in Files /\ SecondLook[k] \in Files
    /\ \A f \in Files : \E k \in 1 .. 6 : ProofFiles[k] = f
    /\ \A f \in Files : \E k \in 1 .. 6 : SecondLook[k] = f
<1>1. /\ Len(ProofFiles) = 6 /\ DOMAIN ProofFiles = 1 .. 6
      /\ ProofFiles[1] = "evidence" /\ ProofFiles[2] = "source" /\ ProofFiles[3] = "logs"
      /\ ProofFiles[4] = "binaries" /\ ProofFiles[5] = "links" /\ ProofFiles[6] = "harness"
  BY DEF ProofFiles
<1>2. /\ Len(SecondLook) = 6
      /\ SecondLook[1] = "evidence" /\ SecondLook[2] = "logs" /\ SecondLook[3] = "binaries"
      /\ SecondLook[4] = "links" /\ SecondLook[5] = "source" /\ SecondLook[6] = "harness"
  BY DEF SecondLook
<1>3. \A k \in 1 .. 6 : k = 1 \/ k = 2 \/ k = 3 \/ k = 4 \/ k = 5 \/ k = 6
  OBVIOUS
<1>4. Files = {"evidence", "source", "logs", "binaries", "links", "harness"}
  BY <1>1, <1>3 DEF Files, Range
<1> QED BY <1>1, <1>2, <1>3, <1>4

\* The three profiles, each of which is configured.
LEMMA ProfileFacts ==
    /\ Profiles[1] = "cpu" /\ Profiles[2] = "hip" /\ Profiles[3] = "openmp"
    /\ ProfileNames = {"cpu", "hip", "openmp"} /\ DOMAIN Configured = ProfileNames
<1>1. DOMAIN Profiles = 1 .. 3 /\ Profiles[1] = "cpu" /\ Profiles[2] = "hip" /\ Profiles[3] = "openmp"
  BY DEF Profiles
<1>2. \A k \in 1 .. 3 : k = 1 \/ k = 2 \/ k = 3
  OBVIOUS
<1> QED BY <1>1, <1>2, SmokeAssumption DEF ProfileNames, Range

\* What a concatenation is made of.
LEMMA Concatenated ==
    ASSUME NEW S, NEW d \in Seq(S), NEW f \in Seq(S)
    PROVE  /\ Len(d \o f) = Len(d) + Len(f)
           /\ \A i \in 1 .. Len(d) : (d \o f)[i] = d[i]
           /\ \A i \in 1 .. Len(f) : (d \o f)[Len(d) + i] = f[i]
OBVIOUS

\* Two diagnostic campaigns precede the four, the first of each kind without threads.
LEMMA CampaignFacts ==
    ASSUME job.focused \in BOOLEAN
    PROVE  /\ Len(Campaigns[job.focused]) = Diagnosed + 4 /\ Diagnosed \in 0 .. 2
           /\ \A c \in 1 .. Diagnosed + 4 :
                 /\ Campaigns[job.focused][c].diagnostic <=> c <= Diagnosed
                 /\ Campaigns[job.focused][c].threads \in {1, 2}
           /\ Campaigns[job.focused][1].threads = 1
           /\ Campaigns[job.focused][Diagnosed + 1].threads = 1
<1> DEFINE Kind == {Campaign("serial-jsonl", 1, FALSE), Campaign("serial-csv", 1, FALSE),
                    Campaign("threaded-jsonl", 2, FALSE), Campaign("threaded-csv", 2, FALSE),
                    Campaign("serial-jsonl", 1, TRUE), Campaign("threaded-jsonl", 2, TRUE)}
<1>1. Finals \in Seq(Kind) /\ Diagnostics \in Seq(Kind)
  BY DEF Finals, Diagnostics
<1>2. Len(Finals) = 4 /\ Len(Diagnostics) = 2
  BY DEF Finals, Diagnostics
<1> HIDE DEF Kind
<1>3. /\ Diagnostics[1].diagnostic = TRUE /\ Diagnostics[1].threads = 1
      /\ Diagnostics[2].diagnostic = TRUE /\ Diagnostics[2].threads = 2
      /\ Finals[1].diagnostic = FALSE /\ Finals[1].threads = 1
      /\ Finals[2].diagnostic = FALSE /\ Finals[2].threads = 1
      /\ Finals[3].diagnostic = FALSE /\ Finals[3].threads = 2
      /\ Finals[4].diagnostic = FALSE /\ Finals[4].threads = 2
  BY DEF Diagnostics, Finals, Campaign
<1>4. CASE job.focused
  <2>1. Campaigns[job.focused] = Finals /\ Diagnosed = 0
    BY <1>4 DEF Campaigns, Diagnosed
  <2>2. \A c \in 1 .. 4 : c = 1 \/ c = 2 \/ c = 3 \/ c = 4
    OBVIOUS
  <2>3. \A c \in 1 .. 4 : Finals[c].diagnostic = FALSE /\ Finals[c].threads \in {1, 2}
    BY <1>3, <2>2
  <2> QED BY <1>2, <1>3, <2>1, <2>3
<1>5. CASE ~job.focused
  <2>1. PICK all : all = Campaigns[job.focused] /\ all = Diagnostics \o Finals
    BY <1>5 DEF Campaigns
  <2>2. PICK m, n : m = Len(Diagnostics) /\ n = Len(Finals)
    OBVIOUS
  <2>3. /\ Len(all) = m + n
        /\ \A i \in 1 .. m : all[i] = Diagnostics[i]
        /\ \A i \in 1 .. n : all[m + i] = Finals[i]
    BY <1>1, <2>1, <2>2, Concatenated
  <2>4. m = 2 /\ n = 4
    BY <1>2, <2>2
  <2>5. /\ Len(all) = 6 /\ all[1] = Diagnostics[1] /\ all[2] = Diagnostics[2]
        /\ all[3] = Finals[1] /\ all[4] = Finals[2] /\ all[5] = Finals[3] /\ all[6] = Finals[4]
    BY <2>3, <2>4
  <2>6. \A c \in 1 .. 6 : c = 1 \/ c = 2 \/ c = 3 \/ c = 4 \/ c = 5 \/ c = 6
    OBVIOUS
  <2>7. \A c \in 1 .. 6 : /\ all[c].diagnostic <=> c <= 2
                          /\ all[c].threads \in {1, 2}
    BY <1>3, <2>5, <2>6
  <2>8. Diagnosed = 2
    BY <1>5 DEF Diagnosed
  <2> QED BY <1>3, <2>1, <2>5, <2>7, <2>8
<1> QED BY <1>4, <1>5

\* A schedule has a multiple of six invocations, of all profiles, each of an artifact
\* that is one of the entries.
LEMMA ScheduleFacts ==
    ASSUME job.focused \in BOOLEAN
    PROVE  /\ Len(Entries) \in Nat /\ Len(Entries) >= 6 /\ DOMAIN Entries = 1 .. Len(Entries)
           /\ Len(Schedule) \in Nat /\ Len(Schedule) >= Len(Entries)
           /\ DOMAIN Schedule = 1 .. Len(Schedule)
           /\ \A p \in ProfileNames : \E k \in 1 .. 3 : Schedule[k].implementation = p
           /\ \A k \in DOMAIN Schedule :
                 /\ Schedule[k].implementation \in ProfileNames
                 /\ \E e \in DOMAIN Entries :
                       /\ Entries[e].library = Schedule[k].library
                       /\ Entries[e].implementation = Schedule[k].implementation
<1> DEFINE n == Len(Libraries)
<1>1. n \in Nat \ {0} /\ DOMAIN Libraries = 1 .. n
  BY SmokeAssumption
<1>2. /\ DOMAIN Entries = 1 .. n * 6 /\ Len(Entries) = n * 6
      /\ \A k \in 1 .. n * 6 :
            /\ Entries[k].library = Libraries[1 + ((k - 1) \div 6)]
            /\ Entries[k].implementation = Profiles[1 + (((k - 1) % 6) \div 2)]
  BY <1>1 DEF Entries
<1>3. ASSUME NEW c \in {1, 2}, NEW s, s = BuildSchedule(Libraries, c)
      PROVE  /\ DOMAIN s = 1 .. n * c * 6 /\ Len(s) = n * c * 6
             /\ \A k \in 1 .. n * c * 6 :
                   /\ s[k].library = Libraries[1 + ((k - 1) \div (c * 6))]
                   /\ s[k].implementation = Profiles[1 + ((k - 1) % 3)]
  BY <1>1, <1>3 DEF BuildSchedule
<1>4. PICK c \in {1, 2} : Schedule = BuildSchedule(Libraries, c)
  BY DEF Schedule, Schedules
<1>5. PICK s : s = Schedule
  OBVIOUS
<1>6. /\ DOMAIN s = 1 .. n * c * 6 /\ Len(s) = n * c * 6
      /\ \A k \in 1 .. n * c * 6 :
            /\ s[k].library = Libraries[1 + ((k - 1) \div (c * 6))]
            /\ s[k].implementation = Profiles[1 + ((k - 1) % 3)]
  BY <1>3, <1>4, <1>5
<1>7. \A k \in 1 .. n * c * 6 :
          /\ s[k].implementation \in ProfileNames
          /\ \E e \in 1 .. n * 6 : /\ Entries[e].library = s[k].library
                                   /\ Entries[e].implementation = s[k].implementation
  <2> SUFFICES ASSUME NEW k \in 1 .. n * c * 6
               PROVE  /\ s[k].implementation \in ProfileNames
                      /\ \E e \in 1 .. n * 6 :
                            /\ Entries[e].library = s[k].library
                            /\ Entries[e].implementation = s[k].implementation
    OBVIOUS
  <2>1. PICK b, p : b = (k - 1) \div (c * 6) /\ p = (k - 1) % 3
    OBVIOUS
  <2>2. b \in 0 .. n - 1 /\ p \in 0 .. 2
    <3>1. CASE c = 1
      BY <1>1, <2>1, <3>1
    <3>2. CASE c = 2
      BY <1>1, <2>1, <3>2
    <3> QED BY <3>1, <3>2
  <2>3. PICK e : e = 6 * b + 2 * p + 1
    OBVIOUS
  <2>4. /\ e \in 1 .. n * 6 /\ (e - 1) \div 6 = b /\ ((e - 1) % 6) \div 2 = p
    BY <1>1, <2>2, <2>3
  <2>5. Profiles[1 + p] \in ProfileNames
    BY <2>2, ProfileFacts
  <2>6. s[k].library = Libraries[1 + b] /\ s[k].implementation = Profiles[1 + p]
    BY <1>6, <2>1
  <2>7. Entries[e].library = Libraries[1 + b] /\ Entries[e].implementation = Profiles[1 + p]
    BY <1>2, <2>4
  <2> QED BY <2>4, <2>5, <2>6, <2>7
<1>8. s[1].implementation = "cpu" /\ s[2].implementation = "hip" /\ s[3].implementation = "openmp"
  <2>1. 1 \in 1 .. n * c * 6 /\ 2 \in 1 .. n * c * 6 /\ 3 \in 1 .. n * c * 6
    BY <1>1
  <2> QED BY <1>6, <2>1, ProfileFacts
<1>9. n * 6 \in Nat /\ n * 6 >= 6 /\ n * c * 6 \in Nat /\ n * c * 6 >= n * 6
  BY <1>1
<1>10. PICK l, m : l = n * 6 /\ m = n * c * 6
  OBVIOUS
<1> HIDE DEF n
<1>11. /\ Len(Entries) = l /\ DOMAIN Entries = 1 .. l /\ Len(Schedule) = m
       /\ DOMAIN Schedule = 1 .. m /\ l \in Nat /\ m \in Nat /\ l >= 6 /\ m >= l
  BY <1>2, <1>5, <1>6, <1>9, <1>10
<1>12. \A p \in ProfileNames : \E k \in 1 .. 3 : Schedule[k].implementation = p
  BY <1>5, <1>8, ProfileFacts
<1>13. \A k \in 1 .. m : /\ Schedule[k].implementation \in ProfileNames
                         /\ \E e \in 1 .. l :
                               /\ Entries[e].library = Schedule[k].library
                               /\ Entries[e].implementation = Schedule[k].implementation
  BY <1>5, <1>7, <1>10
<1> QED BY <1>11, <1>12, <1>13

-----------------------------------------------------------------------------
(* How the process moves.                                                  *)

SameEnd(j, k) ==
    k.error = j.error /\ k.timed = j.timed /\ k.status = j.status /\ k.exit = j.exit
SameProof(j, k) ==
    k.look = j.look /\ k.seen = j.seen /\ k.proof = j.proof /\ k.code = j.code
SameRun(j, k) ==
    k.next = j.next /\ k.campaign = j.campaign /\ k.failed = j.failed /\ k.good = j.good

\* What the process is made of.
LEMMA JobDomain ==
    ASSUME NEW j \in Jobs
    PROVE  DOMAIN j = {"at", "focused", "look", "next", "seen", "proof", "code", "campaign",
                       "failed", "good", "error", "timed", "status", "exit"}
BY DEF Jobs

\* A process that goes somewhere is as it was, but for where it is.
LEMMA Moved ==
    ASSUME NEW j \in Jobs, NEW s \in Places, Goes(j, s)
    PROVE  /\ job' \in Jobs /\ job'.at = s /\ job'.focused = j.focused
           /\ SameEnd(j, job') /\ SameProof(j, job') /\ SameRun(j, job')
<1>1. job' = [j EXCEPT !.at = s]
  BY DEF Goes
<1>2. [j EXCEPT !.at = s] \in Jobs
  BY DEF Jobs
<1> QED BY <1>1, <1>2, JobDomain DEF SameEnd, SameProof, SameRun

\* The exception on its way.
LEMMA WithError ==
    ASSUME NEW j \in Jobs, NEW e \in {"none", "other", "stop"}
    PROVE  LET k == [j EXCEPT !.error = e]
           IN  /\ k \in Jobs /\ k.error = e /\ k.focused = j.focused /\ k.timed = j.timed
               /\ k.status = j.status /\ k.exit = j.exit /\ SameProof(j, k) /\ SameRun(j, k)
BY JobDomain DEF Jobs, SameProof, SameRun

\* A child that ran out of time.
LEMMA WithTimed ==
    ASSUME NEW j \in Jobs, NEW e \in {"none", "other", "stop"}, NEW t \in BOOLEAN
    PROVE  LET k == [j EXCEPT !.error = e, !.timed = t]
           IN  /\ k \in Jobs /\ k.error = e /\ k.focused = j.focused /\ k.timed = t
               /\ k.status = j.status /\ k.exit = j.exit /\ SameProof(j, k) /\ SameRun(j, k)
<1> DEFINE i == [j EXCEPT !.error = e]
<1>1. [j EXCEPT !.error = e, !.timed = t] = [i EXCEPT !.timed = t]
  OBVIOUS
<1>2. /\ i \in Jobs /\ i.error = e /\ i.focused = j.focused
      /\ i.status = j.status /\ i.exit = j.exit /\ SameProof(j, i) /\ SameRun(j, i)
  BY WithError
<1> HIDE DEF i
<1>3. [i EXCEPT !.timed = t] \in Jobs
  BY <1>2 DEF Jobs
<1> QED BY <1>1, <1>2, <1>3, JobDomain DEF SameProof, SameRun

\* The outcome.
Says(j, v) == [j EXCEPT !.status = v]
Exits(j, x) == [j EXCEPT !.exit = x]
Leaves(j, v, x) == [j EXCEPT !.status = v, !.exit = x]

\* Nothing else changes when the outcome is written.
LEMMA WithStatus ==
    ASSUME NEW j \in Jobs, NEW v \in {"none", "SMOKE_COMPLETE", "FAILED", "UNKNOWN"}
    PROVE  LET k == Says(j, v)
           IN  /\ k \in Jobs /\ k.status = v /\ k.focused = j.focused /\ k.error = j.error
               /\ k.timed = j.timed /\ k.exit = j.exit /\ SameProof(j, k) /\ SameRun(j, k)
BY JobDomain DEF Says, Jobs, SameProof, SameRun

\* The exit status.
LEMMA WithExit ==
    ASSUME NEW j \in Jobs, NEW v \in {"none", "0", "1"}
    PROVE  LET k == Exits(j, v)
           IN  /\ k \in Jobs /\ k.exit = v /\ k.focused = j.focused /\ k.error = j.error
               /\ k.timed = j.timed /\ k.status = j.status /\ SameProof(j, k) /\ SameRun(j, k)
BY JobDomain DEF Exits, Jobs, SameProof, SameRun

\* Both.
LEMMA WithOutcome ==
    ASSUME NEW j \in Jobs, NEW v \in {"none", "SMOKE_COMPLETE", "FAILED", "UNKNOWN"},
           NEW x \in {"none", "0", "1"}
    PROVE  LET k == Leaves(j, v, x)
           IN  /\ k \in Jobs /\ k.status = v /\ k.exit = x /\ k.focused = j.focused
               /\ k.error = j.error /\ k.timed = j.timed /\ SameProof(j, k) /\ SameRun(j, k)
<1>1. PICK i : i = Says(j, v)
  OBVIOUS
<1>2. /\ i \in Jobs /\ i.status = v /\ i.focused = j.focused
      /\ i.error = j.error /\ i.timed = j.timed /\ SameProof(j, i) /\ SameRun(j, i)
  BY <1>1, WithStatus
<1>3. PICK k : k = Exits(i, x)
  OBVIOUS
<1>4. Leaves(j, v, x) = k
  BY <1>1, <1>3 DEF Leaves, Says, Exits
<1>5. /\ k \in Jobs /\ k.exit = x /\ k.focused = i.focused /\ k.error = i.error
      /\ k.timed = i.timed /\ k.status = i.status /\ SameProof(i, k) /\ SameRun(i, k)
  BY <1>2, <1>3, WithExit
<1> QED BY <1>2, <1>4, <1>5 DEF SameProof, SameRun

\* The index of what comes next.
LEMMA WithNext ==
    ASSUME NEW j \in Jobs, NEW n \in Nat
    PROVE  LET k == [j EXCEPT !.next = n]
           IN  /\ k \in Jobs /\ k.next = n /\ k.focused = j.focused /\ SameEnd(j, k)
               /\ SameProof(j, k) /\ k.campaign = j.campaign /\ k.failed = j.failed
               /\ k.good = j.good
BY JobDomain DEF Jobs, SameProof, SameEnd

\* What a row leaves behind.
After(j, n, f, g) == [j EXCEPT !.next = n, !.failed = f, !.good = g]

\* Nothing else changes after a row.
LEMMA WithRow ==
    ASSUME NEW j \in Jobs, NEW n \in Nat, NEW f \in BOOLEAN, NEW g \in BOOLEAN
    PROVE  LET k == After(j, n, f, g)
           IN  /\ k \in Jobs /\ k.next = n /\ k.failed = f /\ k.good = g
               /\ k.focused = j.focused /\ k.campaign = j.campaign
               /\ SameEnd(j, k) /\ SameProof(j, k)
<1> DEFINE i == [j EXCEPT !.next = n]
           h == [i EXCEPT !.failed = f]
<1>1. After(j, n, f, g) = [h EXCEPT !.good = g]
  BY DEF After
<1>2. /\ i \in Jobs /\ i.next = n /\ i.focused = j.focused /\ SameEnd(j, i)
      /\ SameProof(j, i) /\ i.campaign = j.campaign
  BY WithNext
<1> HIDE DEF i
<1>3. /\ h \in Jobs /\ h.failed = f /\ h.next = n /\ h.focused = j.focused /\ SameEnd(j, h)
      /\ SameProof(j, h) /\ h.campaign = j.campaign
  <2>1. h \in Jobs
    BY <1>2 DEF Jobs
  <2> QED BY <1>2, <2>1, JobDomain DEF SameProof, SameEnd
<1> HIDE DEF h
<1>4. [h EXCEPT !.good = g] \in Jobs
  BY <1>3 DEF Jobs
<1> QED BY <1>1, <1>3, <1>4, JobDomain DEF SameProof, SameEnd

\* A look at a file.
Seen(j, f, v, n) == [j EXCEPT !.seen[f] = v, !.next = n]

\* Nothing else changes when a file has been looked at.
LEMMA WithSeen ==
    ASSUME NEW j \in Jobs, NEW f \in Files, NEW v \in Versions, NEW n \in Nat, NEW k,
           k = Seen(j, f, v, n)
    PROVE  /\ k \in Jobs /\ k.next = n /\ k.focused = j.focused /\ SameEnd(j, k)
           /\ k.look = j.look /\ k.proof = j.proof /\ k.code = j.code
           /\ k.campaign = j.campaign /\ k.failed = j.failed /\ k.good = j.good
           /\ k.seen[f] = v /\ \A g \in Files \ {f} : k.seen[g] = j.seen[g]
<1> DEFINE w == [j.seen EXCEPT ![f] = v]
           i == [j EXCEPT !.seen = w]
<1>1. k = [i EXCEPT !.next = n]
  BY DEF Seen
<1>2. w \in FileVersions /\ w[f] = v /\ \A g \in Files \ {f} : w[g] = j.seen[g]
  BY DEF Jobs, FileVersions
<1> HIDE DEF w
<1>3. i \in Jobs
  BY <1>2 DEF Jobs
<1>4. /\ i.seen = w /\ i.focused = j.focused /\ SameEnd(j, i) /\ i.look = j.look
      /\ i.proof = j.proof /\ i.code = j.code /\ i.campaign = j.campaign
      /\ i.failed = j.failed /\ i.good = j.good
  BY <1>3, JobDomain DEF SameEnd
<1> HIDE DEF i
<1>5. /\ k \in Jobs /\ k.next = n /\ k.focused = i.focused /\ SameEnd(i, k)
      /\ SameProof(i, k) /\ k.campaign = i.campaign /\ k.failed = i.failed /\ k.good = i.good
  BY ONLY <1>1, <1>3, n \in Nat, WithNext
<1>6. k.seen = w
  BY <1>4, <1>5 DEF SameProof
<1> QED BY <1>2, <1>4, <1>5, <1>6 DEF SameEnd, SameProof

\* The second look, and the next inspection.
LEMMA WithLook ==
    ASSUME NEW j \in Jobs, NEW l \in {1, 2}, NEW n \in Nat
    PROVE  LET k == [j EXCEPT !.look = l, !.next = n]
           IN  /\ k \in Jobs /\ k.look = l /\ k.next = n /\ k.focused = j.focused
               /\ SameEnd(j, k) /\ k.seen = j.seen /\ k.proof = j.proof /\ k.code = j.code
               /\ k.campaign = j.campaign /\ k.failed = j.failed /\ k.good = j.good
<1> DEFINE i == [j EXCEPT !.look = l]
<1>1. [j EXCEPT !.look = l, !.next = n] = [i EXCEPT !.next = n]
  OBVIOUS
<1>2. i \in Jobs
  BY DEF Jobs
<1>3. /\ i.look = l /\ i.focused = j.focused /\ SameEnd(j, i) /\ i.seen = j.seen
      /\ i.proof = j.proof /\ i.code = j.code /\ i.campaign = j.campaign
      /\ i.failed = j.failed /\ i.good = j.good
  BY <1>2, JobDomain DEF SameEnd
<1> HIDE DEF i
<1> QED BY <1>1, <1>2, <1>3, WithNext DEF SameEnd, SameProof

\* The proof, and the code imported after it.
LEMMA WithProof ==
    ASSUME NEW j \in Jobs, NEW v \in FileVersions
    PROVE  LET k == [j EXCEPT !.proof = v]
           IN  /\ k \in Jobs /\ k.proof = v /\ k.focused = j.focused
               /\ SameEnd(j, k) /\ SameRun(j, k) /\ k.look = j.look /\ k.seen = j.seen
               /\ k.code = j.code
BY JobDomain DEF Jobs, SameEnd, SameRun

\* The code imported after the proof.
LEMMA WithCode ==
    ASSUME NEW j \in Jobs, NEW v \in FileVersions
    PROVE  LET k == [j EXCEPT !.code = v]
           IN  /\ k \in Jobs /\ k.code = v /\ k.focused = j.focused
               /\ SameEnd(j, k) /\ SameRun(j, k) /\ k.look = j.look /\ k.seen = j.seen
               /\ k.proof = j.proof
BY JobDomain DEF Jobs, SameEnd, SameRun

-----------------------------------------------------------------------------
(* What most steps leave as it was.                                        *)

\* What the children read and left.
SameWork(h, k) ==
    /\ k.last = h.last /\ k.before = h.before /\ k.rows = h.rows
    /\ k.calls = h.calls /\ k.binaries = h.binaries

\* The scope of a smoke never changes.
LEMMA SameSchedule ==
    ASSUME job'.focused = job.focused
    PROVE  Schedule' = Schedule /\ Diagnosed' = Diagnosed /\ FirstKey' = FirstKey
BY DEF Schedule, Diagnosed, FirstKey

\* Faults are counted up to their bound.
FaultsGrow == faults' \in 0 .. Faults /\ faults <= faults' /\ faults' \in Nat

\* A step counts at most one fault.
LEMMA FaultsCount ==
    ASSUME Shape, Fault \/ UNCHANGED faults
    PROVE  FaultsGrow
BY SmokeAssumption DEF Shape, TypeOK, Fault, FaultsGrow

\* The shapes, if the process keeps its own.
LEMMA ShapeKept ==
    ASSUME Shape, UNCHANGED <<disk, build, gate, observed>>, FaultsGrow,
           job' \in Jobs, job'.focused = job.focused, history' \in Histories,
           job'.next \in 1 .. Len(Schedule) + 1,
           job'.campaign \in 0 .. Len(Campaigns[job.focused]) + 1
    PROVE  Shape'
<1>1. /\ job'.at \in Places /\ job'.look \in {1, 2} /\ job'.seen \in [Files -> Versions]
      /\ job'.error \in {"none", "other", "stop"} /\ job'.exit \in {"none", "0", "1"}
      /\ job'.status \in {"none", "SMOKE_COMPLETE", "FAILED", "UNKNOWN"}
  BY DEF Jobs, FileVersions
<1>2. TypeOK'
  BY <1>1, SameSchedule DEF Shape, TypeOK, FaultsGrow
<1>3. /\ \A f \in Files : disk'.file[f] <= faults'
      /\ \A n \in LibraryFiles : disk'.lib[n] <= faults'
  <2>1. /\ \A f \in Files : disk.file[f] \in Nat /\ disk.file[f] <= faults
        /\ \A n \in LibraryFiles : disk.lib[n] \in Nat /\ disk.lib[n] <= faults
        /\ faults \in Nat
    BY SmokeAssumption DEF Shape, TypeOK, Versions
  <2> QED BY <2>1 DEF FaultsGrow
<1> QED BY <1>2, <1>3 DEF Shape

\* The libraries and what is remembered of them are numbers.
LEMMA VersionFacts ==
    ASSUME Shape
    PROVE  /\ \A f \in Files : disk.file[f] \in Nat /\ disk.file[f] \in Versions
           /\ \A n \in LibraryFiles : disk.lib[n] \in Nat /\ disk.lib[n] \in Versions
           /\ \A v \in FileVersions, f \in Files : v[f] \in Nat
           /\ \A o \in Objects : \A n \in DOMAIN o : n \in LibraryFiles /\ o[n] \in Nat
           /\ \A p \in ProfileNames : \A o \in Loads(p) : o \in Objects
           /\ disk.file \in FileVersions /\ job \in Jobs /\ history \in Histories
<1>1. Versions \subseteq Nat
  BY SmokeAssumption DEF Versions
<1>2. \A o \in Objects : \A n \in DOMAIN o : n \in LibraryFiles /\ o[n] \in Versions
  BY DEF Objects
<1>3. \A p \in ProfileNames : history.last[p] \in Objects \cup {<<>>} /\ history.before[p] \subseteq Objects
  BY DEF Shape, Histories
<1> QED BY <1>1, <1>2, <1>3 DEF Shape, TypeOK, FileVersions, Loads

\* The C library is one of the files that can be replaced.
LEMMA LibcIsFile == Libc \in LibraryFiles
BY DEF LibraryFiles

\* What is remembered of the children's libraries stays true while these only get newer.
LEMMA TracedKept ==
    ASSUME Shape, Traced, job'.focused = job.focused, observed' = observed,
           SameWork(history, history'),
           \A n \in LibraryFiles : disk'.lib[n] \in Nat /\ disk.lib[n] <= disk'.lib[n]
    PROVE  Traced'
<1>1. \A k \in DOMAIN observed : observed[k][Libc] \in Nat /\ observed[k][Libc] <= disk.lib[Libc]
  BY VersionFacts DEF Traced
<1>2. \A k \in DOMAIN observed : observed[k][Libc] <= disk'.lib[Libc]
  BY <1>1, LibcIsFile, VersionFacts
<1>3. \A p \in ProfileNames : Loads(p)' = Loads(p)
  BY DEF Loads, SameWork
<1> QED BY <1>2, <1>3, SameSchedule DEF Traced, SameLibc, SameWork

\* So does what they say of the profiles, unless a child is about to run.
LEMMA LoadedKept ==
    ASSUME Shape, Loaded, job'.focused = job.focused, SameWork(history, history'),
           \A n \in LibraryFiles : disk'.lib[n] \in Nat /\ disk.lib[n] <= disk'.lib[n],
           job'.at = "launch" =>
               \A p \in ProfileNames :
                   history.last[p] # <<>> /\ Schedule[job'.next].implementation = p
                       => AsConfigured(history.last[p])
    PROVE  Loaded'
<1>1. \A p \in ProfileNames : Loads(p)' = Loads(p) /\ Earlier(p)' = Earlier(p)
  BY DEF Loads, Earlier, SameWork
<1>2. ASSUME NEW p \in ProfileNames, NEW o \in Loads(p), NEW n \in DOMAIN o
      PROVE  o[n] <= disk'.lib[n]
  <2>1. o[n] \in Nat /\ n \in LibraryFiles /\ o[n] <= disk.lib[n] /\ disk.lib[n] \in Nat
    BY VersionFacts DEF Loaded
  <2> QED BY <2>1
<1> QED BY <1>1, <1>2, SameSchedule DEF Loaded, SameWork

-----------------------------------------------------------------------------
(* The end of the job.                                                     *)

\* Something failed: the except clause is next, and nothing else has changed.
Failing ==
    /\ UNCHANGED <<disk, build, gate, observed>> /\ FaultsGrow
    /\ job' \in Jobs /\ job'.focused = job.focused /\ job'.at = "except" /\ job'.error = "other"
    /\ job'.status = job.status /\ job'.exit = job.exit
    /\ SameProof(job, job') /\ SameRun(job, job')

\* A failure is an exception on its way to the except clause.
LEMMA FailsIs ==
    ASSUME Shape, FaultsGrow, UNCHANGED <<disk, build, gate, observed>>,
           \/ Goes([job EXCEPT !.error = "other"], "except")
           \/ \E t \in BOOLEAN : Goes([job EXCEPT !.error = "other", !.timed = t], "except")
    PROVE  Failing
<1>1. job \in Jobs /\ "except" \in Places
  BY DEF Shape, Places
<1>2. PICK k \in Jobs :
          /\ Goes(k, "except") /\ k.error = "other" /\ k.focused = job.focused
          /\ k.status = job.status /\ k.exit = job.exit /\ SameProof(job, k) /\ SameRun(job, k)
  <2>1. CASE Goes([job EXCEPT !.error = "other"], "except")
    BY <1>1, <2>1, WithError
  <2>2. CASE \E t \in BOOLEAN : Goes([job EXCEPT !.error = "other", !.timed = t], "except")
    <3>1. PICK t \in BOOLEAN : Goes([job EXCEPT !.error = "other", !.timed = t], "except")
      BY <2>2
    <3>2. PICK k : k = [job EXCEPT !.error = "other", !.timed = t]
      OBVIOUS
    <3> QED BY <1>1, <3>1, <3>2, WithTimed
  <2> QED BY <2>1, <2>2
<1>3. /\ job' \in Jobs /\ job'.at = "except" /\ job'.focused = k.focused
      /\ SameEnd(k, job') /\ SameProof(k, job') /\ SameRun(k, job')
  BY <1>1, <1>2, Moved
<1> QED BY <1>2, <1>3 DEF Failing, SameEnd, SameProof, SameRun

\* A failure, whatever a child has left.
LEMMA FailingKeeps ==
    ASSUME IInv, Failing, job.at \in Working \ {"exit0"}, history' = history
    PROVE  IInv'
<1>1. Shape /\ job.error = "none" /\ job.status = "none" /\ job.exit = "none"
      /\ ~history.stopped
  BY DEF IInv, Ends
<1>2. Shape'
  BY <1>1, VersionFacts, ShapeKept DEF Failing, SameRun, Shape, TypeOK
<1>3. Attempt' /\ Ends'
  BY <1>1 DEF IInv, Attempt, Ends, Failing, Working
<1>4. Proven'
  BY <1>1 DEF IInv, Proven, Failing, SameProof, ProofIsOneInstant, At, Proved, Working
<1>5. Counted'
  BY <1>1 DEF Counted, Fresh, Through, Failing
<1>6. Traced' /\ Loaded'
  BY <1>1, TracedKept, LoadedKept, VersionFacts DEF IInv, Failing, SameWork
<1> QED BY <1>2, <1>3, <1>4, <1>5, <1>6 DEF IInv

\* A file or a library is replaced by a newer one.
LEMMA ReplaceKeeps ==
    ASSUME IInv, Replace
    PROVE  IInv'
<1>1. /\ Shape /\ UNCHANGED <<build, gate, job, observed, history>> /\ Fault
      /\ faults \in Nat /\ Faults \in Nat
  BY SmokeAssumption DEF IInv, Replace, Shape, TypeOK
<1>2. PICK was : was = disk
  OBVIOUS
<1>3. was \in [file : [Files -> Versions], lib : [LibraryFiles -> Versions]]
  BY <1>1, <1>2 DEF Shape, TypeOK
<1>4. /\ \A f \in Files : was.file[f] \in Nat /\ was.file[f] <= faults
      /\ \A n \in LibraryFiles : was.lib[n] \in Nat /\ was.lib[n] <= faults
  BY <1>1, <1>2, VersionFacts DEF Shape
<1>5. \E file \in [Files -> Versions], lib \in [LibraryFiles -> Versions] :
          /\ disk' = [file |-> file, lib |-> lib]
          /\ \A f \in Files : was.file[f] <= file[f] /\ file[f] <= faults + 1
          /\ \A n \in LibraryFiles : was.lib[n] <= lib[n] /\ lib[n] <= faults + 1
  <2>1. CASE \E f \in Files : disk' = [was EXCEPT !.file[f] = @ + 1]
    <3>1. PICK f \in Files : disk' = [was EXCEPT !.file[f] = @ + 1]
      BY <2>1
    <3>2. PICK file : file = [was.file EXCEPT ![f] = @ + 1]
      OBVIOUS
    <3>3. disk' = [file |-> file, lib |-> was.lib]
      BY <1>3, <3>1, <3>2
    <3>4. was.file \in [Files -> Versions] /\ was.lib \in [LibraryFiles -> Versions]
      BY <1>3
    <3>5. was.file[f] + 1 \in Versions
      BY <1>1, <1>4 DEF Versions, Fault
    <3>6. file \in [Files -> Versions]
      BY <3>2, <3>4, <3>5
    <3>7. \A g \in Files : was.file[g] <= file[g] /\ file[g] <= faults + 1
      BY <1>1, <1>4, <3>2, <3>4
    <3>8. \A n \in LibraryFiles : was.lib[n] <= was.lib[n] /\ was.lib[n] <= faults + 1
      BY <1>1, <1>4
    <3>9. PICK lib : lib = was.lib
      OBVIOUS
    <3> QED BY ONLY <3>3, <3>4, <3>6, <3>7, <3>8, <3>9
  <2>2. CASE \E n \in LibraryFiles : disk' = [was EXCEPT !.lib[n] = @ + 1]
    <3>1. PICK n \in LibraryFiles : disk' = [was EXCEPT !.lib[n] = @ + 1]
      BY <2>2
    <3>2. PICK lib : lib = [was.lib EXCEPT ![n] = @ + 1]
      OBVIOUS
    <3>3. disk' = [file |-> was.file, lib |-> lib]
      BY <1>3, <3>1, <3>2
    <3>4. was.file \in [Files -> Versions] /\ was.lib \in [LibraryFiles -> Versions]
      BY <1>3
    <3>5. was.lib[n] + 1 \in Versions
      BY <1>1, <1>4 DEF Versions, Fault
    <3>6. lib \in [LibraryFiles -> Versions]
      BY <3>2, <3>4, <3>5
    <3>7. \A g \in LibraryFiles : was.lib[g] <= lib[g] /\ lib[g] <= faults + 1
      BY <1>1, <1>4, <3>2, <3>4
    <3>8. \A f \in Files : was.file[f] <= was.file[f] /\ was.file[f] <= faults + 1
      BY <1>1, <1>4
    <3>9. PICK file : file = was.file
      OBVIOUS
    <3> QED BY ONLY <3>3, <3>4, <3>6, <3>7, <3>8, <3>9
  <2> QED BY <1>2, <2>1, <2>2 DEF Replace
<1>6. /\ disk' \in [file : [Files -> Versions], lib : [LibraryFiles -> Versions]]
      /\ \A f \in Files : disk.file[f] <= disk'.file[f] /\ disk'.file[f] <= faults'
      /\ \A n \in LibraryFiles : disk.lib[n] <= disk'.lib[n] /\ disk'.lib[n] <= faults'
  BY <1>1, <1>2, <1>5 DEF Fault
<1>7. /\ \A f \in Files : disk.file[f] \in Nat /\ disk'.file[f] \in Nat
      /\ \A n \in LibraryFiles : disk.lib[n] \in Nat /\ disk'.lib[n] \in Nat
  BY <1>1, <1>6, VersionFacts, SmokeAssumption DEF Versions
<1>8. Shape'
  BY <1>1, <1>6, SameSchedule DEF Shape, TypeOK, Fault
<1>9. Attempt' /\ Ends' /\ Counted'
  BY <1>1, SameSchedule DEF IInv, Attempt, Ends, Counted, Fresh, Through, NoneRan, Named,
      AllAccepted
<1>10. \A v \in FileVersions : Below(v, disk.file) => Below(v, disk'.file)
  BY <1>1, <1>6, <1>7, VersionFacts DEF Below
<1>11. ASSUME job.at = "proof"
       PROVE  Looking'
  <2>1. Looking /\ job.seen \in FileVersions
    BY <1>1, <1>11 DEF IInv, Proven, Shape, Jobs
  <2>2. ASSUME job.look = 1, NEW k \in 1 .. 6, k < job.next
        PROVE  Sound(ProofFiles[k]) /\ job.seen[ProofFiles[k]] <= disk'.file[ProofFiles[k]]
    <3>1. /\ Sound(ProofFiles[k]) /\ job.seen[ProofFiles[k]] <= disk.file[ProofFiles[k]]
          /\ ProofFiles[k] \in Files
      BY <2>1, <2>2, FileFacts DEF Looking
    <3>2. job.seen[ProofFiles[k]] \in Nat
      BY <1>1, <2>1, <3>1, VersionFacts
    <3> QED BY <1>6, <1>7, <3>1, <3>2
  <2>3. job.look = 2 => Below(history.instant, disk'.file)
    BY <1>1, <1>10, <2>1, VersionFacts DEF Looking, Histories
  <2>4. \A f \in Files : Sound(f)' <=> Sound(f)
    BY <1>1 DEF Sound, Convincing
  <2> QED BY <1>1, <2>1, <2>2, <2>3, <2>4, FileFacts DEF Looking
<1>12. Proven'
  <2>1. \A b \in history.binaries : b <= disk'.file["binaries"]
    <3>1. "binaries" \in Files /\ \A b \in history.binaries : b \in Nat
      BY <1>1, FileFacts DEF Shape, Histories
    <3> QED BY <1>6, <1>7, <3>1 DEF IInv, Proven
  <2>2. job.proof \in FileVersions \cup {<<>>} /\ job.code \in FileVersions \cup {<<>>}
    BY <1>1 DEF Shape, Jobs
  <2> QED BY <1>1, <1>10, <1>11, <2>1, <2>2 DEF IInv, Proven, ProofIsOneInstant, At
<1>13. Traced' /\ Loaded'
  BY <1>1, <1>6, <1>7, TracedKept, LoadedKept DEF IInv, SameWork, Loaded
<1> QED BY <1>8, <1>9, <1>12, <1>13 DEF IInv

-----------------------------------------------------------------------------
(* The gate.                                                               *)

\* Who stays outside changes nothing.
LEMMA OutsideKeeps ==
    ASSUME IInv, NEW c \in Controllers, PassGate(c) \/ RefusePacket(c) \/ LoseRace(c)
    PROVE  IInv'
<1>1. /\ Shape /\ UNCHANGED <<disk, build, job, observed, history>> /\ (Fault \/ UNCHANGED faults)
      /\ \E s \in {"passed", "refused", "broken"} : gate' = [gate EXCEPT ![c] = s]
  BY DEF IInv, PassGate, RefusePacket, LoseRace, Enters
<1>2. FaultsGrow /\ gate \in [Controllers -> {"outside", "passed", "refused", "inside", "broken"}]
  BY <1>1, FaultsCount DEF Shape, TypeOK
<1>3. PICK s \in {"passed", "refused", "broken"} : gate' = [gate EXCEPT ![c] = s]
  BY <1>1
<1>4. /\ gate' \in [Controllers -> {"outside", "passed", "refused", "inside", "broken"}]
      /\ \A d \in Controllers : gate'[d] = "inside" => gate[d] = "inside"
  BY <1>2, <1>3
<1>5. Shape'
  <2>1. /\ \A f \in Files : disk.file[f] <= faults'
        /\ \A n \in LibraryFiles : disk.lib[n] <= faults'
    <3>1. /\ \A f \in Files : disk.file[f] \in Nat /\ disk.file[f] <= faults
          /\ \A n \in LibraryFiles : disk.lib[n] \in Nat /\ disk.lib[n] <= faults
          /\ faults \in Nat
      BY <1>1, VersionFacts, SmokeAssumption DEF Shape, TypeOK
    <3> QED BY <1>2, <3>1 DEF FaultsGrow
  <2> QED BY <1>1, <1>2, <1>4, <2>1, SameSchedule DEF Shape, TypeOK, FaultsGrow
<1>6. Attempt'
  BY <1>1, <1>4 DEF IInv, Attempt
<1>7. Ends' /\ Proven' /\ Counted'
  BY <1>1, SameSchedule DEF IInv, Ends, Proven, Counted, Fresh, Through, NoneRan, Named,
      AllAccepted, Looking, Sound, Convincing, ProofIsOneInstant, At
<1>8. Traced' /\ Loaded'
  BY <1>1, TracedKept, LoadedKept, VersionFacts DEF IInv, SameWork, Loaded
<1> QED BY <1>5, <1>6, <1>7, <1>8 DEF IInv

\* The directory is made exclusively: nobody is inside yet.
LEMMA MakeRootKeeps ==
    ASSUME IInv, NEW c \in Controllers, MakeRoot(c)
    PROVE  IInv'
<1>1. /\ Shape /\ UNCHANGED <<disk, build, observed, history, faults>> /\ job.at = "start"
      /\ gate' = [gate EXCEPT ![c] = "inside"] /\ Goes(job, "proof")
  BY DEF IInv, MakeRoot, Enters, Root, At
<1>2. /\ job' \in Jobs /\ job'.at = "proof" /\ job'.focused = job.focused
      /\ SameEnd(job, job') /\ SameProof(job, job') /\ SameRun(job, job')
  BY <1>1, Moved DEF Shape, Places
<1>3. /\ gate' \in [Controllers -> {"outside", "passed", "refused", "inside", "broken"}]
      /\ \A d \in Controllers : gate'[d] = "inside" => d = c
  BY <1>1 DEF IInv, Attempt, Shape, TypeOK
<1>4. job.proof = <<>> /\ job.next = 1 /\ job.look = 1
  BY <1>1 DEF IInv, Proven
<1>5. Shape'
  <2>1. /\ job'.at \in Places /\ job'.look \in {1, 2} /\ job'.seen \in [Files -> Versions]
        /\ job'.error \in {"none", "other", "stop"} /\ job'.exit \in {"none", "0", "1"}
        /\ job'.status \in {"none", "SMOKE_COMPLETE", "FAILED", "UNKNOWN"}
    BY <1>2 DEF Jobs, FileVersions
  <2> QED BY <1>1, <1>2, <1>3, <2>1, SameSchedule DEF Shape, TypeOK, SameRun
<1>6. Attempt'
  BY <1>2, <1>3 DEF Attempt
<1>7. Ends'
  BY <1>1, <1>2 DEF IInv, Ends, Working, Places, SameEnd
<1>8. Proven'
  <2>1. Looking'
    BY <1>2, <1>4 DEF Looking, SameProof, SameRun
  <2> QED BY <1>1, <1>2, <1>4, <2>1
          DEF IInv, Proven, ProofIsOneInstant, At, Proved, Working, Places, SameProof, SameRun, Ends,
              SameEnd
<1>9. Counted'
  <2>1. job.status = "none"
    BY <1>1 DEF IInv, Ends, Working, Places
  <2> QED BY <1>1, <1>2, <1>4, <2>1
          DEF IInv, Counted, Fresh, Through, NoneRan, SameProof, SameRun, SameEnd
<1>10. Traced' /\ Loaded'
  BY <1>1, <1>2, TracedKept, LoadedKept, VersionFacts DEF IInv, SameWork
<1> QED BY <1>5, <1>6, <1>7, <1>8, <1>9, <1>10 DEF IInv

-----------------------------------------------------------------------------
(* The job goes on.                                                        *)

\* A step that only the process takes, and that neither ends it nor completes it.
Forward ==
    /\ UNCHANGED <<disk, build, gate, observed, history>> /\ FaultsGrow
    /\ job' \in Jobs /\ job'.focused = job.focused /\ SameEnd(job, job')
    /\ job.at \in Working \ {"start", "exit0"} /\ job'.at \in Working \ {"start", "exit0"}
    /\ job'.next \in 1 .. Len(Schedule) + 1
    /\ job'.campaign \in 0 .. Len(Campaigns[job.focused]) + 1
    /\ job'.at = "launch" =>
          \A p \in ProfileNames :
              history.last[p] # <<>> /\ Schedule[job'.next].implementation = p
                  => AsConfigured(history.last[p])

\* What such a step cannot disturb.
LEMMA ForwardKeeps ==
    ASSUME IInv, Forward
    PROVE  Shape' /\ Attempt' /\ Ends' /\ Traced' /\ Loaded'
<1>1. Shape /\ history' = history
  BY DEF IInv, Forward
<1>2. Shape'
  BY <1>1, ShapeKept, VersionFacts DEF Forward
<1>3. Attempt' /\ Ends'
  BY <1>1 DEF IInv, Attempt, Ends, Forward, Working, SameEnd
<1>4. Traced' /\ Loaded'
  BY <1>1, TracedKept, LoadedKept, VersionFacts DEF IInv, Forward, SameWork
<1> QED BY <1>2, <1>3, <1>4

\* A step between the import and the second proof, or after it.
LEMMA ProvenOn ==
    ASSUME IInv, Forward, SameProof(job, job'), job.at \in Proved \ {"import"},
           job'.at \in Proved \ {"import"},
           job'.at \in {"harness", "complete"} => job.at \in {"harness", "complete"}
    PROVE  Proven'
<1>1. /\ job.error = "none" /\ job.status = "none" /\ history' = history /\ disk' = disk
      /\ build' = build /\ job'.error = "none" /\ job'.status = "none"
  BY DEF IInv, Ends, Forward, SameEnd, Working, Proved
<1> QED BY <1>1 DEF IInv, Proven, Forward, SameProof, Proved, Working, ProofIsOneInstant, At

\* How a check of the job ends.
LEMMA CheckEnds ==
    ASSUME Shape, NEW condition \in BOOLEAN, NEW j \in Jobs, NEW s \in Places,
           Check(condition, j, s)
    PROVE  \/ Failing /\ history' = history
           \/ /\ condition /\ FaultsGrow
              /\ UNCHANGED <<disk, build, gate, observed, history>>
              /\ job' \in Jobs /\ job'.at = s /\ job'.focused = j.focused
              /\ SameEnd(j, job') /\ SameProof(j, job') /\ SameRun(j, job')
<1>1. CASE condition /\ Job(j, s) /\ UNCHANGED faults
  BY <1>1, Moved, FaultsCount DEF Job
<1>2. CASE Job([job EXCEPT !.error = "other"], "except") /\ (Fault \/ UNCHANGED faults)
  BY <1>2, FailsIs, FaultsCount DEF Job
<1> QED BY <1>1, <1>2 DEF Check

\* The file an inspection has come to.
LEMMA ThisFileFacts ==
    ASSUME IInv, job.at = "proof", job.next <= Len(ProofFiles)
    PROVE  job.next \in 1 .. 6 /\ ThisFile \in Files
<1>1. job.next \in 1 .. 6
  <2>1. job.next \in 1 .. 7 /\ Len(ProofFiles) = 6
    BY FileFacts DEF IInv, Proven
  <2> QED BY <2>1
<1> QED BY <1>1, FileFacts DEF ThisFile

\* A schedule is longer than an inspection, and than the entries.
LEMMA NextFits ==
    ASSUME Shape, NEW n \in Nat, n >= 1, n <= Len(Entries) + 1 \/ n <= 7
    PROVE  n \in 1 .. Len(Schedule) + 1
<1>1. job.focused \in BOOLEAN
  BY DEF Shape, Jobs
<1> QED BY <1>1, ScheduleFacts

\* The first look finds a file in order.
LEMMA LookFirstKeeps ==
    ASSUME IInv, LookFirst
    PROVE  IInv'
<1> DEFINE k == [job EXCEPT !.seen[ThisFile] = disk.file[ThisFile], !.next = @ + 1]
           fine == Approved(ThisFile) /\ Convincing(ThisFile)
<1>1. /\ Shape /\ job \in Jobs /\ job.at = "proof" /\ job.look = 1 /\ Check(fine, k, "proof")
      /\ fine \in BOOLEAN /\ "proof" \in Places
  BY DEF IInv, LookFirst, At, Shape, Places, Approved, Convincing
<1>2. job.next \in 1 .. 6 /\ ThisFile \in Files /\ ThisFile = ProofFiles[job.next]
  BY <1>1, ThisFileFacts DEF LookFirst, ThisFile
<1>3. /\ k \in Jobs /\ k.next = job.next + 1 /\ k.focused = job.focused /\ SameEnd(job, k)
      /\ k.look = 1 /\ k.proof = job.proof /\ k.code = job.code
      /\ k.campaign = job.campaign
      /\ k.seen[ThisFile] = disk.file[ThisFile]
      /\ \A g \in Files \ {ThisFile} : k.seen[g] = job.seen[g]
  <2>1. PICK f, v, n : f = ThisFile /\ v = disk.file[ThisFile] /\ n = job.next + 1
    OBVIOUS
  <2>2. f \in Files /\ v \in Versions /\ n \in Nat
    BY <1>1, <1>2, <2>1, VersionFacts
  <2>3. PICK m : m = k
    OBVIOUS
  <2>4. m = Seen(job, f, v, n)
    BY <2>1, <2>3 DEF Seen
  <2>5. /\ m \in Jobs /\ m.next = n /\ m.focused = job.focused /\ SameEnd(job, m)
        /\ m.look = job.look /\ m.proof = job.proof /\ m.code = job.code
        /\ m.campaign = job.campaign /\ m.seen[f] = v
        /\ \A g \in Files \ {f} : m.seen[g] = job.seen[g]
    <3>1. job \in Jobs
      BY <1>1
    <3> QED BY ONLY <2>2, <2>4, <3>1, WithSeen
  <2>6. job.look = 1
    BY <1>1
  <2> QED BY ONLY <2>1, <2>3, <2>5, <2>6
<1> HIDE DEF k, fine
<1>4. CASE Failing /\ history' = history
  BY <1>1, <1>4, FailingKeeps DEF Working, Places
<1>5. CASE /\ fine /\ FaultsGrow
           /\ UNCHANGED <<disk, build, gate, observed, history>>
           /\ job' \in Jobs /\ job'.at = "proof" /\ job'.focused = k.focused
           /\ SameEnd(k, job') /\ SameProof(k, job') /\ SameRun(k, job')
  <2>1. /\ job'.at = "proof" /\ job'.look = 1 /\ job'.next = job.next + 1
        /\ job'.proof = job.proof /\ job'.code = job.code
        /\ SameEnd(job, job') /\ job'.campaign = job.campaign
        /\ job'.seen[ThisFile] = disk.file[ThisFile]
        /\ \A g \in Files \ {ThisFile} : job'.seen[g] = job.seen[g]
    BY <1>3, <1>5 DEF SameEnd, SameProof, SameRun
  <2>2. Forward
    <3>1. job'.next \in 1 .. Len(Schedule) + 1
      BY <1>1, <1>2, <2>1, NextFits
    <3> QED BY <1>1, <1>3, <1>5, <2>1, <3>1 DEF Forward, Shape, TypeOK, Working, Places
  <2>3. Looking'
    <3>1. ASSUME NEW i \in 1 .. 6, i < job'.next
          PROVE  /\ Sound(ProofFiles[i])'
                 /\ job'.seen[ProofFiles[i]] <= disk'.file[ProofFiles[i]]
      <4>1. ProofFiles[i] \in Files /\ disk' = disk /\ build' = build
        BY <1>5, FileFacts
      <4>2. CASE ProofFiles[i] = ThisFile
        BY <1>1, <1>2, <1>5, <2>1, <4>1, <4>2, VersionFacts DEF fine, Approved, Sound, Convincing
      <4>3. CASE ProofFiles[i] # ThisFile
        <5>1. i < job.next
          BY <1>2, <2>1, <3>1, <4>3
        <5>2. job'.seen[ProofFiles[i]] = job.seen[ProofFiles[i]]
          BY <2>1, <4>1, <4>3
        <5> QED BY <1>1, <4>1, <5>1, <5>2 DEF IInv, Proven, Looking, Sound, Convincing
      <4> QED BY <4>2, <4>3
    <3> QED BY <2>1, <3>1 DEF Looking
  <2>4. Proven'
    <3>1. job.status = "none" /\ job'.status = "none" /\ job'.next \in 1 .. 7
      BY <1>1, <1>2, <2>1 DEF IInv, Ends, SameEnd, Working, Places
    <3> QED BY <1>1, <1>5, <2>1, <2>3, <3>1
            DEF IInv, Proven, ProofIsOneInstant, At, Proved, Working, Places
  <2>5. Counted'
    BY <1>1, <1>3, <1>5, <2>1, SameSchedule
       DEF IInv, Counted, Fresh, Through, NoneRan, AllAccepted, SameEnd
  <2> QED BY <2>2, <2>4, <2>5, ForwardKeeps DEF IInv
<1> QED BY <1>1, <1>3, <1>4, <1>5, CheckEnds

\* The instant between the two looks.
LEMMA WithInstant ==
    ASSUME NEW h \in Histories, NEW v \in FileVersions
    PROVE  LET k == [h EXCEPT !.instant = v]
           IN  /\ k \in Histories /\ k.instant = v /\ k.stopped = h.stopped
               /\ k.masked = h.masked /\ SameWork(h, k)
BY DEF Histories, SameWork

\* A file version is not nothing.
LEMMA VersionsAreThere ==
    ASSUME NEW v \in FileVersions
    PROVE  v # <<>>
<1>1. DOMAIN v = Files /\ "logs" \in Files
  BY FileFacts DEF FileVersions
<1> QED BY <1>1

\* The first look is over: every file is in order, and was so at the latest now.
LEMMA TurnBackKeeps ==
    ASSUME IInv, TurnBack
    PROVE  IInv'
<1> DEFINE k == [job EXCEPT !.look = 2, !.next = 1]
<1>1. /\ Shape /\ job \in Jobs /\ history \in Histories /\ disk.file \in FileVersions
      /\ job.at = "proof" /\ job.look = 1 /\ job.next > Len(ProofFiles)
      /\ Goes(k, "proof") /\ history' = [history EXCEPT !.instant = disk.file]
      /\ UNCHANGED <<disk, build, gate, observed, faults>> /\ "proof" \in Places
  BY VersionFacts DEF IInv, TurnBack, At, Places
<1>2. /\ k \in Jobs /\ k.look = 2 /\ k.next = 1 /\ k.focused = job.focused
      /\ SameEnd(job, k) /\ k.seen = job.seen /\ k.proof = job.proof /\ k.code = job.code
      /\ k.campaign = job.campaign
  BY <1>1, WithLook
<1> HIDE DEF k
<1>3. /\ job' \in Jobs /\ job'.at = "proof" /\ job'.look = 2 /\ job'.next = 1
      /\ job'.focused = job.focused /\ SameEnd(job, job') /\ job'.seen = job.seen
      /\ job'.proof = job.proof /\ job'.code = job.code /\ job'.campaign = job.campaign
  BY <1>1, <1>2, Moved DEF SameEnd, SameProof, SameRun
<1>4. /\ history' \in Histories /\ history'.instant = disk.file
      /\ history'.stopped = history.stopped /\ history'.masked = history.masked
      /\ SameWork(history, history')
  BY <1>1, WithInstant
<1>5. Shape' /\ FaultsGrow
  <2>1. FaultsGrow
    BY <1>1, FaultsCount
  <2>2. job'.next \in 1 .. Len(Schedule) + 1
    BY <1>1, <1>3, NextFits
  <2> QED BY <1>1, <1>3, <1>4, <2>1, <2>2, ShapeKept DEF Shape, TypeOK
<1>6. Attempt' /\ Ends'
  BY <1>1, <1>3, <1>4 DEF IInv, Attempt, Ends, Working, Places, SameEnd
<1>7. Traced' /\ Loaded'
  BY <1>1, <1>3, <1>4, TracedKept, LoadedKept, VersionFacts DEF IInv
<1>8. Looking'
  <2>1. /\ job.next = 7 /\ Looking
    BY <1>1, FileFacts DEF IInv, Proven
  <2>2. ASSUME NEW f \in Files
        PROVE  Sound(f) /\ job.seen[f] <= disk.file[f]
    <3>1. PICK i \in 1 .. 6 : ProofFiles[i] = f
      BY FileFacts
    <3>2. i < job.next
      BY <2>1
    <3> QED BY <1>1, <2>1, <3>1, <3>2 DEF Looking
  <2>3. \A f \in Files : Sound(f)'
    BY <1>1, <1>3, <2>2 DEF Sound, Convincing
  <2>4. Below(disk.file, disk.file)
    BY <1>1, VersionFacts DEF Below
  <2>5. job.proof # <<>> =>
            Below(job.code, disk.file) /\ \A b \in history.binaries : b <= disk.file["binaries"]
    BY <1>1 DEF IInv, Proven
  <2> QED BY <1>1, <1>3, <1>4, <2>2, <2>3, <2>4, <2>5, VersionsAreThere
          DEF Looking, Below, SameWork
<1>9. Proven'
  <2>1. job.status = "none" /\ job'.status = "none" /\ job'.next \in 1 .. 7
    BY <1>1, <1>3 DEF IInv, Ends, SameEnd, Working, Places
  <2> QED BY <1>1, <1>3, <1>4, <1>8, <2>1
          DEF IInv, Proven, ProofIsOneInstant, At, Proved, Working, Places, SameWork
<1>10. Counted'
  BY <1>1, <1>3, <1>4, SameSchedule
     DEF IInv, Counted, Fresh, Through, NoneRan, AllAccepted, SameEnd, SameWork
<1> QED BY <1>5, <1>6, <1>7, <1>9, <1>10 DEF IInv

\* The second look finds a file as the first did, so it did not change in between.
LEMMA LookAgainKeeps ==
    ASSUME IInv, LookAgain
    PROVE  IInv'
<1> DEFINE k == [job EXCEPT !.next = @ + 1]
           fine == disk.file[ThisFile] = job.seen[ThisFile]
<1>1. /\ Shape /\ job \in Jobs /\ job.at = "proof" /\ job.look = 2 /\ Check(fine, k, "proof")
      /\ fine \in BOOLEAN /\ "proof" \in Places
  BY DEF IInv, LookAgain, At, Shape, Places
<1>2. job.next \in 1 .. 6 /\ ThisFile \in Files /\ ThisFile = SecondLook[job.next]
  BY <1>1, ThisFileFacts DEF LookAgain, ThisFile
<1>3. /\ k \in Jobs /\ k.next = job.next + 1 /\ k.focused = job.focused /\ SameEnd(job, k)
      /\ SameProof(job, k) /\ k.campaign = job.campaign
  <2>1. PICK n \in Nat : n = job.next + 1
    BY <1>2
  <2> QED BY <1>1, <2>1, WithNext
<1> HIDE DEF k, fine
<1>4. CASE Failing /\ history' = history
  BY <1>1, <1>4, FailingKeeps DEF Working, Places
<1>5. CASE /\ fine /\ FaultsGrow
           /\ UNCHANGED <<disk, build, gate, observed, history>>
           /\ job' \in Jobs /\ job'.at = "proof" /\ job'.focused = k.focused
           /\ SameEnd(k, job') /\ SameProof(k, job') /\ SameRun(k, job')
  <2>1. /\ job'.at = "proof" /\ job'.look = 2 /\ job'.next = job.next + 1
        /\ SameProof(job, job') /\ SameEnd(job, job') /\ job'.campaign = job.campaign
    BY <1>1, <1>3, <1>5 DEF SameEnd, SameProof, SameRun
  <2>2. Forward
    <3>1. job'.next \in 1 .. Len(Schedule) + 1
      BY <1>1, <1>2, <2>1, NextFits
    <3> QED BY <1>1, <1>3, <1>5, <2>1, <3>1 DEF Forward, Shape, TypeOK, Working, Places
  <2>3. Looking'
    <3>1. /\ Looking /\ Below(job.seen, history.instant) /\ Below(history.instant, disk.file)
          /\ history.instant \in FileVersions /\ job.seen \in FileVersions
      BY <1>1 DEF IInv, Proven, Looking, Shape, Histories, Jobs
    <3>2. history.instant[ThisFile] = job.seen[ThisFile]
      BY <1>1, <1>2, <1>5, <3>1, VersionFacts DEF fine, Below
    <3>3. ASSUME NEW i \in 1 .. 6, i < job'.next
          PROVE  history.instant[SecondLook[i]] = job.seen[SecondLook[i]]
      <4>1. i < job.next \/ i = job.next
        BY <1>2, <2>1, <3>3
      <4> QED BY <1>1, <1>2, <3>1, <3>2, <4>1 DEF Looking
    <3>4. \A f \in Files : Sound(f)' <=> Sound(f)
      BY <1>5, <2>1 DEF Sound, Convincing, SameProof
    <3> QED BY <1>1, <1>5, <2>1, <3>1, <3>3, <3>4 DEF Looking, SameProof
  <2>4. Proven'
    <3>1. job.status = "none" /\ job'.status = "none" /\ job'.next \in 1 .. 7
      BY <1>1, <1>2, <2>1 DEF IInv, Ends, SameEnd, Working, Places
    <3> QED BY <1>1, <1>5, <2>1, <2>3, <3>1
            DEF IInv, Proven, ProofIsOneInstant, At, Proved, Working, Places, SameProof
  <2>5. Counted'
    BY <1>1, <1>3, <1>5, <2>1, SameSchedule
       DEF IInv, Counted, Fresh, Through, NoneRan, AllAccepted, SameEnd, SameProof
  <2> QED BY <2>2, <2>4, <2>5, ForwardKeeps DEF IInv
<1> QED BY <1>1, <1>3, <1>4, <1>5, CheckEnds

\* What two looks agree on is what there was between them.
LEMMA SeenIsInstant ==
    ASSUME IInv, job.at = "proof", job.look = 2, job.next > Len(ProofFiles)
    PROVE  /\ job.seen = history.instant /\ job.seen \in FileVersions
           /\ Below(job.seen, disk.file) /\ job.seen["binaries"] = 0
           /\ CompleteBuild(build.evidence)
<1>1. /\ Looking /\ history.instant # <<>> /\ Below(history.instant, disk.file)
      /\ \A f \in Files : Sound(f)
      /\ \A i \in 1 .. 6 : i < job.next => history.instant[SecondLook[i]] = job.seen[SecondLook[i]]
      /\ job.next = 7 /\ Shape
  BY FileFacts DEF IInv, Proven, Looking
<1>2. history.instant \in FileVersions /\ job.seen \in FileVersions
  BY <1>1 DEF Shape, Histories, Jobs
<1>3. \A f \in Files : history.instant[f] = job.seen[f]
  <2>1. \A i \in 1 .. 6 : i < job.next
    BY <1>1
  <2> QED BY <1>1, <2>1, FileFacts
<1>4. job.seen = history.instant
  BY <1>2, <1>3 DEF FileVersions
<1>5. job.seen["binaries"] = 0 /\ CompleteBuild(build.evidence)
  <2>1. "binaries" \in Files /\ "logs" \in Files
    BY FileFacts
  <2> QED BY <1>1, <2>1 DEF Sound, Convincing
<1> QED BY <1>1, <1>2, <1>4, <1>5

\* The first proof is the instant it was made of.
LEMMA FirstProofKeeps ==
    ASSUME IInv, Prove, First
    PROVE  IInv'
<1> DEFINE i == [job EXCEPT !.look = 1, !.next = 1]
           k == [i EXCEPT !.proof = job.seen]
<1>1. /\ Shape /\ job \in Jobs /\ job.at = "proof" /\ job.look = 2
      /\ job.next > Len(ProofFiles) /\ job.proof = <<>>
      /\ Check(TRUE, k, "import") /\ "import" \in Places
  BY DEF IInv, Prove, At, Shape, Places, First
<1>2. /\ job.seen = history.instant /\ job.seen \in FileVersions
      /\ Below(job.seen, disk.file) /\ job.seen["binaries"] = 0
      /\ CompleteBuild(build.evidence)
  BY <1>1, SeenIsInstant
<1>3. /\ i \in Jobs /\ i.look = 1 /\ i.next = 1 /\ i.focused = job.focused
      /\ SameEnd(job, i) /\ i.code = job.code /\ i.campaign = job.campaign
  BY <1>1, WithLook
<1> HIDE DEF i
<1>4. /\ k \in Jobs /\ k.look = 1 /\ k.next = 1 /\ k.focused = job.focused
      /\ SameEnd(job, k) /\ k.proof = job.seen /\ k.code = job.code /\ k.campaign = job.campaign
  BY <1>2, <1>3, WithProof DEF SameEnd, SameRun
<1> HIDE DEF k
<1>5. CASE Failing /\ history' = history
  BY <1>1, <1>5, FailingKeeps DEF Working, Places
<1>6. CASE /\ FaultsGrow
           /\ UNCHANGED <<disk, build, gate, observed, history>>
           /\ job' \in Jobs /\ job'.at = "import" /\ job'.focused = k.focused
           /\ SameEnd(k, job') /\ SameProof(k, job') /\ SameRun(k, job')
  <2>1. /\ job'.look = 1 /\ job'.next = 1 /\ job'.focused = job.focused
        /\ SameEnd(job, job') /\ job'.proof = job.seen /\ job'.code = job.code
        /\ job'.campaign = job.campaign
    BY <1>4, <1>6 DEF SameEnd, SameProof, SameRun
  <2>2. Forward
    <3>1. job'.next \in 1 .. Len(Schedule) + 1
      BY <1>1, <2>1, NextFits
    <3> QED BY <1>1, <1>6, <2>1, <3>1 DEF Forward, Shape, TypeOK, Working, Places
  <2>3. job.status = "none" /\ job'.status = "none"
    BY <1>1, <2>1 DEF IInv, Ends, SameEnd, Working, Places
  <2>4. Proven'
    BY <1>1, <1>2, <1>6, <2>1, <2>3, VersionsAreThere
       DEF IInv, Proven, ProofIsOneInstant, At, Proved, Working, Places
  <2>5. Counted'
    <3>1. job'.next <= Len(Entries) + 1
      <4>1. job.focused \in BOOLEAN
        BY <1>1 DEF Jobs
      <4> QED BY <2>1, <4>1, ScheduleFacts
    <3> QED BY <1>1, <1>6, <2>1, <2>3, <3>1, SameSchedule
       DEF IInv, Counted, Fresh, Through, NoneRan, AllAccepted
  <2> QED BY <2>2, <2>4, <2>5, ForwardKeeps DEF IInv
<1> QED BY <1>1, <1>4, <1>5, <1>6, CheckEnds

\* The second proof equals the first, and all that was used in between lies between.
LEMMA SecondProofKeeps ==
    ASSUME IInv, Prove, ~First
    PROVE  IInv'
<1> DEFINE k == [job EXCEPT !.look = 1, !.next = 1]
           fine == job.seen = job.proof
<1>1. /\ Shape /\ job \in Jobs /\ job.at = "proof" /\ job.look = 2
      /\ job.next > Len(ProofFiles) /\ job.proof # <<>>
      /\ Check(fine, k, "harness") /\ "harness" \in Places /\ fine \in BOOLEAN
  BY DEF IInv, Prove, At, Shape, Places, First
<1>2. /\ job.seen = history.instant /\ job.seen \in FileVersions
      /\ Below(job.seen, disk.file) /\ job.seen["binaries"] = 0
      /\ CompleteBuild(build.evidence)
  BY <1>1, SeenIsInstant
<1>3. /\ k \in Jobs /\ k.look = 1 /\ k.next = 1 /\ k.focused = job.focused
      /\ SameEnd(job, k) /\ k.proof = job.proof /\ k.code = job.code
      /\ k.campaign = job.campaign
  BY <1>1, WithLook
<1> HIDE DEF k, fine
<1>4. CASE Failing /\ history' = history
  BY <1>1, <1>4, FailingKeeps DEF Working, Places
<1>5. CASE /\ fine /\ FaultsGrow
           /\ UNCHANGED <<disk, build, gate, observed, history>>
           /\ job' \in Jobs /\ job'.at = "harness" /\ job'.focused = k.focused
           /\ SameEnd(k, job') /\ SameProof(k, job') /\ SameRun(k, job')
  <2>1. /\ job'.look = 1 /\ job'.next = 1 /\ job'.focused = job.focused
        /\ SameEnd(job, job') /\ job'.proof = job.proof /\ job'.code = job.code
        /\ job'.campaign = job.campaign
    BY <1>3, <1>5 DEF SameEnd, SameProof, SameRun
  <2>2. Forward
    <3>1. job'.next \in 1 .. Len(Schedule) + 1
      BY <1>1, <2>1, NextFits
    <3> QED BY <1>1, <1>5, <2>1, <3>1 DEF Forward, Shape, TypeOK, Working, Places
  <2>3. job.status = "none" /\ job'.status = "none"
    BY <1>1, <2>1 DEF IInv, Ends, SameEnd, Working, Places
  <2>4. /\ job.code # <<>> /\ Below(job.proof, job.code) /\ Below(job.code, disk.file)
        /\ Below(job.code, history.instant)
        /\ \A b \in history.binaries : b <= history.instant["binaries"]
    BY <1>1 DEF IInv, Proven, Looking
  <2>5. job.code = job.proof
    <3>1. job.proof = job.seen /\ job.code \in FileVersions
      BY <1>1, <1>5, <2>4 DEF fine, Jobs
    <3>2. \A f \in Files : job.code[f] = job.seen[f]
      BY <1>1, <1>2, <2>4, <3>1, VersionFacts DEF Below
    <3> QED BY <1>2, <3>1, <3>2 DEF FileVersions
  <2>6. history.binaries \subseteq {0}
    <3>1. \A b \in history.binaries : b \in Nat
      BY <1>1 DEF Shape, Histories
    <3> QED BY <1>2, <2>4, <3>1
  <2>7. Proven'
    BY <1>1, <1>2, <1>5, <2>1, <2>3, <2>4, <2>5, <2>6
       DEF IInv, Proven, ProofIsOneInstant, At, Proved, Working, Places, fine
  <2>8. Counted'
    BY <1>1, <1>5, <2>1, <2>3, SameSchedule
       DEF IInv, Counted, Fresh, Through, NoneRan, AllAccepted
  <2> QED BY <2>2, <2>7, <2>8, ForwardKeeps DEF IInv
<1> QED BY <1>1, <1>3, <1>4, <1>5, CheckEnds

\* Replaced between the proof and the import, code would not be that of the proof.
LEMMA ImportKeeps ==
    ASSUME IInv, Import
    PROVE  IInv'
<1> DEFINE k == [job EXCEPT !.code = disk.file]
<1>1. /\ Shape /\ job \in Jobs /\ job.at = "import" /\ disk.file \in FileVersions
      /\ Check(TRUE, k, "link") /\ "link" \in Places
  BY VersionFacts DEF IInv, Import, At, Places
<1>2. /\ k \in Jobs /\ k.code = disk.file /\ k.focused = job.focused
      /\ SameEnd(job, k) /\ SameRun(job, k) /\ k.look = job.look /\ k.proof = job.proof
  BY <1>1, WithCode
<1> HIDE DEF k
<1>3. CASE Failing /\ history' = history
  BY <1>1, <1>3, FailingKeeps DEF Working, Places
<1>4. CASE /\ FaultsGrow
           /\ UNCHANGED <<disk, build, gate, observed, history>>
           /\ job' \in Jobs /\ job'.at = "link" /\ job'.focused = k.focused
           /\ SameEnd(k, job') /\ SameProof(k, job') /\ SameRun(k, job')
  <2>1. /\ job'.focused = job.focused /\ SameEnd(job, job') /\ SameRun(job, job')
        /\ job'.look = job.look /\ job'.proof = job.proof /\ job'.code = disk.file
    BY <1>2, <1>4 DEF SameEnd, SameProof, SameRun
  <2>2. Forward
    BY <1>1, <1>4, <2>1 DEF Forward, Shape, TypeOK, Working, Places, SameRun
  <2>3. job.status = "none" /\ job'.status = "none" /\ job'.error = "none" /\ job.error = "none"
    BY <1>1, <2>1 DEF IInv, Ends, SameEnd, Working, Places
  <2>4. Proven'
    <3>1. job.proof # <<>> /\ Below(job.proof, disk.file) /\ Below(disk.file, disk.file)
      BY <1>1, VersionFacts DEF IInv, Proven, Proved, Working, Places, Below
    <3> QED BY <1>1, <1>4, <2>1, <2>3, <3>1, VersionsAreThere
            DEF IInv, Proven, ProofIsOneInstant, At, Proved, Working, Places
  <2>5. Counted'
    BY <1>1, <1>4, <2>1, <2>3, SameSchedule
       DEF IInv, Counted, Fresh, Through, NoneRan, AllAccepted, SameRun
  <2> QED BY <2>2, <2>4, <2>5, ForwardKeeps DEF IInv
<1> QED BY <1>1, <1>2, <1>3, <1>4, CheckEnds

-----------------------------------------------------------------------------
(* From the first child to the second proof.                               *)

\* The process is somewhere else, perhaps at another index or in another campaign.
Stepped(j, s) ==
    /\ UNCHANGED <<disk, build, gate, observed, history>> /\ FaultsGrow
    /\ job' \in Jobs /\ job'.at = s /\ job'.focused = job.focused
    /\ SameEnd(job, job') /\ SameProof(job, job')
    /\ job'.next = j.next /\ job'.campaign = j.campaign /\ job'.good = job.good

\* A process that differs from the present one in its place in the job only.
Ahead(j) == /\ j \in Jobs /\ j.focused = job.focused /\ SameEnd(job, j) /\ SameProof(job, j)
            /\ j.good = job.good

\* A check ends the job or takes it on.
LEMMA CheckSteps ==
    ASSUME IInv, job.at \in Working \ {"exit0"}, NEW condition \in BOOLEAN, NEW j, Ahead(j),
           NEW s \in Places, Check(condition, j, s)
    PROVE  IInv' \/ (condition /\ Stepped(j, s))
<1>1. Shape /\ j \in Jobs
  BY DEF IInv, Ahead
<1>2. CASE Failing /\ history' = history
  BY <1>2, FailingKeeps
<1>3. CASE /\ condition /\ FaultsGrow
           /\ UNCHANGED <<disk, build, gate, observed, history>>
           /\ job' \in Jobs /\ job'.at = s /\ job'.focused = j.focused
           /\ SameEnd(j, job') /\ SameProof(j, job') /\ SameRun(j, job')
  BY <1>3 DEF Stepped, Ahead, SameEnd, SameProof, SameRun
<1> QED BY <1>1, <1>2, <1>3, CheckEnds

\* So does a child.
LEMMA ChildSteps ==
    ASSUME IInv, job.at \in Working \ {"exit0"}, NEW o, NEW j, Ahead(j),
           NEW s \in Places, Child(o, j, s),
           UNCHANGED <<disk, build, gate, observed, history>>
    PROVE  IInv' \/ (o = "ok" /\ Stepped(j, s))
<1>1. Shape /\ j \in Jobs
  BY DEF IInv, Ahead
<1>2. CASE o = "ok"
  <2>1. Goes(j, s) /\ UNCHANGED faults
    BY <1>2 DEF Child
  <2> QED BY <1>1, <1>2, <2>1, Moved, FaultsCount
          DEF Stepped, Ahead, SameEnd, SameProof, SameRun
<1>3. CASE o # "ok"
  <2>1. PICK t : t = (o = "timeout")
    OBVIOUS
  <2>2. /\ Goes([job EXCEPT !.error = "other", !.timed = t], "except") /\ Fault
        /\ t \in BOOLEAN
    BY <1>3, <2>1 DEF Child
  <2>3. Failing
    BY <1>1, <2>2, FailsIs, FaultsCount
  <2> QED BY <2>3, FailingKeeps
<1> QED BY <1>2, <1>3

\* And so does a refusal.
LEMMA RefusalKeeps ==
    ASSUME IInv, job.at \in Working \ {"exit0"}, Goes([job EXCEPT !.error = "other"], "except"),
           Fault \/ UNCHANGED faults, UNCHANGED <<disk, build, gate, observed, history>>
    PROVE  IInv'
<1>1. Failing
  BY FailsIs, FaultsCount DEF IInv
<1> QED BY <1>1, FailingKeeps

\* The same process, at another index, or in another campaign.
Onward(j, n) == [j EXCEPT !.next = n]
OnwardIn(j, n, c) == [j EXCEPT !.next = n, !.campaign = c]

\* All of these differ from the present process in their place only.
LEMMA AheadIs ==
    ASSUME Shape
    PROVE  /\ Ahead(job)
           /\ \A n \in Nat : /\ Ahead(Onward(job, n)) /\ Onward(job, n).next = n
                             /\ Onward(job, n).campaign = job.campaign
           /\ \A n, c \in Nat : /\ Ahead(OnwardIn(job, n, c))
                                /\ OnwardIn(job, n, c).next = n
                                /\ OnwardIn(job, n, c).campaign = c
<1>1. job \in Jobs
  BY DEF Shape
<1>2. Ahead(job)
  BY <1>1 DEF Ahead, SameEnd, SameProof
<1>3. ASSUME NEW n \in Nat
      PROVE  /\ Ahead(Onward(job, n)) /\ Onward(job, n).next = n
             /\ Onward(job, n).campaign = job.campaign
  BY <1>1, WithNext DEF Ahead, Onward
<1>4. ASSUME NEW n \in Nat, NEW c \in Nat
      PROVE  /\ Ahead(OnwardIn(job, n, c)) /\ OnwardIn(job, n, c).next = n
             /\ OnwardIn(job, n, c).campaign = c
  <2>1. PICK i : i = Onward(job, n)
    OBVIOUS
  <2>2. Ahead(i) /\ i.next = n
    BY <1>3, <2>1
  <2>3. OnwardIn(job, n, c) = [i EXCEPT !.campaign = c]
    BY <2>1 DEF OnwardIn, Onward
  <2>4. [i EXCEPT !.campaign = c] \in Jobs
    BY <2>2 DEF Jobs, Ahead
  <2> QED BY <2>2, <2>3, <2>4, JobDomain DEF Ahead, SameProof, SameEnd
<1> QED BY <1>2, <1>3, <1>4

\* Between the import and the second proof, a step disturbs only the counts.
LEMMA SteppedKeeps ==
    ASSUME IInv, NEW j, NEW s \in Proved \ {"import", "harness", "complete", "exit0"},
           Stepped(j, s), job.at \in Proved \ {"import"}, job.at # "exit0",
           job'.next \in 1 .. Len(Schedule) + 1,
           job'.campaign \in 0 .. Len(Campaigns[job.focused]) + 1,
           s = "launch" =>
              \A p \in ProfileNames :
                  history.last[p] # <<>> /\ Schedule[job'.next].implementation = p
                      => AsConfigured(history.last[p]),
           Counted'
    PROVE  IInv'
<1>1. Forward
  BY DEF Forward, Stepped, Proved
<1>2. Proven'
  BY <1>1, ProvenOn DEF Stepped
<1> QED BY <1>1, <1>2, ForwardKeeps DEF IInv

\* Before the campaigns, the entries are counted and no child of theirs runs.
LEMMA EntriesCounted ==
    ASSUME IInv, NEW j, NEW s \in {"link", "resolve", "example"}, Stepped(j, s),
           job.at \in {"link", "resolve", "example"}, job.campaign = j.campaign,
           j.next \in 1 .. Len(Entries) + 1, s # "link" => Named
    PROVE  IInv'
<1>1. Shape /\ job.focused \in BOOLEAN /\ job.status = "none" /\ job'.status = "none"
  BY DEF IInv, Shape, Jobs, Ends, Working, Places, Stepped, SameEnd
<1>2. job'.next \in 1 .. Len(Schedule) + 1
  BY <1>1, ScheduleFacts DEF Stepped
<1>3. Counted'
  BY <1>1, SameSchedule
     DEF IInv, Counted, Fresh, Through, NoneRan, Named, Stepped
<1> QED BY <1>1, <1>2, <1>3, SteppedKeeps
        DEF Stepped, Proved, Working, Places, Shape, TypeOK, IInv

\* Every artifact is preflighted before the first child.
LEMMA PreflightKeeps ==
    ASSUME IInv, Preflight
    PROVE  IInv'
<1> DEFINE fine == /\ Approved("binaries") /\ \A p \in Range(Profiles) : DependenciesIntact(p)
                   /\ \A k \in DOMAIN Entries : Artifact(Entries[k])
<1>1. /\ Shape /\ job.at = "link" /\ Check(fine, job, "resolve") /\ fine \in BOOLEAN
      /\ job.at \in Working \ {"exit0"} /\ "resolve" \in Places
  BY DEF IInv, Preflight, At, Working, Places
<1>2. fine => Named
  BY DEF Named, Artifact
<1> HIDE DEF fine
<1>3. Ahead(job)
  BY <1>1, AheadIs
<1>4. CASE fine /\ Stepped(job, "resolve")
  <2>1. job.next \in 1 .. Len(Entries) + 1
    BY <1>1, ScheduleFacts DEF IInv, Counted, Shape, TypeOK, Jobs
  <2> QED BY <1>1, <1>2, <1>4, <2>1, EntriesCounted
<1> QED BY <1>1, <1>3, <1>4, CheckSteps

\* One artifact resolved after the other.
LEMMA ResolveKeeps ==
    ASSUME IInv, Resolve \/ Resolved
    PROVE  IInv'
<1>1. /\ Shape /\ job.at = "resolve" /\ job.at \in Working \ {"exit0"}
      /\ {"resolve", "example"} \subseteq Places /\ Len(Entries) \in Nat
      /\ job.next \in Nat /\ job.next >= 1 /\ Named
  <2>1. Shape /\ job.at = "resolve" /\ Named
    BY DEF IInv, Resolve, Resolved, At, Counted
  <2>2. job.next \in 1 .. Len(Schedule) + 1 /\ job.focused \in BOOLEAN
    BY <2>1 DEF Shape, TypeOK, Jobs
  <2> QED BY <2>1, <2>2, ScheduleFacts DEF Working, Places
<1>2. CASE Resolve
  <2>1. /\ job.next <= Len(Entries) /\ UNCHANGED <<disk, build, gate, observed, history>>
        /\ \/ \E o \in Outcome : Child(o, [job EXCEPT !.next = @ + 1], "resolve")
           \/ Goes([job EXCEPT !.error = "other"], "except") /\ UNCHANGED faults
    BY <1>2 DEF Resolve
  <2>2. PICK n, j : n = job.next + 1 /\ j = Onward(job, n)
    BY <1>1
  <2>3. Ahead(j) /\ j.next = n /\ j.campaign = job.campaign
    BY <1>1, <2>2, AheadIs
  <2>4. CASE \E o \in Outcome : Child(o, [job EXCEPT !.next = @ + 1], "resolve")
    <3>1. PICK o \in Outcome : Child(o, j, "resolve")
      BY <2>2, <2>4 DEF Onward
    <3>2. IInv' \/ Stepped(j, "resolve")
      BY <1>1, <2>1, <2>3, <3>1, ChildSteps
    <3>3. j.next \in 1 .. Len(Entries) + 1
      BY <1>1, <2>1, <2>2, <2>3
    <3> QED BY <1>1, <2>3, <3>2, <3>3, EntriesCounted
  <2> QED BY <1>1, <2>1, <2>4, RefusalKeeps
<1>3. CASE Resolved
  <2>1. PICK j : j = Onward(job, 1) /\ Check(TRUE, j, "example")
    BY <1>3 DEF Resolved, Onward
  <2>2. Ahead(j) /\ j.next = 1 /\ j.campaign = job.campaign
    BY <1>1, <2>1, AheadIs
  <2>3. IInv' \/ Stepped(j, "example")
    BY <1>1, <2>1, <2>2, CheckSteps
  <2> QED BY <1>1, <2>2, <2>3, EntriesCounted
<1> QED BY <1>2, <1>3

\* The examples run, one after the other.
LEMMA RunExampleKeeps ==
    ASSUME IInv, RunExample
    PROVE  IInv'
<1>1. /\ Shape /\ job.at = "example" /\ job.at \in Working \ {"exit0"}
      /\ "example" \in Places /\ Len(Entries) \in Nat
      /\ job.next \in Nat /\ job.next >= 1 /\ job.next <= Len(Entries) /\ Named
  <2>1. Shape /\ job.at = "example" /\ Named /\ job.next <= Len(Entries)
    BY DEF IInv, RunExample, At, Counted
  <2>2. job.next \in 1 .. Len(Schedule) + 1 /\ job.focused \in BOOLEAN
    BY <2>1 DEF Shape, TypeOK, Jobs
  <2> QED BY <2>1, <2>2, ScheduleFacts DEF Working, Places
<1>2. PICK n, j : n = job.next + 1 /\ j = Onward(job, n)
  BY <1>1
<1>3. Ahead(j) /\ j.next = n /\ j.campaign = job.campaign
  BY <1>1, <1>2, AheadIs
<1>4. /\ UNCHANGED <<disk, build, gate, observed, history>>
      /\ \/ Goes(j, "example") /\ UNCHANGED faults
         \/ Goes([job EXCEPT !.error = "other"], "except") /\ UNCHANGED faults
         \/ \E o \in Outcome \cup {"bad"} : Child(o, j, "example")
  BY <1>2 DEF RunExample, Onward
<1>5. \/ IInv'
      \/ Stepped(j, "example")
  <2>1. CASE Goes(j, "example") /\ UNCHANGED faults
    <3>1. Child("ok", j, "example")
      BY <2>1 DEF Child
    <3> QED BY <1>1, <1>3, <1>4, <3>1, ChildSteps
  <2>2. CASE Goes([job EXCEPT !.error = "other"], "except") /\ UNCHANGED faults
    BY <1>1, <1>4, <2>2, RefusalKeeps
  <2>3. CASE \E o \in Outcome \cup {"bad"} : Child(o, j, "example")
    <3>1. PICK o : Child(o, j, "example")
      BY <2>3
    <3> QED BY <1>1, <1>3, <1>4, <3>1, ChildSteps
  <2> QED BY <1>4, <2>1, <2>2, <2>3
<1>6. j.next \in 1 .. Len(Entries) + 1
  BY <1>1, <1>2, <1>3
<1> QED BY <1>1, <1>3, <1>5, <1>6, EntriesCounted

\* The first campaign begins with nothing counted.
LEMMA ExamplesDoneKeeps ==
    ASSUME IInv, ExamplesDone
    PROVE  IInv'
<1>1. /\ Shape /\ job.at = "example" /\ job.at \in Working \ {"exit0"} /\ "item" \in Places
      /\ job.status = "none" /\ Named /\ job.campaign = 0 /\ NoneRan
      /\ history.rows = {} /\ DOMAIN observed = {}
  BY DEF IInv, ExamplesDone, At, Working, Places, Counted, Fresh, Ends
<1>2. PICK j : j = OnwardIn(job, 1, 1) /\ Check(TRUE, j, "item")
  BY DEF ExamplesDone, OnwardIn
<1>3. Ahead(j) /\ j.next = 1 /\ j.campaign = 1
  BY <1>1, <1>2, AheadIs
<1>4. IInv' \/ Stepped(j, "item")
  BY <1>1, <1>2, <1>3, CheckSteps
<1>5. CASE Stepped(j, "item")
  <2>1. /\ job.focused \in BOOLEAN /\ job'.focused = job.focused /\ job'.at = "item"
        /\ job'.next = 1 /\ job'.campaign = 1 /\ job'.status = "none"
        /\ UNCHANGED <<observed, history>>
    BY <1>1, <1>3, <1>5 DEF Stepped, SameEnd, Shape, Jobs
  <2>2. /\ Len(Campaigns[job.focused]) = Diagnosed + 4 /\ Diagnosed \in 0 .. 2
        /\ Len(Schedule) \in Nat /\ DOMAIN Schedule = 1 .. Len(Schedule)
        /\ Len(Schedule) >= 6
    BY <2>1, CampaignFacts, ScheduleFacts
  <2>3. Schedule' = Schedule /\ Diagnosed' = Diagnosed
    BY <2>1, SameSchedule
  <2>4. Counted'
    <3>1. NoneRan' /\ AllAccepted' /\ Named'
      BY <1>1, <2>1 DEF NoneRan, AllAccepted, Named
    <3>2. 1 > Diagnosed => 0 = (1 - Diagnosed - 1) * Len(Schedule) + 1 - 1
      BY <2>2
    <3>3. history.calls = 0
      BY <1>1 DEF NoneRan
    <3>4. \A k \in DOMAIN Schedule : ~(k < 1)
      BY <2>2
    <3>5. 1 \in 1 .. Diagnosed + 4 /\ ~(1 > Diagnosed + 1)
      BY <2>2
    <3> QED BY <1>1, <2>1, <2>3, <3>1, <3>2, <3>3, <3>4, <3>5 DEF Counted, Fresh, Through
  <2>5. /\ job'.next \in 1 .. Len(Schedule) + 1
        /\ job'.campaign \in 0 .. Len(Campaigns[job.focused]) + 1
    BY <2>1, <2>2
  <2> QED BY <1>1, <1>5, <2>4, <2>5, SteppedKeeps DEF Proved, Working, Places
<1> QED BY <1>4, <1>5

\* The dependencies are as configured, so they were for the profile's last child.
LEMMA CheckItemKeeps ==
    ASSUME IInv, CheckItem
    PROVE  IInv'
<1> DEFINE p == Item.implementation
           fine == DependenciesIntact(p) /\ Approved("binaries")
<1>1. /\ Shape /\ job.at = "item" /\ job.at \in Working \ {"exit0"} /\ "launch" \in Places
      /\ job.next <= Len(Schedule) /\ Check(fine, job, "launch") /\ fine \in BOOLEAN
      /\ job.focused \in BOOLEAN
  BY DEF IInv, CheckItem, At, Working, Places, Shape, Jobs, Approved, DependenciesIntact, Unchanged
<1>2. IInv' \/ (fine /\ Stepped(job, "launch"))
  <2> HIDE DEF fine
  <2> QED BY <1>1, AheadIs, CheckSteps
<1>3. CASE fine /\ Stepped(job, "launch")
  <2>1. /\ job'.next = job.next /\ job'.campaign = job.campaign /\ job'.at = "launch"
        /\ job'.focused = job.focused /\ job'.good = job.good /\ SameEnd(job, job')
        /\ UNCHANGED <<observed, history>>
    BY <1>3 DEF Stepped
  <2>2. \A n \in Configured[p] : disk.lib[n] = 0
    BY <1>3 DEF DependenciesIntact, Unchanged
  <2>3. p \in ProfileNames
    <3>1. job.next \in DOMAIN Schedule
      BY <1>1, ScheduleFacts DEF Shape, TypeOK
    <3> QED BY <1>1, <3>1, ScheduleFacts DEF Item
  <2>4. history.last[p] # <<>> => AsConfigured(history.last[p])
    <3>1. SUFFICES ASSUME NEW o, o = history.last[p], o # <<>>, NEW n \in DOMAIN o, n # Libc
                   PROVE  o[n] = 0
      BY DEF AsConfigured
    <3>2. o \in Loads(p)
      BY <3>1 DEF Loads
    <3>3. n \in Configured[p] /\ o[n] <= disk.lib[n]
      BY <2>3, <3>1, <3>2 DEF IInv, Loaded
    <3>4. o[n] \in Nat
      BY <1>1, <2>3, <3>1, <3>2, VersionFacts
    <3> QED BY <2>2, <3>3, <3>4
  <2>5. Counted'
    BY <1>1, <2>1, SameSchedule
       DEF IInv, Counted, Fresh, Through, NoneRan, Named, AllAccepted, SameEnd
  <2>6. \A q \in ProfileNames :
            history.last[q] # <<>> /\ Schedule[job'.next].implementation = q
                => AsConfigured(history.last[q])
    BY <2>1, <2>4 DEF Item
  <2>7. /\ job'.next \in 1 .. Len(Schedule) + 1
        /\ job'.campaign \in 0 .. Len(Campaigns[job.focused]) + 1
    BY <1>1, <2>1 DEF Shape, TypeOK
  <2> QED BY <1>1, <1>3, <2>5, <2>6, <2>7, SteppedKeeps DEF Proved, Working, Places
<1> QED BY <1>2, <1>3

\* A campaign ends with one invocation for every item, and the last one with them all.
LEMMA EndCampaignKeeps ==
    ASSUME IInv, EndCampaign
    PROVE  IInv'
<1> DEFINE s == IF job.campaign < Len(Campaigns[job.focused]) THEN "item" ELSE "set"
           fine == ~job.failed /\ job.good
<1>1. /\ Shape /\ job.at = "item" /\ job.at \in Working \ {"exit0"} /\ s \in Places
      /\ job.next > Len(Schedule) /\ fine \in BOOLEAN /\ job.focused \in BOOLEAN
      /\ job.status = "none"
  BY DEF IInv, EndCampaign, At, Working, Places, Shape, Jobs, Ends
<1>2. PICK c, l, d : c = job.campaign /\ l = Len(Schedule) /\ d = Diagnosed
  OBVIOUS
<1>3. /\ d \in 0 .. 2 /\ c \in 1 .. d + 4 /\ l \in Nat /\ l >= 6 /\ job.next = l + 1
      /\ Len(Campaigns[job.focused]) = d + 4 /\ DOMAIN Schedule = 1 .. l
  <2>1. /\ d \in 0 .. 2 /\ l \in Nat /\ Len(Campaigns[job.focused]) = d + 4
        /\ DOMAIN Schedule = 1 .. l /\ Len(Entries) >= 6 /\ l >= Len(Entries)
        /\ Len(Entries) \in Nat
    BY <1>1, <1>2, CampaignFacts, ScheduleFacts
  <2>2. job.campaign \in 1 .. Diagnosed + 4 /\ job.next \in 1 .. Len(Schedule) + 1
    BY <1>1 DEF IInv, Counted, Shape, TypeOK
  <2> QED BY <1>1, <1>2, <2>1, <2>2
<1>4. PICK j : j = OnwardIn(job, 1, c + 1) /\ Check(fine, j, s)
  BY <1>2 DEF EndCampaign, OnwardIn
<1>5. Ahead(j) /\ j.next = 1 /\ j.campaign = c + 1
  BY <1>1, <1>3, <1>4, AheadIs
<1> HIDE DEF fine
<1>6. IInv' \/ (fine /\ Stepped(j, s))
  <2> HIDE DEF s
  <2> QED BY <1>1, <1>4, <1>5, CheckSteps
<1>7. CASE fine /\ Stepped(j, s)
  <2>1. /\ job'.next = 1 /\ job'.campaign = c + 1 /\ job'.at = s /\ job'.status = "none"
        /\ job'.focused = job.focused /\ job'.good = job.good
        /\ UNCHANGED <<observed, history>>
    BY <1>1, <1>5, <1>7 DEF Stepped, SameEnd
  <2>2. Schedule' = Schedule /\ Diagnosed' = d /\ DOMAIN Schedule = 1 .. l
    BY <1>2, <1>3, <2>1, SameSchedule
  <2>3. AllAccepted /\ AllAccepted'
    BY <1>1, <1>7, <2>1 DEF IInv, Counted, AllAccepted, fine
  <2>4. c <= d => NoneRan
    BY <1>1, <1>2 DEF IInv, Counted
  <2>5. c > d => /\ history.calls = (c - d) * l
                 /\ \A k \in DOMAIN Schedule : history.last[Schedule[k].implementation] # <<>>
    <3>1. ASSUME c > d
          PROVE  history.calls = (c - d - 1) * l + job.next - 1
      BY <1>1, <1>2, <3>1 DEF IInv, Counted
    <3>2. ASSUME c > d
          PROVE  (c - d - 1) * l + l = (c - d) * l
      BY <1>3, <3>2
    <3>3. ASSUME c > d
          PROVE  history.calls = (c - d) * l
      <4>1. PICK m : m = (c - d - 1) * l
        OBVIOUS
      <4>2. m \in Int
        BY <1>3, <4>1
      <4>3. m + (l + 1) - 1 = m + l
        BY <1>3, <4>2
      <4> QED BY <1>3, <3>1, <3>2, <3>3, <4>1, <4>3
    <3>4. ASSUME c > d, NEW k \in DOMAIN Schedule
          PROVE  history.last[Schedule[k].implementation] # <<>>
      <4>1. k < job.next
        BY <1>3, <3>4
      <4> QED BY <1>1, <1>2, <3>4, <4>1 DEF IInv, Counted
    <3> QED BY <3>3, <3>4
  <2>6. CASE s = "item"
    <3>1. c < d + 4
      BY <1>2, <1>3, <2>6
    <3>2. NoneRan' <=> NoneRan
      BY <2>1 DEF NoneRan
    <3>3. Named'
      BY <1>1 DEF IInv, Counted, Named
    <3>4. c + 1 > d => history.calls = (c + 1 - d - 1) * l + 1 - 1
      <4>1. CASE c <= d /\ c + 1 > d
        <5>1. c = d
          BY <1>3, <4>1
        <5> QED BY <1>3, <2>4, <5>1 DEF NoneRan
      <4>2. CASE c > d
        <5>1. PICK m : m = (c - d) * l
          OBVIOUS
        <5>2. m \in Int /\ c + 1 - d - 1 = c - d
          BY <1>3, <5>1
        <5>3. m + 1 - 1 = m
          BY <5>2
        <5> QED BY <2>5, <4>2, <5>1, <5>2, <5>3
      <4> QED BY <1>3, <4>1, <4>2
    <3>5. \A k \in DOMAIN Schedule : k < 1 \/ c + 1 > d + 1
              => history.last[Schedule[k].implementation] # <<>>
      BY <1>3, <2>2, <2>5
    <3>6. c + 1 \in 1 .. d + 4 /\ (c + 1 <= d => NoneRan) /\ c + 1 # 1
      BY <1>3, <2>4, <3>1
    <3>7. Counted'
      <4>1. ASSUME (c + 1) > d
            PROVE  history'.calls = (job'.campaign - Diagnosed' - 1) * Len(Schedule') + job'.next - 1
        <5>1. /\ history'.calls = history.calls /\ job'.campaign = c + 1 /\ job'.next = 1
              /\ Diagnosed' = d /\ Len(Schedule') = l
          BY <1>2, <2>1, <2>2
        <5>2. PICK x, y : x = c + 1 - d - 1 /\ y = x * l
          OBVIOUS
        <5>3. history.calls = y + 1 - 1
          BY ONLY <3>4, <4>1, <5>2
        <5>4. job'.campaign - Diagnosed' - 1 = x
          BY <1>3, <5>1, <5>2
        <5>5. (job'.campaign - Diagnosed' - 1) * Len(Schedule') = y
          BY ONLY <5>1, <5>2, <5>4
        <5>6. y \in Int
          BY <1>3, <5>2
        <5> QED BY ONLY <5>1, <5>3, <5>5, <5>6
      <4>2. ASSUME (c + 1) > d
            PROVE  \A k \in DOMAIN Schedule' : k < job'.next \/ job'.campaign > Diagnosed' + 1 =>
                      history'.last[Schedule'[k].implementation] # <<>>
        BY <1>2, <2>1, <2>2, <3>5, <4>2
      <4>3. /\ job'.campaign \in 1 .. Diagnosed' + 4 /\ (job'.campaign <= Diagnosed' => NoneRan')
            /\ job'.campaign # 1
        BY <2>1, <2>2, <3>2, <3>6
      <4>4. job'.campaign > Diagnosed' => (c + 1) > d
        BY <2>1, <2>2
      <4>5. job'.at = "item" /\ job'.status = "none"
        BY <2>1, <2>6
      <4>6. job'.focused \/ DOMAIN observed' # {}
        <5>1. job.next # 1
          BY <1>3
        <5> QED BY <1>1, <2>1, <5>1 DEF IInv, Counted
      <4> HIDE DEF s
      <4> QED BY <2>3, <3>3, <4>1, <4>2, <4>3, <4>4, <4>5, <4>6 DEF Counted, Fresh, Through
    <3>8. /\ job'.next \in 1 .. Len(Schedule) + 1
          /\ job'.campaign \in 0 .. Len(Campaigns[job.focused]) + 1
      BY <1>2, <1>3, <2>1
    <3> QED BY <1>1, <1>7, <2>6, <3>7, <3>8, SteppedKeeps DEF Proved, Working, Places
  <2>7. CASE s = "set"
    <3>1. c = d + 4
      BY <1>2, <1>3, <2>7
    <3>2. history.calls = 4 * l
      BY <1>3, <2>5, <3>1
    <3>3. \A p \in ProfileNames : history.last[p] # <<>>
      <4>1. \A p \in ProfileNames : \E k \in DOMAIN Schedule : Schedule[k].implementation = p
        <5>1. \A k \in 1 .. 3 : k \in DOMAIN Schedule
          BY <1>3
        <5> QED BY <1>1, <5>1, ScheduleFacts
      <4>2. c > d
        BY <1>3, <3>1
      <4> QED BY <2>5, <4>1, <4>2
    <3>4. Counted'
      BY <1>2, <2>1, <2>2, <2>3, <2>7, <3>2, <3>3 DEF Counted, Fresh, Through
    <3>5. /\ job'.next \in 1 .. Len(Schedule) + 1
          /\ job'.campaign \in 0 .. Len(Campaigns[job.focused]) + 1
      BY <1>2, <1>3, <2>1
    <3> QED BY <1>1, <1>7, <2>7, <3>4, <3>5, SteppedKeeps DEF Proved, Working, Places
  <2> QED BY <2>6, <2>7
<1> QED BY <1>6, <1>7

\* The second inspection begins.
LEMMA CombineSetKeeps ==
    ASSUME IInv, CombineSet
    PROVE  IInv'
<1>1. /\ Shape /\ job.at = "set" /\ job.at \in Working \ {"exit0"} /\ "proof" \in Places
      /\ job.status = "none" /\ job.error = "none"
  BY DEF IInv, CombineSet, At, Working, Places, Ends
<1>2. PICK j : j = Onward(job, 1) /\ Check(TRUE, j, "proof")
  BY DEF CombineSet, Onward
<1>3. Ahead(j) /\ j.next = 1 /\ j.campaign = job.campaign
  BY <1>1, <1>2, AheadIs
<1>4. IInv' \/ Stepped(j, "proof")
  BY <1>1, <1>2, <1>3, CheckSteps
<1>5. CASE Stepped(j, "proof")
  <2>1. /\ job'.next = 1 /\ job'.campaign = job.campaign /\ job'.at = "proof"
        /\ job'.focused = job.focused /\ SameProof(job, job')
        /\ job'.status = "none" /\ job'.error = "none"
        /\ UNCHANGED <<disk, build, observed, history>>
    BY <1>1, <1>3, <1>5 DEF Stepped, SameEnd
  <2>2. Forward
    <3>1. job'.next \in 1 .. Len(Schedule) + 1
      BY <1>1, <2>1, NextFits
    <3> QED BY <1>1, <1>5, <2>1, <3>1 DEF Forward, Stepped, Shape, TypeOK, Working, Places
  <2>3. job.look = 1 /\ job.proof # <<>>
    BY <1>1 DEF IInv, Proven, Proved, Working, Places
  <2>4. Looking'
    BY <2>1, <2>3 DEF Looking, SameProof
  <2>5. Proven'
    BY <1>1, <2>1, <2>3, <2>4
       DEF IInv, Proven, ProofIsOneInstant, At, Proved, Working, Places, SameProof
  <2>6. Counted'
    BY <1>1, <2>1, <2>3, SameSchedule
       DEF IInv, Counted, Fresh, Through, AllAccepted, SameProof
  <2> QED BY <2>2, <2>5, <2>6, ForwardKeeps DEF IInv
<1> QED BY <1>4, <1>5

\* The last check.
LEMMA CheckHarnessKeeps ==
    ASSUME IInv, CheckHarness
    PROVE  IInv'
<1>1. /\ Shape /\ job.at = "harness" /\ job.at \in Working \ {"exit0"} /\ "complete" \in Places
      /\ job.status = "none" /\ Check(Approved("harness"), job, "complete")
      /\ Approved("harness") \in BOOLEAN
  BY DEF IInv, CheckHarness, At, Working, Places, Ends, Approved
<1>2. Ahead(job)
  BY <1>1, AheadIs
<1>3. IInv' \/ Stepped(job, "complete")
  BY <1>1, <1>2, CheckSteps
<1>4. CASE Stepped(job, "complete")
  <2>1. Forward
    BY <1>1, <1>4 DEF Forward, Stepped, Shape, TypeOK, Working, Places
  <2>2. Proven'
    BY <1>1, <1>4, <2>1, ProvenOn DEF Stepped, Proved, Working, Places
  <2>3. Counted'
    BY <1>1, <1>4, SameSchedule DEF IInv, Counted, Fresh, Through, AllAccepted, Stepped, SameEnd
  <2> QED BY <2>1, <2>2, <2>3, ForwardKeeps DEF IInv
<1> QED BY <1>3, <1>4

-----------------------------------------------------------------------------
(* The outcome.                                                            *)

\* The smoke is complete.
LEMMA CompleteKeeps ==
    ASSUME IInv, Complete
    PROVE  IInv'
<1> DEFINE k == Says(job, "SMOKE_COMPLETE")
<1>1. /\ Shape /\ job \in Jobs /\ history \in Histories /\ job.at = "complete"
      /\ job.status = "none" /\ Goes(k, "exit0") /\ "exit0" \in Places
      /\ UNCHANGED <<disk, build, gate, observed, history, faults>>
  BY DEF IInv, Complete, Job, At, Working, Places, Ends, Shape, Says
<1>2. /\ k \in Jobs /\ k.status = "SMOKE_COMPLETE" /\ k.focused = job.focused
      /\ k.error = job.error /\ k.timed = job.timed /\ k.exit = job.exit
      /\ SameProof(job, k) /\ SameRun(job, k)
  BY <1>1, WithStatus
<1> HIDE DEF k
<1>3. /\ job' \in Jobs /\ job'.at = "exit0" /\ job'.status = "SMOKE_COMPLETE"
      /\ job'.focused = job.focused /\ job'.error = job.error /\ job'.timed = job.timed
      /\ job'.exit = job.exit /\ SameProof(job, job') /\ SameRun(job, job')
  BY <1>1, <1>2, Moved DEF SameEnd, SameProof, SameRun
<1>4. Shape'
  <2>1. FaultsGrow
    BY <1>1, FaultsCount
  <2> QED BY <1>1, <1>3, <2>1, ShapeKept DEF Shape, TypeOK, SameRun
<1>5. Attempt' /\ Ends'
  BY <1>1, <1>3 DEF IInv, Attempt, Ends, Working, Places
<1>6. Traced' /\ Loaded'
  BY <1>1, <1>3, TracedKept, LoadedKept, VersionFacts DEF IInv, SameWork
<1>7. Proven'
  BY <1>1, <1>3 DEF IInv, Proven, Proved, Working, Places, SameProof, ProofIsOneInstant, At
<1>8. Counted'
  BY <1>1, <1>3, SameSchedule DEF IInv, Counted, Fresh, Through, AllAccepted
<1> QED BY <1>4, <1>5, <1>6, <1>7, <1>8 DEF IInv

\* A step of the end, of which only the outcome is left to say.
Ending ==
    /\ UNCHANGED <<disk, build, gate, observed>> /\ FaultsGrow
    /\ job' \in Jobs /\ job'.focused = job.focused /\ job'.at \in {"except", "finally", "left"}
    /\ SameProof(job, job') /\ SameRun(job, job')
    /\ history' \in Histories /\ SameWork(history, history')
    /\ history'.instant = history.instant
    /\ job'.status = "SMOKE_COMPLETE" => job.status = "SMOKE_COMPLETE"
    /\ job'.error = "none" => job.error = "none" /\ job.at # "proof"

\* A step of the end keeps what was proved and counted.
LEMMA EndingKeeps ==
    ASSUME IInv, Ending, Ends'
    PROVE  IInv'
<1>1. Shape
  BY DEF IInv
<1>2. Shape'
  BY <1>1, ShapeKept DEF Ending, SameRun, Shape, TypeOK
<1>3. Attempt'
  BY DEF IInv, Attempt, Ending
<1>4. Traced' /\ Loaded'
  BY <1>1, TracedKept, LoadedKept, VersionFacts DEF IInv, Ending
<1>5. Proven'
  BY DEF IInv, Proven, Ending, SameProof, SameWork, ProofIsOneInstant, At, Proved, Working, Places
<1>6. Counted'
  BY SameSchedule DEF IInv, Counted, Fresh, Through, AllAccepted, Ending, SameWork
<1> QED BY <1>2, <1>3, <1>4, <1>5, <1>6 DEF IInv

\* The exit status, the except clause and the summary.
LEMMA OutcomeKeeps ==
    ASSUME IInv, ExitZero0 \/ Except \/ SaveSummary \/ SaveSummaryFails
    PROVE  IInv'
<1>1. /\ Shape /\ job \in Jobs /\ history \in Histories /\ Ends
      /\ UNCHANGED <<disk, build, gate, observed, history>> /\ FaultsGrow
      /\ {"exit0", "finally", "left"} \subseteq Places
  <2>1. Fault \/ UNCHANGED faults
    BY DEF ExitZero0, Except, SaveSummary, SaveSummaryFails
  <2> QED BY <2>1, FaultsCount
          DEF IInv, Shape, ExitZero0, Except, SaveSummary, SaveSummaryFails, Job, Places
<1>2. SameWork(history, history') /\ history' \in Histories
  BY <1>1 DEF SameWork
<1>3. CASE ExitZero0
  <2>1. /\ job.at = "exit0" /\ Goes([job EXCEPT !.exit = "0"], "finally")
        /\ job.status = "SMOKE_COMPLETE"
    BY <1>1, <1>3 DEF ExitZero0, Job, At, Ends, Working, Places
  <2>2. /\ job' \in Jobs /\ job'.at = "finally" /\ job'.exit = "0" /\ job'.focused = job.focused
        /\ job'.error = job.error /\ job'.timed = job.timed /\ job'.status = job.status
        /\ SameProof(job, job') /\ SameRun(job, job')
    <3>1. PICK k : k = Exits(job, "0")
      OBVIOUS
    <3>2. /\ k \in Jobs /\ k.exit = "0" /\ k.focused = job.focused
          /\ k.error = job.error /\ k.timed = job.timed /\ k.status = job.status
          /\ SameProof(job, k) /\ SameRun(job, k)
      BY <1>1, <3>1, WithExit
    <3>3. Goes(k, "finally")
      BY <1>1, <2>1, <3>1 DEF Exits
    <3> QED BY <1>1, <3>2, <3>3, Moved DEF SameEnd, SameProof, SameRun
  <2>3. Ends'
    BY <1>1, <2>1, <2>2 DEF Ends, Working
  <2> QED BY <1>1, <1>2, <2>1, <2>2, <2>3, EndingKeeps DEF Ending
<1>4. CASE Except
  <2>1. PICK v \in {"UNKNOWN", "FAILED"} :
            /\ v = IF job.error = "stop" \/ job.timed THEN "UNKNOWN" ELSE "FAILED"
            /\ job.at = "except" /\ Goes([job EXCEPT !.status = v], "finally")
    BY <1>4 DEF Except, Job, At
  <2>2. /\ job' \in Jobs /\ job'.at = "finally" /\ job'.status = v /\ job'.focused = job.focused
        /\ job'.error = job.error /\ job'.timed = job.timed /\ job'.exit = job.exit
        /\ SameProof(job, job') /\ SameRun(job, job')
    <3>1. PICK k : k = Says(job, v)
      OBVIOUS
    <3>2. /\ k \in Jobs /\ k.status = v /\ k.focused = job.focused
          /\ k.error = job.error /\ k.timed = job.timed /\ k.exit = job.exit
          /\ SameProof(job, k) /\ SameRun(job, k)
      BY <1>1, <3>1, WithStatus
    <3>3. Goes(k, "finally")
      BY <1>1, <2>1, <3>1 DEF Says
    <3> QED BY <1>1, <3>2, <3>3, Moved DEF SameEnd, SameProof, SameRun
  <2>3. Ends'
    BY <1>1, <2>1, <2>2 DEF Ends, Working
  <2> QED BY <1>1, <1>2, <2>1, <2>2, <2>3, EndingKeeps DEF Ending, Ends
<1>5. CASE SaveSummary
  <2>1. PICK x \in {"0", "1"} :
            /\ x = "0" => job.exit = "0"
            /\ job.at = "finally" /\ Goes([job EXCEPT !.exit = x], "left")
    <3>1. job.exit \in {"none", "0", "1"}
      BY <1>1 DEF Jobs
    <3> QED BY <1>5, <3>1 DEF SaveSummary, Job, At
  <2>2. /\ job' \in Jobs /\ job'.at = "left" /\ job'.exit = x /\ job'.focused = job.focused
        /\ job'.error = job.error /\ job'.timed = job.timed /\ job'.status = job.status
        /\ SameProof(job, job') /\ SameRun(job, job')
    <3>1. PICK k : k = Exits(job, x)
      OBVIOUS
    <3>2. /\ k \in Jobs /\ k.exit = x /\ k.focused = job.focused
          /\ k.error = job.error /\ k.timed = job.timed /\ k.status = job.status
          /\ SameProof(job, k) /\ SameRun(job, k)
      BY <1>1, <3>1, WithExit
    <3>3. Goes(k, "left")
      BY <1>1, <2>1, <3>1 DEF Exits
    <3> QED BY <1>1, <3>2, <3>3, Moved DEF SameEnd, SameProof, SameRun
  <2>3. Ends'
    BY <1>1, <2>1, <2>2 DEF Ends, Working
  <2> QED BY <1>1, <1>2, <2>1, <2>2, <2>3, EndingKeeps DEF Ending
<1>6. CASE SaveSummaryFails
  <2>1. job.at = "finally" /\ Goes([job EXCEPT !.status = "none", !.exit = "1"], "left")
    BY <1>6 DEF SaveSummaryFails, Job, At
  <2>2. /\ job' \in Jobs /\ job'.at = "left" /\ job'.exit = "1" /\ job'.focused = job.focused
        /\ job'.error = job.error /\ job'.timed = job.timed /\ job'.status = "none"
        /\ SameProof(job, job') /\ SameRun(job, job')
    <3>1. PICK k : k = Leaves(job, "none", "1")
      OBVIOUS
    <3>2. /\ k \in Jobs /\ k.exit = "1" /\ k.focused = job.focused
          /\ k.error = job.error /\ k.timed = job.timed /\ k.status = "none"
          /\ SameProof(job, k) /\ SameRun(job, k)
      BY <1>1, <3>1, WithOutcome
    <3>3. Goes(k, "left")
      BY <1>1, <2>1, <3>1 DEF Leaves
    <3> QED BY <1>1, <3>2, <3>3, Moved DEF SameEnd, SameProof, SameRun
  <2>3. Ends'
    BY <1>1, <2>1, <2>2 DEF Ends, Working
  <2> QED BY <1>1, <1>2, <2>1, <2>2, <2>3, EndingKeeps DEF Ending
<1> QED BY <1>3, <1>4, <1>5, <1>6

\* A signal has arrived, or arrived in the except clause.
LEMMA WithSignal ==
    ASSUME NEW h \in Histories
    PROVE  /\ [h EXCEPT !.stopped = TRUE] \in Histories
           /\ [h EXCEPT !.stopped = TRUE].stopped = TRUE
           /\ [h EXCEPT !.stopped = TRUE].masked = h.masked
           /\ [h EXCEPT !.stopped = TRUE].instant = h.instant
           /\ SameWork(h, [h EXCEPT !.stopped = TRUE])
           /\ [h EXCEPT !.masked = TRUE] \in Histories
           /\ [h EXCEPT !.masked = TRUE].masked = TRUE
           /\ [h EXCEPT !.masked = TRUE].stopped = h.stopped
           /\ [h EXCEPT !.masked = TRUE].instant = h.instant
           /\ SameWork(h, [h EXCEPT !.masked = TRUE])
BY DEF Histories, SameWork

\* Wherever a signal arrives.
LEMMA StopKeeps ==
    ASSUME IInv, Stop
    PROVE  IInv'
<1>1. /\ Shape /\ job \in Jobs /\ history \in Histories /\ Ends
      /\ UNCHANGED <<disk, build, gate, observed>> /\ FaultsGrow
      /\ {"except", "finally", "left"} \subseteq Places
      /\ job.status \in {"none", "SMOKE_COMPLETE", "FAILED", "UNKNOWN"}
      /\ job.at \in Places \ {"start", "left"}
  <2>1. Fault
    BY DEF Stop
  <2> QED BY <2>1, FaultsCount DEF IInv, Shape, Stop, Places, Jobs
<1>2. CASE /\ ~At("except") /\ (At("finally") => job.status = "SMOKE_COMPLETE")
           /\ Goes([job EXCEPT !.error = "stop"], "except")
           /\ history' = [history EXCEPT !.stopped = TRUE]
  <2>1. /\ job' \in Jobs /\ job'.at = "except" /\ job'.error = "stop"
        /\ job'.focused = job.focused /\ job'.timed = job.timed /\ job'.status = job.status
        /\ job'.exit = job.exit /\ SameProof(job, job') /\ SameRun(job, job')
    <3>1. PICK k : k = [job EXCEPT !.error = "stop"]
      OBVIOUS
    <3>2. /\ k \in Jobs /\ k.error = "stop"
          /\ k.focused = job.focused /\ k.timed = job.timed /\ k.status = job.status
          /\ k.exit = job.exit /\ SameProof(job, k) /\ SameRun(job, k)
      BY <1>1, <3>1, WithError
    <3>3. Goes(k, "except")
      BY <1>1, <1>2, <3>1
    <3> QED BY <1>1, <3>2, <3>3, Moved DEF SameEnd, SameProof, SameRun
  <2>2. /\ history' \in Histories /\ history'.stopped = TRUE
        /\ history'.instant = history.instant /\ SameWork(history, history')
    BY <1>1, <1>2, WithSignal
  <2>3. job.status \in {"none", "SMOKE_COMPLETE"} /\ (job.status = "SMOKE_COMPLETE" => ~job.timed)
    BY <1>1, <1>2 DEF Ends, Working, At
  <2>4. Ends'
    BY <2>1, <2>2, <2>3 DEF Ends, Working
  <2> QED BY <1>1, <2>1, <2>2, <2>4, EndingKeeps DEF Ending
<1>3. CASE /\ At("except")
           /\ Goes([job EXCEPT !.status = IF @ = "none" THEN "FAILED" ELSE @, !.exit = "1"],
                   "finally")
           /\ history' = [history EXCEPT !.masked = TRUE]
  <2>1. PICK v \in {"FAILED", "SMOKE_COMPLETE"} :
            /\ v = "SMOKE_COMPLETE" => job.status = "SMOKE_COMPLETE"
            /\ Goes([job EXCEPT !.status = v, !.exit = "1"], "finally")
    <3>1. job.status \in {"none", "SMOKE_COMPLETE"}
      BY <1>1, <1>3 DEF Ends, At
    <3> QED BY <1>3, <3>1
  <2>2. /\ job' \in Jobs /\ job'.at = "finally" /\ job'.exit = "1" /\ job'.focused = job.focused
        /\ job'.error = job.error /\ job'.timed = job.timed /\ job'.status = v
        /\ SameProof(job, job') /\ SameRun(job, job')
    <3>1. PICK k : k = Leaves(job, v, "1")
      OBVIOUS
    <3>2. /\ k \in Jobs /\ k.exit = "1" /\ k.focused = job.focused
          /\ k.error = job.error /\ k.timed = job.timed /\ k.status = v
          /\ SameProof(job, k) /\ SameRun(job, k)
      BY <1>1, <3>1, WithOutcome
    <3>3. Goes(k, "finally")
      BY <1>1, <2>1, <3>1 DEF Leaves
    <3> QED BY <1>1, <3>2, <3>3, Moved DEF SameEnd, SameProof, SameRun
  <2>3. /\ history' \in Histories /\ history'.masked = TRUE
        /\ history'.instant = history.instant /\ SameWork(history, history')
    BY <1>1, <1>3, WithSignal
  <2>4. Ends'
    BY <1>1, <2>1, <2>2, <2>3 DEF Ends, Working
  <2>5. job.error # "none"
    BY <1>1, <1>3 DEF Ends, At
  <2> QED BY <1>1, <2>1, <2>2, <2>3, <2>4, <2>5, EndingKeeps DEF Ending
<1>4. CASE /\ At("finally")
           /\ \E saved \in {job.status, "none"} :
                 Goes([job EXCEPT !.status = saved, !.exit = "1"], "left")
           /\ UNCHANGED history
  <2>1. PICK v \in {job.status, "none"} :
            Goes([job EXCEPT !.status = v, !.exit = "1"], "left")
    BY <1>4
  <2>2. /\ job' \in Jobs /\ job'.at = "left" /\ job'.exit = "1" /\ job'.focused = job.focused
        /\ job'.error = job.error /\ job'.timed = job.timed /\ job'.status = v
        /\ SameProof(job, job') /\ SameRun(job, job')
    <3>1. PICK k : k = Leaves(job, v, "1")
      OBVIOUS
    <3>2. /\ k \in Jobs /\ k.exit = "1" /\ k.focused = job.focused
          /\ k.error = job.error /\ k.timed = job.timed /\ k.status = v
          /\ SameProof(job, k) /\ SameRun(job, k)
      BY <1>1, <3>1, WithOutcome
    <3>3. Goes(k, "left")
      BY <1>1, <2>1, <3>1 DEF Leaves
    <3> QED BY <1>1, <3>2, <3>3, Moved DEF SameEnd, SameProof, SameRun
  <2>3. Ends'
    BY <1>1, <1>4, <2>2 DEF Ends, Working, At
  <2> QED BY <1>1, <1>4, <2>2, <2>3, EndingKeeps DEF Ending, SameWork, At
<1> QED BY <1>2, <1>3, <1>4 DEF Stop

-----------------------------------------------------------------------------
(* A child of a campaign.                                                  *)

\* What a child of profile p that loaded o and wrote a row with binary b leaves.
Remembered(h, p, o, row, b) ==
    [h EXCEPT !.last[p] = o, !.rows = @ \cup {row},
              !.before[p] = @ \cup ({h.last[p]} \ {<<>>}),
              !.calls = @ + 1, !.binaries = @ \cup {b}]

\* Nothing else changes in what is remembered.
LEMMA WithWork ==
    ASSUME NEW h \in Histories, NEW p \in ProfileNames, NEW o \in Objects, NEW row \in Rows,
           NEW b \in Nat, NEW k, k = Remembered(h, p, o, row, b)
    PROVE  /\ k \in Histories /\ k.instant = h.instant /\ k.stopped = h.stopped
           /\ k.masked = h.masked /\ k.rows = h.rows \cup {row} /\ k.calls = h.calls + 1
           /\ k.binaries = h.binaries \cup {b}
           /\ k.last[p] = o /\ k.before[p] = h.before[p] \cup ({h.last[p]} \ {<<>>})
           /\ \A q \in ProfileNames \ {p} : k.last[q] = h.last[q] /\ k.before[q] = h.before[q]
<1>1. PICK last, before : /\ last = [h.last EXCEPT ![p] = o]
                          /\ before = [h.before EXCEPT ![p] = @ \cup ({h.last[p]} \ {<<>>})]
  OBVIOUS
<1>2. PICK rows, calls, binaries :
          rows = h.rows \cup {row} /\ calls = h.calls + 1 /\ binaries = h.binaries \cup {b}
  OBVIOUS
<1>3. /\ h.last \in [ProfileNames -> Objects \cup {<<>>}]
      /\ h.before \in [ProfileNames -> SUBSET Objects] /\ h.rows \in SUBSET Rows
      /\ h.calls \in Nat /\ h.binaries \in SUBSET Nat
      /\ DOMAIN h = {"instant", "stopped", "masked", "last", "before", "rows", "calls", "binaries"}
      /\ h.instant \in FileVersions \cup {<<>>} /\ h.stopped \in BOOLEAN /\ h.masked \in BOOLEAN
  BY DEF Histories
<1>4. h.last[p] \in Objects \cup {<<>>} /\ h.before[p] \subseteq Objects
  BY <1>3
<1>5. /\ last \in [ProfileNames -> Objects \cup {<<>>}] /\ last[p] = o
      /\ \A q \in ProfileNames \ {p} : last[q] = h.last[q]
  BY <1>1, <1>3
<1>6. /\ before \in [ProfileNames -> SUBSET Objects]
      /\ before[p] = h.before[p] \cup ({h.last[p]} \ {<<>>})
      /\ \A q \in ProfileNames \ {p} : before[q] = h.before[q]
  BY <1>1, <1>3, <1>4
<1>7. rows \in SUBSET Rows /\ calls \in Nat /\ binaries \in SUBSET Nat
  BY <1>2, <1>3
<1>8. k = [instant |-> h.instant, stopped |-> h.stopped, masked |-> h.masked, last |-> last,
           before |-> before, rows |-> rows, calls |-> calls, binaries |-> binaries]
  <2>1. k = [h EXCEPT !.last = last, !.rows = rows, !.before = before, !.calls = calls,
                      !.binaries = binaries]
    BY <1>1, <1>2 DEF Remembered
  <2>2. h = [instant |-> h.instant, stopped |-> h.stopped, masked |-> h.masked, last |-> h.last,
             before |-> h.before, rows |-> h.rows, calls |-> h.calls, binaries |-> h.binaries]
    BY DEF Histories
  <2> QED BY <1>3, <2>1, <2>2
<1>9. k \in Histories
  BY <1>3, <1>5, <1>6, <1>7, <1>8 DEF Histories
<1> QED BY <1>2, <1>5, <1>6, <1>8, <1>9

\* What an artifact of the schedule loads is configured for its profile.
LEMMA LoadedByFacts ==
    ASSUME IInv, job.at = "launch"
    PROVE  LET p == Item.implementation
               o == LoadedBy(Item)
           IN  /\ p \in ProfileNames /\ o \in Objects /\ o # <<>>
               /\ Libc \in DOMAIN o /\ DOMAIN o \subseteq Configured[p] \cup {Libc}
               /\ \A n \in DOMAIN o : o[n] = disk.lib[n]
               /\ Bound(Item, Configured[p], o) => AsConfigured(o)
<1>1. Shape /\ job.focused \in BOOLEAN /\ Named /\ job.next \in DOMAIN Schedule
  <2>1. Shape /\ job.focused \in BOOLEAN /\ Named /\ job.next <= Len(Schedule)
        /\ job.next \in 1 .. Len(Schedule) + 1
    BY DEF IInv, Counted, Shape, Jobs, TypeOK
  <2> QED BY <2>1, ScheduleFacts
<1>2. PICK a, p : a = Item /\ p = Item.implementation
  OBVIOUS
<1>3. p \in ProfileNames /\ \E e \in DOMAIN Entries :
          Entries[e].library = a.library /\ Entries[e].implementation = p
  BY <1>1, <1>2, ScheduleFacts DEF Item
<1>4. Required(a) \subseteq Configured[p]
  <2>1. PICK e \in DOMAIN Entries :
            Entries[e].library = a.library /\ Entries[e].implementation = a.implementation
    BY <1>2, <1>3
  <2>2. Required(a) = Required(Entries[e])
    BY <2>1 DEF Required
  <2> QED BY <1>1, <1>2, <2>1, <2>2 DEF Named
<1>5. PICK names : names = Elf(Selected(a, Configured[p]))
  OBVIOUS
<1>6. names \subseteq Configured[p]
  BY <1>4, <1>5 DEF Elf, Selected, ProviderNames
<1>7. Configured[p] \subseteq LibraryFiles /\ Libc \in LibraryFiles
  BY <1>3, LibcIsFile, ProfileFacts DEF LibraryFiles
<1>8. PICK o : o = [n \in names \cup {Libc} |-> disk.lib[n]]
  OBVIOUS
<1>9. LoadedBy(Item) = o
  BY <1>2, <1>5, <1>8 DEF LoadedBy
<1>10. DOMAIN o = names \cup {Libc} /\ \A n \in DOMAIN o : o[n] = disk.lib[n]
  BY <1>8
<1>11. o \in Objects
  <2>1. names \cup {Libc} \in SUBSET LibraryFiles
    BY <1>6, <1>7
  <2>2. \A n \in names \cup {Libc} : disk.lib[n] \in Versions
    BY <1>1, <2>1, VersionFacts
  <2>3. o \in [names \cup {Libc} -> Versions]
    BY <1>8, <2>2
  <2> QED BY <2>1, <2>3 DEF Objects
<1>12. Bound(a, Configured[p], o) => AsConfigured(o)
  BY <1>5, <1>10 DEF Bound, AsConfigured
<1>13. o # <<>>
  BY <1>10
<1> QED BY <1>2, <1>3, <1>6, <1>9, <1>10, <1>11, <1>12, <1>13

\* The process after an accepted row: at the next item, or at its end.
Rowed(row) ==
    /\ job' \in Jobs /\ job'.focused = job.focused /\ SameProof(job, job')
    /\ job'.campaign = job.campaign /\ job'.timed = job.timed
    /\ job'.status = job.status /\ job'.exit = job.exit
    /\ \/ /\ job'.at = "item" /\ job'.error = job.error /\ job'.next = job.next + 1
          /\ job'.good = (job.good /\ SmokeAccepts(row))
       \/ job'.at = "except" /\ job'.error = "other" /\ job'.next = job.next

\* Either way the process goes after a row.
LEMMA RowedIs ==
    ASSUME Shape, NEW row, NEW f \in BOOLEAN,
           \/ Goes([job EXCEPT !.error = "other"], "except")
           \/ Goes(After(job, job.next + 1, f, job.good /\ SmokeAccepts(row)), "item")
    PROVE  Rowed(row)
<1>1. job \in Jobs /\ {"except", "item"} \subseteq Places /\ job.next \in Nat
  BY DEF Shape, Places, Jobs
<1>2. CASE Goes([job EXCEPT !.error = "other"], "except")
  <2>1. PICK k : k = [job EXCEPT !.error = "other"]
    OBVIOUS
  <2>2. /\ k \in Jobs /\ k.error = "other" /\ k.focused = job.focused /\ k.timed = job.timed
        /\ k.status = job.status /\ k.exit = job.exit /\ SameProof(job, k) /\ SameRun(job, k)
    BY <1>1, <2>1, WithError
  <2>3. Goes(k, "except")
    BY <1>2, <2>1
  <2> QED BY <1>1, <2>2, <2>3, Moved DEF Rowed, SameEnd, SameProof, SameRun
<1>3. CASE Goes(After(job, job.next + 1, f, job.good /\ SmokeAccepts(row)), "item")
  <2>1. PICK n, g : n = job.next + 1 /\ g = (job.good /\ SmokeAccepts(row))
    OBVIOUS
  <2>2. PICK k : k = After(job, n, f, g)
    OBVIOUS
  <2>5. n \in Nat /\ g \in BOOLEAN
    BY <1>1, <2>1
  <2>3. /\ k \in Jobs /\ k.next = n /\ k.good = g /\ k.focused = job.focused
        /\ k.campaign = job.campaign /\ SameEnd(job, k) /\ SameProof(job, k)
    BY <1>1, <2>2, <2>5, WithRow
  <2>4. Goes(k, "item")
    BY <1>3, <2>1, <2>2
  <2> QED BY <1>1, <2>1, <2>3, <2>4, Moved DEF Rowed, SameEnd, SameProof, SameRun
<1> QED BY <1>2, <1>3

\* What an accepted row leaves besides: the objects, for the first campaigns to compare
\* with, or the work of the four.
Noted(row) ==
    \/ Current.diagnostic /\ observed' = WithKey(LoadedBy(Item)) /\ history' = history
    \/ /\ ~Current.diagnostic /\ observed' = observed
       /\ history' = Remembered(history, Item.implementation, LoadedBy(Item), row,
                                disk.file["binaries"])

\* A row is accepted.
Accepted(row) ==
    /\ job.at = "launch" /\ row \in Rows /\ Rowed(row) /\ Noted(row)
    /\ UNCHANGED <<disk, build, gate>> /\ FaultsGrow
    /\ job.focused \/ TracedRun(LoadedBy(Item))

\* The end of a child of a campaign.
LEMMA RunItemEnds ==
    ASSUME IInv, RunItem
    PROVE  IInv' \/ \E row \in Rows : Accepted(row)
<1> DEFINE fails(row) == ~RunnerAccepts(row) \/ row.status = "failure"
           goes(row) == IF job.focused /\ fails(row)
                        THEN Goes([job EXCEPT !.error = "other"], "except")
                        ELSE Goes([job EXCEPT !.next = @ + 1, !.failed = @ \/ fails(row),
                                              !.good = @ /\ SmokeAccepts(row)], "item")
           notes(row) == observed' = IF Current.diagnostic
                                     THEN WithKey(LoadedBy(Item)) ELSE observed
<1>1. /\ Shape /\ job \in Jobs /\ job.at = "launch" /\ UNCHANGED <<disk, build, gate>>
      /\ job.at \in Working \ {"exit0"} /\ "item" \in Places
  BY DEF IInv, RunItem, At, Working, Places, Shape
<1>2. \/ \E o \in Outcome \ {"ok", "bad"} :
             Child(o, job, "item") /\ UNCHANGED <<observed, history>>
      \/ \E row \in Rows :
             /\ goes(row) /\ Remembers(LoadedBy(Item), row) /\ notes(row)
             /\ Fault \/ UNCHANGED faults
             /\ job.focused \/ TracedRun(LoadedBy(Item))
      \/ /\ Goes([job EXCEPT !.error = "other"], "except") /\ UNCHANGED <<observed, history>>
         /\ Fault \/ UNCHANGED faults
  BY DEF RunItem
<1>3. CASE \E o \in Outcome \ {"ok", "bad"} :
               Child(o, job, "item") /\ UNCHANGED <<observed, history>>
  <2>1. PICK o \in Outcome \ {"ok", "bad"} :
            Child(o, job, "item") /\ UNCHANGED <<observed, history>>
    BY <1>3
  <2>2. Ahead(job)
    BY <1>1, AheadIs
  <2> QED BY <1>1, <2>1, <2>2, ChildSteps
<1>4. CASE /\ Goes([job EXCEPT !.error = "other"], "except") /\ UNCHANGED <<observed, history>>
           /\ Fault \/ UNCHANGED faults
  BY <1>1, <1>4, RefusalKeeps
<1>5. ASSUME NEW row \in Rows, goes(row), Remembers(LoadedBy(Item), row), notes(row),
             Fault \/ UNCHANGED faults, job.focused \/ TracedRun(LoadedBy(Item))
      PROVE  Accepted(row)
  <2>1. FaultsGrow
    BY <1>1, <1>5, FaultsCount
  <2>2. Rowed(row)
    <3>1. PICK f : f = (job.failed \/ fails(row))
      OBVIOUS
    <3>2. f \in BOOLEAN
      BY <1>1, <3>1 DEF Jobs
    <3>3. \/ Goes([job EXCEPT !.error = "other"], "except")
          \/ Goes(After(job, job.next + 1, f, job.good /\ SmokeAccepts(row)), "item")
      BY <1>5, <3>1 DEF After
    <3> QED BY <1>1, <3>2, <3>3, RowedIs
  <2>3. Noted(row)
    BY <1>5 DEF Noted, Remembers, Remembered
  <2> QED BY <1>1, <1>5, <2>1, <2>2, <2>3 DEF Accepted
<1> HIDE DEF goes, notes
<1> QED BY <1>2, <1>3, <1>4, <1>5

\* What the record of an accepted row leaves of the process, whoever wrote it.
LEMMA RowKeepsOutcome ==
    ASSUME IInv, NEW row \in Rows, Accepted(row), history' \in Histories,
           history'.stopped = history.stopped, history'.masked = history.masked
    PROVE  /\ job'.next \in 1 .. Len(Schedule) + 1 /\ job'.campaign = job.campaign
           /\ Attempt' /\ Ends' /\ job'.status = "none" /\ job.status = "none"
           /\ job.error = "none" /\ job'.at \in {"item", "except"}
           /\ Schedule' = Schedule /\ Diagnosed' = Diagnosed /\ FirstKey' = FirstKey
<1>1. /\ Shape /\ job.at = "launch" /\ Rowed(row) /\ Ends /\ job.next <= Len(Schedule)
      /\ gate' = gate
  BY DEF IInv, Accepted, Counted
<1>2. job.focused \in BOOLEAN /\ job.next \in 1 .. Len(Schedule) + 1
  BY <1>1 DEF Shape, Jobs, TypeOK
<1>3. Len(Schedule) \in Nat
  BY <1>2, ScheduleFacts
<1>4. job'.next \in 1 .. Len(Schedule) + 1
  BY <1>1, <1>2, <1>3 DEF Rowed
<1>5. Ends' /\ job'.status = "none" /\ job.status = "none" /\ job.error = "none"
  BY <1>1 DEF Ends, Rowed, Working, Places
<1>6. Attempt'
  BY <1>1 DEF IInv, Attempt, Rowed
<1> QED BY <1>1, <1>4, <1>5, <1>6, SameSchedule DEF Rowed

\* Where a child of a campaign is.
LEMMA LaunchFacts ==
    ASSUME IInv, job.at = "launch"
    PROVE  /\ Shape /\ job.focused \in BOOLEAN /\ Diagnosed \in 0 .. 2
           /\ job.campaign \in 1 .. Diagnosed + 4 /\ job.next \in 1 .. Len(Schedule)
           /\ Len(Schedule) \in Nat /\ DOMAIN Schedule = 1 .. Len(Schedule)
           /\ Current.diagnostic <=> job.campaign <= Diagnosed
           /\ Key \in [item : Range(Schedule), threads : {1, 2}]
           /\ (job.campaign = 1 \/ job.campaign = Diagnosed + 1) /\ job.next = 1 => Key = FirstKey
<1>1. /\ Shape /\ job.focused \in BOOLEAN /\ job.campaign \in 1 .. Diagnosed + 4
      /\ job.next \in 1 .. Len(Schedule) + 1 /\ job.next <= Len(Schedule)
  BY DEF IInv, Shape, Jobs, Counted, TypeOK
<1>2. /\ Diagnosed \in 0 .. 2 /\ Len(Schedule) \in Nat /\ DOMAIN Schedule = 1 .. Len(Schedule)
      /\ Current.diagnostic <=> job.campaign <= Diagnosed
      /\ Current.threads \in {1, 2}
      /\ job.campaign = 1 \/ job.campaign = Diagnosed + 1 => Current.threads = 1
  BY <1>1, CampaignFacts, ScheduleFacts DEF Current
<1>3. job.next \in 1 .. Len(Schedule)
  BY <1>1, <1>2
<1>4. Item \in Range(Schedule)
  BY <1>2, <1>3 DEF Item, Range
<1>5. Key \in [item : Range(Schedule), threads : {1, 2}]
  BY <1>2, <1>4 DEF Key
<1>6. (job.campaign = 1 \/ job.campaign = Diagnosed + 1) /\ job.next = 1 => Key = FirstKey
  BY <1>2 DEF Key, FirstKey, Item
<1> QED BY <1>1, <1>2, <1>3, <1>5, <1>6

\* What the observations have after one more.
LEMMA Extended ==
    ASSUME NEW o, Key \notin DOMAIN observed, observed' = WithKey(o)
    PROVE  /\ DOMAIN observed' = DOMAIN observed \cup {Key} /\ observed'[Key] = o
           /\ \A k \in DOMAIN observed : observed'[k] = observed[k]
BY DEF WithKey

\* A diagnostic child's objects are younger than those of the first.
LEMMA DiagnosticRowKeeps ==
    ASSUME IInv, NEW row \in Rows, Accepted(row), Current.diagnostic
    PROVE  IInv'
<1> DEFINE o == LoadedBy(Item)
<1>1. /\ Shape /\ job.at = "launch" /\ Rowed(row) /\ UNCHANGED <<disk, build, gate, history>>
      /\ FaultsGrow /\ observed' = WithKey(o)
      /\ job.focused \/ TracedRun(o)
  BY DEF IInv, Accepted, Noted
<1>2. /\ job.focused \in BOOLEAN /\ Diagnosed \in 0 .. 2 /\ job.campaign \in 1 .. Diagnosed + 4
      /\ job.next \in 1 .. Len(Schedule) /\ job.campaign <= Diagnosed /\ Len(Schedule) \in Nat
      /\ Key \in [item : Range(Schedule), threads : {1, 2}]
      /\ job.campaign = 1 /\ job.next = 1 => Key = FirstKey
  BY <1>1, LaunchFacts
<1>3. ~job.focused /\ Key \notin DOMAIN observed
  <2>1. ~job.focused
    BY <1>2 DEF Diagnosed
  <2> QED BY <1>1, <2>1 DEF TracedRun
<1>4. /\ DOMAIN observed' = DOMAIN observed \cup {Key} /\ observed'[Key] = o
      /\ \A k \in DOMAIN observed : observed'[k] = observed[k]
  BY <1>1, <1>3, Extended
<1>5. o \in Objects /\ Libc \in DOMAIN o /\ o[Libc] = disk.lib[Libc]
  BY <1>1, LoadedByFacts
<1>6. /\ job'.next \in 1 .. Len(Schedule) + 1 /\ job'.campaign = job.campaign
      /\ Attempt' /\ Ends' /\ job'.status = "none" /\ job.status = "none"
      /\ job.error = "none" /\ job'.at \in {"item", "except"}
      /\ Schedule' = Schedule /\ Diagnosed' = Diagnosed /\ FirstKey' = FirstKey
  BY <1>1, RowKeepsOutcome DEF Shape
<1>7. NoneRan /\ history.calls = 0 /\ \A p \in ProfileNames : Loads(p) = {}
  BY <1>1, <1>2 DEF IInv, Counted, NoneRan, Loaded
<1> HIDE DEF o
<1>8. Shape'
  <2>1. DOMAIN observed' \subseteq [item : Range(Schedule), threads : {1, 2}]
    BY <1>1, <1>2, <1>4 DEF Shape, TypeOK
  <2>2. /\ job' \in Jobs /\ job'.focused = job.focused
        /\ job'.campaign \in 0 .. Len(Campaigns[job.focused]) + 1
    BY <1>1, <1>6 DEF Rowed, Shape, TypeOK
  <2>3. /\ job'.at \in Places /\ job'.look \in {1, 2} /\ job'.seen \in [Files -> Versions]
        /\ job'.error \in {"none", "other", "stop"} /\ job'.exit \in {"none", "0", "1"}
        /\ job'.status \in {"none", "SMOKE_COMPLETE", "FAILED", "UNKNOWN"}
    BY <2>2 DEF Jobs, FileVersions
  <2>4. TypeOK'
    BY <1>1, <1>6, <2>1, <2>2, <2>3 DEF Shape, TypeOK, FaultsGrow
  <2>5. /\ \A f \in Files : disk.file[f] <= faults'
        /\ \A n \in LibraryFiles : disk.lib[n] <= faults'
    <3>1. /\ \A f \in Files : disk.file[f] \in Nat /\ disk.file[f] <= faults
          /\ \A n \in LibraryFiles : disk.lib[n] \in Nat /\ disk.lib[n] <= faults
          /\ faults \in Nat
      BY <1>1, VersionFacts, SmokeAssumption DEF Shape, TypeOK
    <3> QED BY <1>1, <3>1 DEF FaultsGrow
  <2> QED BY <1>1, <2>2, <2>4, <2>5 DEF Shape
<1>9. Proven'
  BY <1>1, <1>6 DEF IInv, Proven, Rowed, SameProof, Proved, Working, Places, ProofIsOneInstant, At
<1>10. Counted'
  <2>1. job.good => AllAccepted
    BY <1>1 DEF IInv, Counted
  <2>2. job'.at = "item" => job'.next # 1 /\ (job'.good => job.good)
    <3>1. ASSUME job'.at = "item"
          PROVE  job'.next = job.next + 1 /\ (job'.good => job.good)
      BY <1>1, <3>1, Zenon DEF Rowed
    <3> QED BY <1>2, <3>1
  <2>3. DOMAIN observed' # {}
    BY <1>4
  <2>4. Named'
    BY <1>1 DEF IInv, Counted, Named
  <2>5. NoneRan' /\ (AllAccepted' <=> AllAccepted)
    BY <1>1, <1>7 DEF NoneRan, AllAccepted
  <2>6. ~(job'.campaign > Diagnosed')
    BY <1>2, <1>6
  <2>7. job'.campaign \in 1 .. Diagnosed' + 4
    BY <1>2, <1>6
  <2> QED BY <1>6, <2>1, <2>2, <2>3, <2>4, <2>5, <2>6, <2>7 DEF Counted, Fresh, Through
<1>11. Loaded'
  BY <1>1, <1>6, LoadedKept, VersionFacts DEF IInv, SameWork, Rowed
<1>12. Traced'
  <2>1. FirstKey \in DOMAIN observed'
    <3>1. DOMAIN observed = {} => Key = FirstKey
      BY <1>1, <1>2, <1>3 DEF IInv, Counted
    <3>2. DOMAIN observed # {} => FirstKey \in DOMAIN observed
      BY DEF IInv, Traced
    <3> QED BY <1>4, <3>1, <3>2
  <2>2. disk.lib[Libc] \in Nat /\ disk'.lib = disk.lib
    BY <1>1, LibcIsFile, VersionFacts
  <2>3. \A k \in DOMAIN observed : /\ observed[k] \in Objects /\ Libc \in DOMAIN observed[k]
                                   /\ observed[k][Libc] <= disk.lib[Libc]
                                   /\ observed[FirstKey][Libc] <= observed[k][Libc]
    BY DEF IInv, Traced
  <2>4. \A k \in DOMAIN observed' :
            /\ observed'[k] \in Objects /\ Libc \in DOMAIN observed'[k]
            /\ observed'[k][Libc] <= disk.lib[Libc]
    BY <1>4, <1>5, <2>2, <2>3
  <2>5. \A k \in DOMAIN observed' : observed'[FirstKey][Libc] <= observed'[k][Libc]
    <3>1. CASE FirstKey \in DOMAIN observed
      BY <1>4, <1>5, <2>3, <3>1
    <3>2. CASE FirstKey \notin DOMAIN observed
      <4>1. DOMAIN observed = {}
        BY <3>2 DEF IInv, Traced
      <4>2. FirstKey = Key
        BY <1>4, <2>1, <4>1
      <4> QED BY <1>4, <1>5, <2>2, <4>1, <4>2
    <3> QED BY <3>1, <3>2
  <2>6. history'.calls = 0 /\ ~job'.focused
    BY <1>1, <1>3, <1>7 DEF Rowed
  <2> QED BY <1>6, <2>1, <2>2, <2>4, <2>5, <2>6 DEF Traced
<1> QED BY <1>6, <1>8, <1>9, <1>10, <1>11, <1>12 DEF IInv

\* A child of the four campaigns saw what the first campaigns saw: the oldest of what they
\* observed is then the newest that there is.
LEMMA FinalRowTraced ==
    ASSUME IInv, NEW row \in Rows, Accepted(row), ~Current.diagnostic,
           \A p \in ProfileNames : Loads(p)' \subseteq Loads(p) \cup {LoadedBy(Item)}
    PROVE  Traced'
<1> DEFINE o == LoadedBy(Item)
<1>1. /\ Shape /\ job.at = "launch" /\ Rowed(row) /\ disk' = disk /\ observed' = observed
      /\ job'.focused = job.focused /\ (job.focused \/ TracedRun(o))
  BY DEF IInv, Accepted, Noted, Rowed
<1>2. FirstKey' = FirstKey
  BY <1>1, SameSchedule
<1>3. Traced
  BY DEF IInv
<1>4. CASE job.focused
  BY <1>1, <1>2, <1>3, <1>4 DEF Traced
<1>5. CASE ~job.focused
  <2>1. Key \in DOMAIN observed /\ observed[Key] = o /\ o[Libc] = disk.lib[Libc]
    <3>1. Libc \in DOMAIN o /\ o[Libc] = disk.lib[Libc]
      BY <1>1, LoadedByFacts
    <3> QED BY <1>1, <1>5, <3>1 DEF TracedRun
  <2>2. /\ disk.lib[Libc] \in Nat
        /\ \A k \in DOMAIN observed :
              /\ observed[k][Libc] \in Nat /\ observed[k][Libc] <= disk.lib[Libc]
              /\ observed[FirstKey][Libc] <= observed[k][Libc]
    BY <1>1, <1>3, LibcIsFile, VersionFacts DEF Traced
  <2>3. history.calls = 0 => Key = FirstKey
    <3>1. PICK c, l, d, n : c = job.campaign /\ l = Len(Schedule) /\ d = Diagnosed /\ n = job.next
      OBVIOUS
    <3>2. d \in 0 .. 2 /\ c \in 1 .. d + 4 /\ l \in Nat /\ l >= 1 /\ n \in 1 .. l /\ c > d
      BY <1>1, <3>1, LaunchFacts
    <3>3. history.calls = (c - d - 1) * l + n - 1
      BY <1>1, <3>1, <3>2 DEF IInv, Counted
    <3>4. ASSUME history.calls = 0
          PROVE  c = d + 1 /\ n = 1
      <4>1. PICK i, m : i = c - d - 1 /\ m = i * l
        OBVIOUS
      <4>2. i \in Nat /\ m \in Nat /\ (i >= 1 => m >= 1)
        BY <3>2, <4>1
      <4>3. m = 0 /\ n = 1
        BY <3>2, <3>3, <3>4, <4>1, <4>2
      <4>4. i = 0
        BY <4>2, <4>3
      <4> QED BY <3>2, <4>1, <4>3, <4>4
    <3> QED BY <1>1, <3>1, <3>4, LaunchFacts
  <2>4. \A k \in DOMAIN observed : SameLibc(observed[k])
    <3>1. CASE history.calls = 0
      BY <2>1, <2>2, <2>3, <3>1 DEF SameLibc
    <3>2. CASE history.calls # 0
      <4>1. history.calls > 0
        BY <1>1, <3>2 DEF Shape, Histories
      <4> QED BY <1>3, <1>5, <4>1 DEF Traced
    <3> QED BY <3>1, <3>2
  <2>5. \A p \in ProfileNames : \A x \in Loads(p)' : SameLibc(x)
    <3>1. SameLibc(o)
      BY <2>1, <2>4
    <3>2. \A p \in ProfileNames : \A x \in Loads(p) : SameLibc(x)
      <4>1. CASE history.calls = 0
        BY <4>1 DEF IInv, Loaded
      <4>2. CASE history.calls # 0
        <5>1. history.calls > 0
          BY <1>1, <4>2 DEF Shape, Histories
        <5> QED BY <1>3, <1>5, <5>1 DEF Traced
      <4> QED BY <4>1, <4>2
    <3> QED BY <3>1, <3>2
  <2> QED BY <1>1, <1>2, <1>3, <1>5, <2>4, <2>5 DEF Traced, SameLibc
<1> QED BY <1>4, <1>5

\* A child of the four campaigns is counted, and what it loaded remembered.
LEMMA FinalRowKeeps ==
    ASSUME IInv, NEW row \in Rows, Accepted(row), ~Current.diagnostic
    PROVE  IInv'
<1>1. PICK p, o, b, was :
          p = Item.implementation /\ o = LoadedBy(Item) /\ b = disk.file["binaries"] /\ was = history
  OBVIOUS
<1>2. /\ Shape /\ job.at = "launch" /\ Rowed(row) /\ UNCHANGED <<disk, build, gate, observed>>
      /\ FaultsGrow /\ history' = Remembered(was, p, o, row, b)
      /\ job.focused \/ TracedRun(o)
  BY <1>1 DEF IInv, Accepted, Noted
<1>3. /\ p \in ProfileNames /\ o \in Objects /\ o # <<>>
      /\ Libc \in DOMAIN o /\ DOMAIN o \subseteq Configured[p] \cup {Libc}
      /\ \A n \in DOMAIN o : o[n] = disk.lib[n]
      /\ Bound(Item, Configured[p], o) => AsConfigured(o)
  BY <1>1, <1>2, LoadedByFacts
<1>4. b \in Nat /\ was \in Histories
  BY <1>1, <1>2, VersionFacts, FileFacts
<1>5. /\ history' \in Histories /\ history'.instant = was.instant
      /\ history'.stopped = was.stopped /\ history'.masked = was.masked
      /\ history'.rows = was.rows \cup {row} /\ history'.calls = was.calls + 1
      /\ history'.binaries = was.binaries \cup {b}
      /\ history'.last[p] = o /\ history'.before[p] = was.before[p] \cup ({was.last[p]} \ {<<>>})
      /\ \A q \in ProfileNames \ {p} :
            history'.last[q] = was.last[q] /\ history'.before[q] = was.before[q]
  BY <1>2, <1>3, <1>4, WithWork
<1>6. /\ job'.next \in 1 .. Len(Schedule) + 1 /\ job'.campaign = job.campaign
      /\ Attempt' /\ Ends' /\ job'.status = "none" /\ job.status = "none"
      /\ job.error = "none" /\ job'.at \in {"item", "except"}
      /\ Schedule' = Schedule /\ Diagnosed' = Diagnosed /\ FirstKey' = FirstKey
  BY <1>1, <1>5, RowKeepsOutcome
<1>7. \A q \in ProfileNames :
          Loads(q)' \subseteq Loads(q) \cup {o} /\ Earlier(q)' \subseteq Loads(q)
  BY <1>1, <1>5 DEF Loads, Earlier
<1>8. Shape'
  BY <1>2, <1>5, <1>6, ShapeKept DEF Rowed, Shape, TypeOK
<1>9. Proven'
  <2>1. \A x \in history'.binaries : x <= disk'.file["binaries"]
    BY <1>1, <1>2, <1>4, <1>5 DEF IInv, Proven
  <2> QED BY <1>1, <1>2, <1>5, <1>6, <2>1
          DEF IInv, Proven, Rowed, SameProof, Proved, Working, Places, ProofIsOneInstant, At
<1>10. Loaded'
  <2>1. history'.calls # 0
    BY <1>4, <1>5 DEF Histories
  <2>2. ASSUME NEW q \in ProfileNames, NEW x \in Loads(q)'
        PROVE  /\ Libc \in DOMAIN x /\ DOMAIN x \subseteq Configured[q] \cup {Libc}
               /\ \A n \in DOMAIN x : x[n] <= disk.lib[n]
    <3>1. CASE x \in Loads(q)
      BY <3>1 DEF IInv, Loaded
    <3>2. CASE x = o /\ q = p
      <4>1. \A n \in DOMAIN o : n \in LibraryFiles
        BY <1>2, <1>3, VersionFacts
      <4>2. \A n \in DOMAIN o : o[n] = disk.lib[n] /\ disk.lib[n] \in Nat
        BY <1>2, <1>3, <4>1, VersionFacts
      <4> QED BY <1>3, <3>2, <4>2
    <3>3. q # p => x \in Loads(q)
      BY <1>1, <1>5 DEF Loads
    <3> QED BY <1>7, <3>1, <3>2, <3>3
  <2>3. was.last[p] # <<>> => AsConfigured(was.last[p])
    BY <1>1, <1>2, <1>3 DEF IInv, Loaded, Item
  <2>4. ASSUME NEW q \in ProfileNames, NEW x \in Earlier(q)'
        PROVE  AsConfigured(x)
    <3>1. x \in was.before[q] \/ (q = p /\ x = was.last[p] /\ x # <<>>)
      BY <1>5 DEF Earlier
    <3>2. \A y \in was.before[q] : AsConfigured(y)
      BY <1>1 DEF IInv, Loaded, Earlier
    <3> QED BY <2>3, <3>1, <3>2
  <2>5. ASSUME NEW q \in ProfileNames, ~job.focused, history'.last[q] # <<>>
        PROVE  AsConfigured(history'.last[q])
    <3>1. CASE q = p
      <4>1. AsConfigured(o)
        BY <1>1, <1>2, <1>3, <2>5 DEF TracedRun, Proves
      <4> QED BY <1>5, <3>1, <4>1
    <3>2. CASE q # p
      BY <1>1, <1>5, <2>5, <3>2 DEF IInv, Loaded
    <3> QED BY <3>1, <3>2
  <2>6. job'.focused = job.focused /\ disk' = disk /\ job'.at # "launch"
    BY <1>2, <1>6 DEF Rowed
  <2> QED BY <2>1, <2>2, <2>4, <2>5, <2>6 DEF Loaded
<1>11. Traced'
  BY <1>1, <1>7, FinalRowTraced
<1>12. Counted'
  <2>1. PICK c, l, d, n : c = job.campaign /\ l = Len(Schedule) /\ d = Diagnosed /\ n = job.next
    OBVIOUS
  <2>2. /\ d \in 0 .. 2 /\ c \in 1 .. d + 4 /\ l \in Nat /\ n \in 1 .. l /\ c > d
        /\ DOMAIN Schedule = 1 .. l
    BY <1>2, <2>1, LaunchFacts
  <2>3. CASE job'.at = "except"
    BY <1>6, <2>3 DEF Counted, Fresh, Through
  <2>4. CASE job'.at = "item"
    <3>1. /\ job'.next = n + 1 /\ (job'.good => job.good) /\ (job'.good => SmokeAccepts(row))
          /\ observed' = observed
      BY <1>2, <2>1, <2>4, Zenon DEF Rowed
    <3>2. history'.calls = (c - d - 1) * l + job'.next - 1
      <4>1. was.calls = (c - d - 1) * l + n - 1
        BY <1>1, <1>2, <2>1, <2>2 DEF IInv, Counted
      <4>2. PICK m : m = (c - d - 1) * l
        OBVIOUS
      <4>3. m \in Int
        BY <2>2, <4>2
      <4>4. was.calls + 1 = m + (n + 1) - 1
        BY <2>2, <4>1, <4>2, <4>3
      <4> QED BY <1>5, <3>1, <4>2, <4>4
    <3>3. \A k \in DOMAIN Schedule : k < job'.next \/ c > d + 1 =>
              history'.last[Schedule[k].implementation] # <<>>
      <4>1. SUFFICES ASSUME NEW k \in DOMAIN Schedule, k < n + 1 \/ c > d + 1
                     PROVE  history'.last[Schedule[k].implementation] # <<>>
        BY <3>1
      <4>2. PICK q : q = Schedule[k].implementation
        OBVIOUS
      <4>3. q \in ProfileNames
        <5>1. job.focused \in BOOLEAN
          BY <1>2 DEF Shape, Jobs
        <5> QED BY <4>2, <5>1, ScheduleFacts
      <4>4. CASE q = p
        BY <1>3, <1>5, <4>2, <4>4
      <4>5. CASE q # p
        <5>1. k # n
          BY <1>1, <2>1, <4>2, <4>5 DEF Item
        <5>2. k < n \/ c > d + 1
          BY <2>2, <4>1, <5>1
        <5>3. was.last[q] # <<>>
          BY <1>1, <1>2, <2>1, <2>2, <4>2, <5>2 DEF IInv, Counted
        <5> QED BY <1>5, <4>2, <4>3, <4>5, <5>3
      <4> QED BY <4>4, <4>5
    <3>4. job'.good => AllAccepted'
      <4>1. job.good => AllAccepted
        BY <1>2 DEF IInv, Counted
      <4> QED BY <1>1, <1>5, <3>1, <4>1 DEF AllAccepted
    <3>5. job'.next # 1 /\ Named'
      BY <1>2, <2>2, <3>1 DEF IInv, Counted, Named
    <3>6. job'.focused \/ DOMAIN observed' # {}
      <4>1. job.focused \/ Key \in DOMAIN observed
        BY <1>1, <1>2 DEF TracedRun, Accepted
      <4> QED BY <1>2, <3>1, <4>1 DEF Rowed
    <3>7. job'.campaign = c /\ Diagnosed' = d /\ Len(Schedule') = l /\ Schedule' = Schedule
      BY <1>6, <2>1
    <3>8. history'.calls = (job'.campaign - Diagnosed' - 1) * Len(Schedule') + job'.next - 1
      BY <3>2, <3>7
    <3>9. job'.campaign \in 1 .. Diagnosed' + 4 /\ ~(job'.campaign <= Diagnosed')
      BY <2>2, <3>7
    <3>10. \A k \in DOMAIN Schedule' : k < job'.next \/ job'.campaign > Diagnosed' + 1 =>
               history'.last[Schedule'[k].implementation] # <<>>
      BY <3>3, <3>7
    <3> QED BY <1>6, <2>4, <3>4, <3>5, <3>6, <3>8, <3>9, <3>10 DEF Counted, Fresh, Through
  <2> QED BY <1>6, <2>3, <2>4
<1> QED BY <1>6, <1>8, <1>9, <1>10, <1>11, <1>12 DEF IInv

-----------------------------------------------------------------------------
(* The invariant, and what it says.                                        *)

\* A smoke starts with nothing seen, counted or remembered.
LEMMA InitEstablishes ==
    ASSUME Init
    PROVE  IInv
<1>1. /\ disk = [file |-> [f \in Files |-> 0], lib |-> [n \in LibraryFiles |-> 0]]
      /\ build \in [evidence : Builds, links : Links]
      /\ gate = [c \in Controllers |-> "outside"] /\ observed = <<>> /\ faults = 0
  BY DEF Init
<1>2. PICK f \in BOOLEAN :
          job = [at |-> "start", focused |-> f, look |-> 1, next |-> 1, seen |-> disk.file,
                 proof |-> <<>>, code |-> <<>>, campaign |-> 0, failed |-> FALSE,
                 good |-> TRUE, error |-> "none", timed |-> FALSE, status |-> "none",
                 exit |-> "none"]
  BY DEF Init
<1>3. history = [instant |-> <<>>, stopped |-> FALSE, masked |-> FALSE,
                 last |-> [p \in ProfileNames |-> <<>>],
                 before |-> [p \in ProfileNames |-> {}], rows |-> {}, calls |-> 0,
                 binaries |-> {}]
  BY DEF Init, ProfileNames
<1>4. 0 \in Versions /\ Versions \subseteq Nat /\ Faults \in Nat
  BY SmokeAssumption DEF Versions
<1>5. disk.file \in FileVersions /\ disk.lib \in [LibraryFiles -> Versions]
  BY <1>1, <1>4 DEF FileVersions
<1>6. job \in Jobs
  BY <1>2, <1>5 DEF Jobs, Places
<1>7. /\ history.last \in [ProfileNames -> Objects \cup {<<>>}]
      /\ history.before \in [ProfileNames -> SUBSET Objects]
  BY <1>3
<1>8. history \in Histories
  BY <1>3, <1>7 DEF Histories
<1>9. Shape
  <2>1. Len(Schedule) \in Nat /\ Len(Campaigns[job.focused]) \in Nat
    <3>1. job.focused \in BOOLEAN
      BY <1>6 DEF Jobs
    <3>2. Diagnosed \in 0 .. 2 /\ Len(Campaigns[job.focused]) = Diagnosed + 4
      BY <3>1, CampaignFacts
    <3> QED BY <3>1, <3>2, ScheduleFacts
  <2>2. TypeOK
    <3>1. disk \in [file : [Files -> Versions], lib : [LibraryFiles -> Versions]]
      BY <1>1, <1>4
    <3>2. gate \in [Controllers -> {"outside", "passed", "refused", "inside", "broken"}]
      BY <1>1
    <3>3. /\ job.at \in Places /\ job.look \in {1, 2} /\ job.next \in 1 .. Len(Schedule) + 1
          /\ job.seen \in [Files -> Versions]
          /\ job.campaign \in 0 .. Len(Campaigns[job.focused]) + 1
          /\ job.error \in {"none", "other", "stop"} /\ job.exit \in {"none", "0", "1"}
          /\ job.status \in {"none", "SMOKE_COMPLETE", "FAILED", "UNKNOWN"}
      BY <1>2, <1>5, <2>1 DEF Places, FileVersions
    <3>4. DOMAIN observed = {}
      BY <1>1
    <3> QED BY <1>1, <1>4, <3>1, <3>2, <3>3, <3>4 DEF TypeOK
  <2>3. /\ \A g \in Files : disk.file[g] <= faults
        /\ \A n \in LibraryFiles : disk.lib[n] <= faults
    BY <1>1
  <2> QED BY <1>6, <1>8, <2>2, <2>3 DEF Shape
<1>10. /\ job.at = "start" /\ job.look = 1 /\ job.next = 1 /\ job.proof = <<>>
       /\ job.campaign = 0 /\ job.error = "none" /\ job.timed = FALSE /\ job.status = "none"
       /\ job.exit = "none"
  BY <1>2
<1>11. /\ history.stopped = FALSE /\ history.masked = FALSE /\ history.rows = {}
       /\ history.calls = 0 /\ history.binaries = {}
       /\ \A p \in ProfileNames : history.last[p] = <<>> /\ history.before[p] = {}
  BY <1>3
<1>12. Attempt
  BY <1>1 DEF Attempt
<1>13. Ends
  BY <1>10, <1>11 DEF Ends, Working, Places
<1>14. Proven
  BY <1>10, <1>11 DEF Proven, Proved, Working, Places, ProofIsOneInstant
<1>15. Counted
  <2>1. DOMAIN observed = {}
    BY <1>1
  <2> QED BY <1>10, <1>11, <2>1 DEF Counted, Fresh, Through, NoneRan
<1>16. Loaded
  <2>1. \A p \in ProfileNames : Loads(p) = {} /\ Earlier(p) = {}
    BY <1>11 DEF Loads, Earlier
  <2> QED BY <1>11, <2>1 DEF Loaded
<1>17. Traced
  <2>1. DOMAIN observed = {}
    BY <1>1
  <2> QED BY <1>11, <2>1 DEF Traced
<1> QED BY <1>9, <1>12, <1>13, <1>14, <1>15, <1>16, <1>17 DEF IInv

\* Every step of the smoke keeps the invariant.
LEMMA NextKeeps ==
    ASSUME IInv, Next
    PROVE  IInv'
<1>1. ASSUME NEW c \in Controllers, PassGate(c) \/ RefusePacket(c) \/ MakeRoot(c) \/ LoseRace(c)
      PROVE  IInv'
  BY <1>1, OutsideKeeps, MakeRootKeeps
<1>2. CASE LookFirst \/ TurnBack \/ LookAgain \/ Prove
  BY <1>2, LookFirstKeeps, TurnBackKeeps, LookAgainKeeps, FirstProofKeeps, SecondProofKeeps
<1>3. CASE Import \/ Preflight \/ Resolve \/ Resolved \/ RunExample \/ ExamplesDone
  BY <1>3, ImportKeeps, PreflightKeeps, ResolveKeeps, RunExampleKeeps, ExamplesDoneKeeps
<1>4. CASE CheckItem \/ EndCampaign \/ CombineSet \/ CheckHarness
  BY <1>4, CheckItemKeeps, EndCampaignKeeps, CombineSetKeeps, CheckHarnessKeeps
<1>5. CASE RunItem
  BY <1>5, RunItemEnds, DiagnosticRowKeeps, FinalRowKeeps
<1>6. CASE Complete \/ ExitZero0 \/ Except \/ SaveSummary \/ SaveSummaryFails
  BY <1>6, CompleteKeeps, OutcomeKeeps
<1>7. CASE Stop \/ Replace
  BY <1>7, StopKeeps, ReplaceKeeps
<1> QED BY <1>1, <1>2, <1>3, <1>4, <1>5, <1>6, <1>7 DEF Next

\* A step that changes nothing.
LEMMA StutterKeeps ==
    ASSUME IInv, UNCHANGED vars
    PROVE  IInv'
<1>1. /\ Shape /\ UNCHANGED <<disk, build, gate, job, observed, history, faults>>
  BY DEF IInv, vars
<1>2. Schedule' = Schedule /\ Diagnosed' = Diagnosed
  BY <1>1, SameSchedule
<1>3. Shape' /\ Attempt' /\ Ends'
  BY <1>1, <1>2 DEF IInv, Shape, TypeOK, Attempt, Ends
<1>4. Proven'
  BY <1>1 DEF IInv, Proven, Looking, Sound, Convincing, ProofIsOneInstant, At
<1>5. Counted'
  BY <1>1, <1>2 DEF IInv, Counted, Fresh, Through, NoneRan, Named, AllAccepted
<1>6. Loaded' /\ Traced'
  BY <1>1, TracedKept, LoadedKept, VersionFacts DEF IInv, SameWork, Loaded
<1> QED BY <1>3, <1>4, <1>5, <1>6 DEF IInv

\* The inductive invariant: what a smoke that goes on has seen, counted and remembered.
THEOREM Invariant == Spec => []IInv
<1>1. Init => IInv
  BY InitEstablishes
<1>2. IInv /\ [Next]_vars => IInv'
  BY NextKeeps, StutterKeeps
<1> QED BY <1>1, <1>2, PTL DEF Spec

\* Every variable keeps the shape the code gives it.
THEOREM TypeCorrect == Spec => []TypeOK
<1>1. IInv => TypeOK
  BY DEF IInv, Shape
<1> QED BY <1>1, Invariant, PTL

\* The work of a complete smoke: one attempt, every invocation of the four campaigns, with
\* the code and the binaries of the proof, the numbers within the configured bounds, and
\* the libraries as configured and the same all along, as far as anything looked.
THEOREM SmokeProved == Spec => []SmokeIsProved
<1>1. ASSUME IInv
      PROVE  OneAttempt
  <2> DEFINE inside == {c \in Controllers : gate[c] = "inside"}
  <2>1. \A c, d \in inside : c = d
    BY <1>1 DEF IInv, Attempt
  <2>2. CASE inside = {}
    BY <2>2, FS_EmptySet DEF OneAttempt
  <2>3. CASE inside # {}
    <3>1. PICK c : inside = {c}
      BY <2>1, <2>3
    <3> QED BY <3>1, FS_Singleton DEF OneAttempt
  <2> QED BY <2>2, <2>3
<1>2. ASSUME IInv, job.status = "SMOKE_COMPLETE"
      PROVE  /\ CompleteBuild(build.evidence)
             /\ history.calls = Len(Finals) * Len(Schedule) /\ history.binaries = {0}
             /\ \A row \in history.rows : row.metrics = "within" /\ row.status = "success"
             /\ job.code = job.proof
  <2>1. /\ Shape /\ job.focused \in BOOLEAN /\ job.proof # <<>> /\ job.code = job.proof
        /\ history.binaries \subseteq {0} /\ (history.calls = 0 \/ history.binaries # {})
        /\ CompleteBuild(build.evidence)
    BY <1>2 DEF IInv, Proven, Shape, Jobs
  <2>2. history.calls = 4 * Len(Schedule) /\ AllAccepted
    BY <1>2 DEF IInv, Counted, Through
  <2>3. Len(Finals) = 4
    BY DEF Finals
  <2>4. Len(Schedule) \in Nat /\ Len(Schedule) >= 1
    BY <2>1, ScheduleFacts
  <2>5. history.binaries = {0}
    BY <2>1, <2>2, <2>4
  <2>6. \A row \in history.rows : row.metrics = "within" /\ row.status = "success"
    BY <2>2 DEF AllAccepted, SmokeAccepts
  <2> QED BY <2>1, <2>2, <2>3, <2>5, <2>6
<1>3. ASSUME IInv, job.status = "SMOKE_COMPLETE"
      PROVE  /\ \A p \in ProfileNames : \A o \in history.before[p] : AsConfigured(o)
             /\ ~job.focused =>
                   /\ \A p \in ProfileNames : AsConfigured(history.last[p])
                   /\ \A p \in ProfileNames : \A o \in history.before[p] : SameLibc(o)
                   /\ \A p \in ProfileNames : SameLibc(history.last[p])
  <2>1. \A p \in ProfileNames : history.last[p] # <<>>
    BY <1>3 DEF IInv, Counted, Through
  <2>2. history.calls > 0
    <3>1. job.focused \in BOOLEAN /\ history.calls = 4 * Len(Schedule)
      BY <1>3 DEF IInv, Counted, Through, Shape, Jobs
    <3>2. Len(Schedule) \in Nat /\ Len(Schedule) >= 1
      BY <3>1, ScheduleFacts
    <3> QED BY <3>1, <3>2
  <2>3. ~job.focused => \A p \in ProfileNames : \A o \in Loads(p) : SameLibc(o)
    BY <1>3, <2>2 DEF IInv, Traced
  <2> QED BY <1>3, <2>1, <2>3 DEF IInv, Loaded, Earlier, Loads
<1>4. IInv => SmokeIsProved
  <2>1. SUFFICES ASSUME IInv
                 PROVE  SmokeIsProved
    OBVIOUS
  <2>2. SUFFICES ASSUME job.status = "SMOKE_COMPLETE"
                 PROVE  LET before == UNION {history.before[p] : p \in Range(Profiles)}
                            last == {history.last[p] : p \in Range(Profiles)}
                            configured(loads) ==
                                \A o \in loads : \A n \in DOMAIN o \ {Libc} : o[n] = 0
                        IN  IF job.focused THEN configured(before)
                            ELSE /\ configured(before \cup last)
                                 /\ \A o, q \in before \cup last : o[Libc] = q[Libc]
    BY <1>1, <1>2, <2>1 DEF SmokeIsProved
  <2>3. PICK before, last : /\ before = UNION {history.before[p] : p \in ProfileNames}
                            /\ last = {history.last[p] : p \in ProfileNames}
    OBVIOUS
  <2>4. \A o \in before : AsConfigured(o) /\ (~job.focused => SameLibc(o))
    BY <1>3, <2>1, <2>2, <2>3
  <2>5. ~job.focused => \A o \in last : AsConfigured(o) /\ SameLibc(o)
    BY <1>3, <2>1, <2>2, <2>3
  <2>6. IF job.focused THEN \A o \in before : AsConfigured(o)
        ELSE /\ \A o \in before \cup last : AsConfigured(o)
             /\ \A o, q \in before \cup last : o[Libc] = q[Libc]
    BY <2>4, <2>5 DEF SameLibc
  <2> QED BY <2>3, <2>6 DEF AsConfigured, ProfileNames
<1> QED BY <1>4, Invariant, PTL

\* The proof is of one instant, although its files are read one after the other while
\* anyone may write them.
THEOREM OneInstant == Spec => []ProofIsOneInstant
<1>1. IInv => ProofIsOneInstant
  BY DEF IInv, Proven
<1> QED BY <1>1, Invariant, PTL

\* A smoke that a signal or a time limit ended is not recorded as FAILED, and no other as
\* UNKNOWN; exit status 0 says that it was complete, but for a signal after that.
THEOREM StopLeavesUnknown == Spec => []StopIsUnknown
<1>1. IInv => StopIsUnknown
  BY DEF IInv, Ends, StopIsUnknown, At
<1> QED BY <1>1, Invariant, PTL

=================================================================================
