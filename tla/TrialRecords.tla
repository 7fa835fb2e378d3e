----------------------------- MODULE TrialRecords -----------------------------
(***************************************************************************)
(* The rows of a raw result file, reduced to the three fields the suite    *)
(* reasons about: the trial index, the status with its attempted flag, and *)
(* the failure origin.  Everything else in a row is copied from the plan   *)
(* and compared field by field; a row that differs in any of those fields  *)
(* is, like malformed text, just Junk here.                                *)
(*                                                                         *)
(* This module holds the pure functions on sequences of rows: what a       *)
(* benchmark emits for trials it cannot measure, what the runner accepts   *)
(* of a benchmark's output and adds to it, and what the campaign validator *)
(* requires of one invocation.                                             *)
(***************************************************************************)
EXTENDS Integers, Sequences, FiniteSets

Formats == {"jsonl", "csv"}
None == "none"

StartedOrigins   == {"benchmark", "verification", "subprocess", "output-validation"}
UnstartedOrigins == {"prior-failure", "prerequisite"}

Rows == [trial : Nat, status : {"success", "failure", "skipped"},
         attempted : BOOLEAN, origin : StartedOrigins \cup UnstartedOrigins \cup {None}]

\* A line that is not a row: text, an unfinished line, a row of another plan.
Junk == [trial |-> 0, status |-> "junk", attempted |-> FALSE, origin |-> None]

Success(t)    == [trial |-> t, status |-> "success", attempted |-> TRUE, origin |-> None]
Failure(t, o) == [trial |-> t, status |-> "failure", attempted |-> TRUE, origin |-> o]
Skip(t, o)    == [trial |-> t, status |-> "skipped", attempted |-> FALSE, origin |-> o]

\* The states a row may be in: schema.py refuses every other combination.
ValidRow(r) ==
    \/ r.status = "success" /\ r.attempted /\ r.origin = None
    \/ r.status = "failure" /\ r.attempted /\ r.origin \in StartedOrigins
    \/ r.status = "skipped" /\ ~r.attempted /\ r.origin \in UnstartedOrigins

Fatal(r)     == r.status = "failure" /\ r.origin # "verification"
PriorSkip(r) == r.status = "skipped" /\ r.origin = "prior-failure"

\* Every trial of an invocation, skipped for one reason.
AllSkipped(trials, o) == [k \in 1 .. trials |-> Skip(k - 1, o)]

-----------------------------------------------------------------------------
(* What the runner makes of an invocation's output.                        *)

\* Mutant of Acceptable: a failed verification is held to end the trials.
AcceptableToFirstFailure(out, k, trials) ==
    /\ ValidRow(out[k])
    /\ out[k].trial = k - 1 /\ k <= trials
    /\ (\E j \in 1 .. k - 1 : out[j].status = "failure") => PriorSkip(out[k])

\* Line k of the output is a row the runner can take, given the lines before.
Acceptable(out, k, trials) ==
    /\ ValidRow(out[k])
    /\ out[k].trial = k - 1 /\ k <= trials
    /\ (\E j \in 1 .. k - 1 : Fatal(out[j])) => PriorSkip(out[k])

\* The rows taken: the longest leading run of acceptable lines.
Accepted(out, trials) ==
    LET good == {n \in 0 .. Len(out) : \A k \in 1 .. n : Acceptable(out, k, trials)}
    IN  SubSeq(out, 1, CHOOSE n \in good : \A m \in good : m <= n)

\* Output was left over, or a CSV stream lacks even its header.
Contaminated(out, trials, format) ==
    \/ Len(Accepted(out, trials)) < Len(out)
    \/ format = "csv" /\ out = << >>

\* Mutant of Synthetic: trials are counted from the wrong end.
SyntheticBackwards(unresolved, trials, origin) ==
    [k \in 1 .. trials - unresolved |->
        IF k = 1 THEN Failure(unresolved - trials, origin)
                 ELSE Skip(unresolved + k - 1, "prior-failure")]

\* What the runner adds for the trials no accepted row accounts for: one
\* started failure, then skips.
Synthetic(unresolved, trials, origin) ==
    [k \in 1 .. trials - unresolved |->
        IF k = 1 THEN Failure(unresolved, origin)
                 ELSE Skip(unresolved + k - 1, "prior-failure")]

SyntheticOrigin(out, trials, format, abnormal) ==
    IF abnormal /\ ~Contaminated(out, trials, format) THEN "subprocess" ELSE "output-validation"

Materialized(out, trials, format, abnormal) ==
    LET taken == Accepted(out, trials)
    IN  taken \o Synthetic(Len(taken), trials, SyntheticOrigin(out, trials, format, abnormal))

-----------------------------------------------------------------------------
(* What the campaign validator requires of the rows of one invocation.     *)

EachTrialOnce(rows, trials) ==
    /\ {rows[k].trial : k \in DOMAIN rows} = 0 .. trials - 1
    /\ Len(rows) = trials

OnlySkipsAfterFatal(rows) ==
    \A j, k \in DOMAIN rows : Fatal(rows[j]) /\ rows[j].trial < rows[k].trial => PriorSkip(rows[k])

OneSkipOrigin(rows) ==
    \A j, k \in DOMAIN rows :
        rows[j].status = "skipped" /\ rows[k].status = "skipped" => rows[j].origin = rows[k].origin

ValidInvocation(rows, trials) ==
    /\ \A k \in DOMAIN rows : ValidRow(rows[k])
    /\ EachTrialOnce(rows, trials)
    /\ OnlySkipsAfterFatal(rows)
    /\ OneSkipOrigin(rows)
=============================================================================
