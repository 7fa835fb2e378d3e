------------------------------ MODULE TrialMatrix ------------------------------
(***************************************************************************)
(* What a node's raw result file promises its readers, whatever the        *)
(* benchmarks, the disk or the scheduler do: a table with one cell per     *)
(* planned trial, filled strictly in order and never changed; a campaign   *)
(* told to stop at the first failure starts nothing after one; and the     *)
(* run reports success only over a full table of successes.                *)
(***************************************************************************)
EXTENDS Integers, Sequences

VARIABLES plan,     \* the number of trials of each planned invocation
          patient,  \* whether the campaign continues after a failure
          table,    \* the statuses recorded so far, invocation by invocation
          verdict   \* "open", "pass" or "fail"

vars == <<plan, patient, table, verdict>>

Statuses == {"success", "failure", "skipped"}

Full(i) == Len(table[i]) = plan[i]
Clean(i) == \A t \in DOMAIN table[i] : table[i][t] = "success"

Init ==
    /\ plan \in Seq(Nat \ {0})
    /\ patient \in BOOLEAN
    /\ table = [i \in DOMAIN plan |-> << >>]
    /\ verdict = "open"

\* The next cell of the first row that has room.
Fill(i, status) ==
    /\ verdict = "open"
    /\ ~Full(i) /\ \A j \in 1 .. i - 1 : Full(j)
    /\ status # "skipped" => patient \/ \A j \in 1 .. i - 1 : Clean(j)
    /\ table' = [table EXCEPT ![i] = Append(@, status)]
    /\ UNCHANGED <<plan, patient, verdict>>

Pass ==
    /\ verdict = "open"
    /\ \A i \in DOMAIN plan : Full(i) /\ Clean(i)
    /\ verdict' = "pass"
    /\ UNCHANGED <<plan, patient, table>>

\* At any time: a failure at the end, a run broken off, a second run refused.
Fail ==
    /\ verdict = "open"
    /\ verdict' = "fail"
    /\ UNCHANGED <<plan, patient, table>>

Next ==
    \/ \E i \in DOMAIN plan, status \in Statuses : Fill(i, status)
    \/ Pass
    \/ Fail

Spec == Init /\ [][Next]_vars
=============================================================================
