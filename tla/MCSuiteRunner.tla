---------------------------- MODULE MCSuiteRunner ----------------------------
(* Small instances of SuiteRunner for TLC.                                 *)
EXTENDS SuiteRunner

Item(trials, entry, checked) == [trials |-> trials, entry |-> entry, checked |-> checked]
Usable(trials)  == Item(trials, "usable", FALSE)
Checked(trials) == Item(trials, "usable", TRUE)
Missing(trials) == Item(trials, "unsupported", FALSE)
Absent(trials)  == Item(trials, "absent", FALSE)

Campaign(items, patience, form, lines) ==
    [schedule |-> items, patient |-> patience, format |-> form, strays |-> lines]

\* Text, an inconsistent row, and rows out of place or repeated.
MCStrays == {Junk, Success(0), Success(1), Failure(0, "benchmark"), Skip(1, "prerequisite"),
           [Success(0) EXCEPT !.status = "failure"], Failure(1, "output-validation")}

\* No item, and every kind of item, alone or before or after one that runs; the
\* patience of a campaign matters only when an item can follow a failure.
MCCampaigns ==
    {Campaign(<<Usable(3)>>, FALSE, form, MCStrays) : form \in Formats}
    \cup {Campaign(items, patience, "jsonl", {}) :
            patience \in BOOLEAN,
            items \in {<< >>, <<Checked(2), Usable(1)>>, <<Missing(2), Usable(1)>>,
                       <<Usable(1), Absent(1), Usable(1)>>}}
=============================================================================
