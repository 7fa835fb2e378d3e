----------------------------- MODULE ProbeBudget -----------------------------
(***************************************************************************)
(* What the Sirius probe transport promises its owner, without processes,  *)
(* files or crashes: a human approval is good for one reservation and at   *)
(* most one ssh session, and while the outcome of any reservation is open  *)
(* or lost nothing else is approved, reserved or started.  SiriusLedger    *)
(* implements this specification.                                          *)
(***************************************************************************)
EXTENDS Naturals

CONSTANT Approvals

VARIABLES phase,     \* unknown, granted, open, lost or closed
          launches   \* ssh sessions started under the approval

vars == <<phase, launches>>

Phases == {"unknown", "granted", "open", "lost", "closed"}

Undecided(a) == phase[a] \in {"open", "lost"}
Quiet == \A a \in Approvals : ~Undecided(a)

Init ==
    /\ phase = [a \in Approvals |-> "unknown"]
    /\ launches = [a \in Approvals |-> 0]

\* A human registers an approval.
Grant(a) ==
    /\ phase[a] = "unknown"
    /\ Quiet
    /\ phase' = [phase EXCEPT ![a] = "granted"]
    /\ UNCHANGED launches

\* The approval is spent, before anything is started.
Reserve(a) ==
    /\ phase[a] = "granted"
    /\ Quiet
    /\ phase' = [phase EXCEPT ![a] = "open"]
    /\ UNCHANGED launches

Launch(a) ==
    /\ phase[a] = "open"
    /\ launches[a] = 0
    /\ launches' = [launches EXCEPT ![a] = 1]
    /\ UNCHANGED phase

\* The outcome is confirmed, or known to have no remote effect; or it is not
\* known and waits for a human.
Decide(a) ==
    /\ phase[a] = "open"
    /\ \E result \in {"closed", "lost"} : phase' = [phase EXCEPT ![a] = result]
    /\ UNCHANGED launches

Next == \E a \in Approvals : Grant(a) \/ Reserve(a) \/ Launch(a) \/ Decide(a)

Spec == Init /\ [][Next]_vars

-----------------------------------------------------------------------------
TypeOK ==
    /\ phase \in [Approvals -> Phases]
    /\ launches \in [Approvals -> {0, 1}]

\* At most one reservation is undecided, and an approval that was never
\* reserved has started nothing: the promise "serialized" of remote.py.
OneUndecided ==
    /\ \A a, b \in Approvals : Undecided(a) /\ Undecided(b) => a = b
    /\ \A a \in Approvals : phase[a] \in {"unknown", "granted"} => launches[a] = 0
=============================================================================
