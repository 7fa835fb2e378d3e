--------------------------- MODULE MCPegasusCampaign ----------------------------
(* Three jobs of one run ID: two are submitted for wave 0, one for wave 1. *)
EXTENDS PegasusCampaign, TLC

CONSTANTS j1, j2, j3

MCJobs == {j1, j2, j3}
MCWaveOf == (j1 :> 0) @@ (j2 :> 0) @@ (j3 :> 1)

\* The jobs of wave 0 are interchangeable, and so are the versions and the hosts:
\* the initial states hold any of them, and no definition chooses one.
MCSymmetry ==
    Permutations({j1, j2}) \cup Permutations(Versions) \cup Permutations(Hosts)

\* assignment_counts and multiwave_assignment_counts over bounded inputs: a wave of
\* n nodes gives every permutation and every first implementation its share,
\* and two consecutive waves of six nodes run every permutation with every size order
\* exactly once.
ASSUME Balanced ==
    \A n \in 1 .. 13, w \in 0 .. 7 :
        /\ \A p \in PermutationIndices :
              PermutationCount(n, w, p) \in n \div 6 .. (n + 5) \div 6
        /\ \A i \in {"cpu", "cuda", "openacc"} :
              FirstCount(n, w, i) \in 2 * (n \div 6) .. 2 * ((n + 5) \div 6)
        /\ n = 6 => \A p \in PermutationIndices, s \in 0 .. 1 :
              JointCount(n, {w, w + 1}, p, s) = 1
=================================================================================
