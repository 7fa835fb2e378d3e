------------------------------ MODULE NodeOrdering ------------------------------
(***************************************************************************)
(* Which node of a wave runs the implementations in which order, and the   *)
(* problem sizes in which direction (ordering.py).                         *)
(***************************************************************************)
EXTENDS Integers, FiniteSets

\* IMPLEMENTATION_PERMUTATIONS, counted from 0 as in the code.
PermutationIndices == 0 .. 5

ImplementationPermutation ==
    [i \in PermutationIndices |->
        CASE i = 0 -> <<"cpu", "cuda", "openacc">>
          [] i = 1 -> <<"cpu", "openacc", "cuda">>
          [] i = 2 -> <<"cuda", "cpu", "openacc">>
          [] i = 3 -> <<"cuda", "openacc", "cpu">>
          [] i = 4 -> <<"openacc", "cpu", "cuda">>
          [] i = 5 -> <<"openacc", "cuda", "cpu">>]

PermutationIndex(node, wave) == (node + wave) % 6

\* 0: sizes as configured, 1: reversed.
SizeOrderIndex(node) == node % 2

ImplementationOrder(node, wave) == ImplementationPermutation[PermutationIndex(node, wave)]

\* How many of the nodes 0 .. n - 1 run permutation p in a wave, or start with
\* implementation i (assignment_counts).
PermutationCount(n, wave, p) ==
    Cardinality({node \in 0 .. n - 1 : PermutationIndex(node, wave) = p})

FirstCount(n, wave, i) ==
    Cardinality({node \in 0 .. n - 1 : ImplementationOrder(node, wave)[1] = i})

\* How many measurements of some waves run permutation p with size order s
\* (multiwave_assignment_counts).
JointCount(n, waves, p, s) ==
    Cardinality({x \in (0 .. n - 1) \X waves :
                    PermutationIndex(x[1], x[2]) = p /\ SizeOrderIndex(x[1]) = s})
=================================================================================
