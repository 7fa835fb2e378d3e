------------------------------ MODULE MCSiriusSmoke ------------------------------
(* Instance of SiriusSmoke: a family with a CPU provider of two files, and evidence *)
(* that proves a complete build or lacks one thing.                                 *)
EXTENDS SiriusSmoke, TLC

MCLibraries == <<"rocblas">>

MCConfigured == [cpu |-> {Dep("cblas", 0), Dep("cblas", 1)},
                 hip |-> {Dep("hip", 0), Dep("rocblas", 0)},
                 openmp |-> {Dep("hip", 0), Dep("rocblas", 0)}]

Complete36 == [summary |-> "BUILT", built |-> 6, slots |-> 6,
               sources |-> <<0, 0, 0, 0, 0>>, exits |-> <<0>>,
               dispatch |-> "BUILD_COMPLETE", markers |-> <<0>>]
MCBuilds == {Complete36,
             [Complete36 EXCEPT !.built = 5], [Complete36 EXCEPT !.sources[3] = 1],
             [Complete36 EXCEPT !.exits = <<1>>], [Complete36 EXCEPT !.dispatch = "UNKNOWN"],
             [Complete36 EXCEPT !.markers = <<0, 0>>]}

Tokens == {[kind |-> k, of |-> n] : k \in {"object", "file"}, n \in {"cblas"}}
          \cup {[kind |-> "file", of |-> n] : n \in {"hip", "rocblas"}}
MCLinks == [depfile : {[target |-> "this", tokens |-> Tokens],
                       [target |-> "this", tokens |-> Tokens \ {[kind |-> "file", of |-> "cblas"]}],
                       [target |-> "other", tokens |-> Tokens]},
            command : {<<"invoke", "link", "built">>, <<"link", "built">>,
                       <<"invoke", "link", "built", "link">>}]

MCRows == {Verified, [Verified EXCEPT !.thresholds = "derived-rounded"],
           [Verified EXCEPT !.metrics = "outside"], [Verified EXCEPT !.of = "other"],
           [Verified EXCEPT !.status = "failure"],
           [Verified EXCEPT !.thresholds = "operand-rounded"]}
Symmetry == Permutations(Controllers)
==================================================================================
