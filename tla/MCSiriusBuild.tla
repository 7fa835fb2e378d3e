------------------------------ MODULE MCSiriusBuild ------------------------------
(* Instance of SiriusBuild: two of the six families, one with a provider AOCL can *)
(* offer and one that needs the OpenMP wrapper.                                   *)
EXTENDS SiriusBuild

MCOrder == <<[library |-> "rocblas", role |-> "benchmark"],
             [library |-> "rocthrust", role |-> "benchmark"]>>
=================================================================================
