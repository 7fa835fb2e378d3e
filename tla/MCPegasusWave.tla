----------------------------- MODULE MCPegasusWave ------------------------------
(* One node that may end its suite in every way there is, or two, planned   *)
(* as ranks 0 and 1, whose suites pass, fail a benchmark or are killed      *)
(* between two rows.                                                        *)
EXTENDS PegasusWave, TLC

CONSTANTS h1, h2

OneHost == {h1}
TwoHosts == {h1, h2}
RankOfOne == (h1 :> 0)
RankOfTwo == (h1 :> 0) @@ (h2 :> 1)
AllLeftovers == [Parts -> Copies]
TornRaw == {[metadata |-> "whole", logs |-> "whole", raw |-> "torn"]}
FewOutcomes == {<<0, "full">>, <<1, "failed">>}
=================================================================================
