-------------------------- MODULE MCStrategyRegistry --------------------------
(* Two names, two bundles and one with a named action, two fresh lineages, *)
(* on top of any legacy table over these names and bundles.                *)
EXTENDS StrategyRegistry, TLC

CONSTANTS n1, n2, plain, other, rich, u1, u2

MCNames == {n1, n2}
MCContents == {plain, other, rich}
MCWithActions == {rich}
MCUlids == {u1, u2}
Symmetry == Permutations(MCNames) \cup Permutations(MCUlids)
FreshInit == Init /\ rows = <<>>
FreshSpec == FreshInit /\ [][Next]_vars
=============================================================================
