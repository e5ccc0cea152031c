---------------------------- MODULE MCDashboard ----------------------------
(* Two requests over a strategy that declares one asset more than its cap, *)
(* one that declares a single asset and one without a view.                *)
EXTENDS Dashboard

MCStrategies == {1, 2, 3}
MCViewless == {3}
MCDeclares == [s \in MCStrategies |-> IF s = 1 THEN 2 ELSE 1]
=============================================================================
