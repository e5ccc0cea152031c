---------------------------- MODULE MCPolicyStore ----------------------------
(* Three calls of policy_set, two policies that resolve and one that does  *)
(* not; a file that resolves, one that does not, or none.                  *)
EXTENDS PolicyStore

CONSTANTS c1, c2, c3, open, tight, broken, nil

MCCalls == {c1, c2, c3}
MCBodies == {open, tight, broken}
MCValid == {open, tight}
TwoCalls == {c1, c2}
MCTomlFiles == {open, broken, nil}
NoFile == {nil}
=============================================================================
