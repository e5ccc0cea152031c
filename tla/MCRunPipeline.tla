---------------------------- MODULE MCRunPipeline ----------------------------
(* Instances of RunPipeline: one chain, one token, a policy that caps it   *)
(* and one that does not.                                                  *)
EXTENDS Triage

CONSTANTS c1, t1, s1

MCChain == {c1}
MCAddress == {t1}
MCSelector == {s1}

Policy(cap) ==
  [ chains    |-> {c1},
    contracts |-> [c \in {c1} |-> {t1}],
    selectors |-> [k \in {c1} \X {t1} |-> {s1}],
    native    |-> [c \in {c1} |-> None],
    erc20     |-> [k \in {c1} \X {t1} |-> cap],
    rawGlobal |-> FALSE,
    rawAllow  |-> {} ]

\* Two transfers of 1 exceed the first cap; three saturate a U256 of 0..2.
MCPolicies == { Policy(1), Policy(None) }
Transfer == [chain |-> c1, kind |-> "erc20_transfer", to |-> t1,
             selector |-> s1, value |-> 0, amount |-> 1]
MCDecisions == { Transfer }

\* Every list up to the bound; a list of each length; a batch only.
AllOutputs == ActionList
FewOutputs == { <<Transfer>>, <<Transfer, Transfer>> }
BatchOutputs == { <<Transfer, Transfer>> }
=============================================================================
