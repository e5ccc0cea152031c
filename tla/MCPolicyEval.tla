----------------------------- MODULE MCPolicyEval -----------------------------
(* Instance of PolicyEval: two chains, two addresses, one of each only in  *)
(* the policies' reach, U256 of 0..3 so that the sums saturate.            *)
EXTENDS PolicyEval

CONSTANTS c1, c2, a1, a2, s1, s2

MCChain == {c1, c2}
MCAddress == {a1, a2}
MCSelector == {s1, s2}

\* Everything about (c1, a1) varies; (c1, a2) is a listed contract with a
\* cap of 1; c2 is named by some policies without a contracts table.
MCPolicies ==
  { [ chains    |-> cs,
      contracts |-> [c \in MCChain |-> IF c = c1 THEN list ELSE None],
      selectors |-> [k \in MCChain \X MCAddress |->
                       IF k = <<c1, a1>> THEN sel ELSE {AnySelector}],
      native    |-> [c \in MCChain |-> IF c = c1 THEN nat ELSE 1],
      erc20     |-> [k \in MCChain \X MCAddress |->
                       IF k = <<c1, a1>> THEN cap ELSE 1],
      rawGlobal |-> FALSE,
      rawAllow  |-> raw ] :
      cs   \in {{c1}, {c1, c2}},
      list \in {{a1}, {a1, a2}},
      sel  \in {{s2}, {s2, AnySelector}},
      nat  \in {None, 1},
      cap  \in {None, 0, 2, 3},
      raw  \in {{}, {<<c1, a1, s1>>}} }

MCDecisions ==
  { d \in Normalized :
      /\ d.selector \in {s1, None}
      /\ d.value \in {0, 2}
      /\ d.amount \in {None, 1, 2}
      /\ d.chain = c2 => d.kind = "erc20_transfer" /\ d.amount = 1 }

=============================================================================
