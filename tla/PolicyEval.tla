------------------------------ MODULE PolicyEval ------------------------------
(***************************************************************************)
(* The policy evaluator as the orchestrator uses it: one policy snapshot,  *)
(* one tally that starts empty, and a sequence of calls to evaluate.  A    *)
(* caller that keeps calling after a denial is allowed here (the run       *)
(* pipeline stops at the first one), so what is shown holds for any use.   *)
(***************************************************************************)
EXTENDS PolicyModel

CONSTANTS Policies,   \* the policies considered
          Decisions,  \* the normalized decisions considered
          MaxCalls    \* bound on the number of evaluate calls

ASSUME PoliciesAssumption == Policies \subseteq LoadedPolicy
ASSUME DecisionsAssumption == Decisions \subseteq Decision
ASSUME MaxCallsAssumption == MaxCalls \in Nat

VARIABLES
  policy,   \* the snapshot
  tally,    \* erc20_tally
  verdict,  \* last verdict, None before the first call
  calls,    \* number of calls made
  spent     \* history: the true sum of the amounts allowed, per key

vars == <<policy, tally, verdict, calls, spent>>

Init ==
  /\ policy \in Policies
  /\ tally = EmptyTally
  /\ verdict = None
  /\ calls = 0
  /\ spent = EmptyTally

EvaluateCall(d) ==
  /\ calls < MaxCalls
  /\ calls' = calls + 1
  /\ verdict' = Evaluate(policy, d, tally)
  /\ tally' = TallyAfter(policy, d, tally)
  /\ spent' = IF Allowed(policy, d, tally) /\ CountsAsSpend(d)
              THEN [spent EXCEPT ![SpendKey(d)] = @ + d.amount]
              ELSE spent
  /\ UNCHANGED policy

Next == \E d \in Decisions : EvaluateCall(d)

Spec == Init /\ [][Next]_vars

-----------------------------------------------------------------------------
(* The tally holds U256 amounts, whatever the amounts sum up to; policy,   *)
(* verdict and counters hold what their types allow.                       *)
TypeOK ==
  /\ policy \in Policies
  /\ tally \in Tally
  /\ verdict \in Rule \cup {"allow", None}
  /\ calls \in 0..MaxCalls
  /\ spent \in [ChainContract -> Nat]

(* The tally is the true sum of the allowed amounts, up to the saturation  *)
(* of U256: no allowed action is missed and no denied one is counted       *)
(* (eval.rs: "tally INCREMENTS only on Allow").                            *)
TallyIsSpend ==
  \A k \in ChainContract :
    tally[k] = IF spent[k] > MaxU256 THEN MaxU256 ELSE spent[k]

(* POL-05: however many actions a run has and however they interleave      *)
(* transfers and approvals, what evaluate allows for one token stays within*)
(* the token's cap.  A cap of exactly U256::MAX cannot be exceeded by the  *)
(* saturated sum, so it bounds nothing: it means "no limit".               *)
SpendWithinCap ==
  \A k \in ChainContract :
    policy.erc20[k] # None /\ policy.erc20[k] < MaxU256
      => spent[k] <= policy.erc20[k]

(* Deny by default: a call on a chain or contract the policy does not name *)
(* never leaves a trace in the tally, whatever came before.                *)
UnlistedNeverSpends ==
  \A c \in Chain, a \in Address :
    \/ /\ c \in policy.chains
       /\ policy.contracts[c] # None /\ a \in policy.contracts[c]
    \/ spent[<<c, a>>] = 0

(* What a run may spend: the tally tells the truth, stays within the caps  *)
(* and never grows on what the policy does not name.                       *)
SpendSound == TallyIsSpend /\ SpendWithinCap /\ UnlistedNeverSpends

-----------------------------------------------------------------------------
(* Widening a policy never revokes: with the tally of this run, every      *)
(* decision the active policy allows is allowed by every wider policy.     *)
(* policy_set reports a diff of "newly granted capabilities" on this basis.*)
WideningNeverRevokes ==
  \A q \in Policies, d \in Decisions :
    Wider(q, policy) /\ Allowed(policy, d, tally) => Allowed(q, d, tally)

=============================================================================
