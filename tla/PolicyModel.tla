----------------------------- MODULE PolicyModel -----------------------------
(***************************************************************************)
(* The deny-by-default policy DSL of crate executor-policy: the resolved   *)
(* policy (LoadedPolicy in model.rs), the decision the orchestrator hands  *)
(* to the evaluator, and the six-dimension evaluator itself (eval.rs) with *)
(* its cumulative ERC20 tally.  Pure operators; PolicyEval, RunPipeline    *)
(* and PolicyStore build their state machines on them.                     *)
(***************************************************************************)
EXTENDS Integers

CONSTANTS
  Chain,     \* chain ids
  Address,   \* contract, token and recipient addresses
  Selector,  \* 4-byte calldata selectors
  MaxU256,   \* largest U256 (2^256 - 1 in the code)
  None,      \* Rust's Option::None
  AnySelector  \* SelectorPattern::Any

ASSUME MaxU256Assumption == MaxU256 \in Nat
ASSUME NoneAssumption == None \notin Nat
ASSUME AnySelectorAssumption == AnySelector \notin Selector

U256 == 0..MaxU256

\* U256::saturating_add: at the type's limit the sum sticks, it never wraps.
SaturatingAdd(a, b) == IF a + b > MaxU256 THEN MaxU256 ELSE a + b

(* NormalizedActionKindCopy *)
Kind == {"contract_call", "raw_call", "erc20_transfer", "erc20_approve",
         "native_transfer"}
Erc20Kind == {"erc20_transfer", "erc20_approve"}

(* Decision; action_index is the position of the action in its run *)
Decision ==
  [ chain    : Chain,
    kind     : Kind,
    to       : Address,
    selector : Selector \cup {None},
    value    : U256,
    amount   : U256 \cup {None} ]

(* The five shapes normalize_action produces: an ERC20 action has a        *)
(* selector, an amount and no value, a native transfer has a value only.   *)
Normalized ==
  { d \in Decision :
      /\ (d.kind \in Erc20Kind) <=> (d.amount # None)
      /\ d.kind \in Erc20Kind => d.selector # None /\ d.value = 0
      /\ d.kind = "native_transfer" => d.selector = None
      /\ d.kind = "contract_call" => d.selector # None }

(***************************************************************************)
(* LoadedPolicy.  A missing [contracts.<chain>] sub-table is None; a       *)
(* missing selector list is the empty set, which the code treats alike.    *)
(***************************************************************************)
ChainContract == Chain \X Address
SelectorPattern == Selector \cup {AnySelector}

LoadedPolicy ==
  [ chains    : SUBSET Chain,
    contracts : [Chain -> (SUBSET Address) \cup {None}],
    selectors : [ChainContract -> SUBSET SelectorPattern],
    native    : [Chain -> U256 \cup {None}],
    erc20     : [ChainContract -> U256 \cup {None}],
    rawGlobal : BOOLEAN,
    rawAllow  : SUBSET (Chain \X Address \X SelectorPattern) ]

AllowsChain(p, c) == c \in p.chains

AllowsContract(p, c, a) ==
  /\ p.contracts[c] # None
  /\ a \in p.contracts[c]

AllowsSelector(p, c, a, s) ==
  \/ AnySelector \in p.selectors[<<c, a>>]
  \/ s \in p.selectors[<<c, a>>]

\* A chain without a native cap has cap 0.
NativeValueCap(p, c) == IF p.native[c] = None THEN 0 ELSE p.native[c]

\* Slip: an absent cap read as 0, as for native value.
Erc20SpendCapSlip(p, c, t) ==
  IF p.erc20[<<c, t>>] = None THEN 0 ELSE p.erc20[<<c, t>>]

\* A token without an ERC20 cap is uncapped: None, not 0.
Erc20SpendCap(p, c, t) == p.erc20[<<c, t>>]

\* s may be None (calldata shorter than four bytes): only Any admits it.
RawCallAllows(p, c, a, s) ==
  \/ p.rawGlobal
  \/ <<c, a, AnySelector>> \in p.rawAllow
  \/ s # None /\ <<c, a, s>> \in p.rawAllow

\* POL-06 for raw calls, POL-03 for everything else that has a selector.
AllowsCall(p, d) ==
  IF d.kind = "raw_call"
  THEN RawCallAllows(p, d.chain, d.to, d.selector)
  ELSE d.selector = None \/ AllowsSelector(p, d.chain, d.to, d.selector)

AllowsValue(p, d) == d.value <= NativeValueCap(p, d.chain)

(***************************************************************************)
(* The ERC20 dimension.  A tally maps (chain, token) to the amount allowed *)
(* so far in this run; an absent key of the HashMap is 0.                  *)
(***************************************************************************)
Tally == [ChainContract -> U256]
EmptyTally == [k \in ChainContract |-> 0]

CountsAsSpend(d) == d.kind \in Erc20Kind /\ d.amount # None
SpendKey(d) == <<d.chain, d.to>>

\* Slip: the cap is applied to each action alone.
NextSpendSlip(d, tally) == d.amount

NextSpend(d, tally) == SaturatingAdd(tally[SpendKey(d)], d.amount)

AllowsSpend(p, d, tally) ==
  \/ ~CountsAsSpend(d)
  \/ Erc20SpendCap(p, d.chain, d.to) = None
  \/ NextSpend(d, tally) <= Erc20SpendCap(p, d.chain, d.to)

Rule == {"chain_not_allowed", "contract_not_allowed", "raw_call_denied",
         "selector_not_allowed", "native_value_exceeds", "erc20_spend_exceeds"}

(* evaluate: the first dimension that denies names the rule.               *)
Evaluate(p, d, tally) ==
  IF ~AllowsChain(p, d.chain) THEN "chain_not_allowed"
  ELSE IF ~AllowsContract(p, d.chain, d.to) THEN "contract_not_allowed"
  ELSE IF ~AllowsCall(p, d)
       THEN IF d.kind = "raw_call" THEN "raw_call_denied"
                                   ELSE "selector_not_allowed"
  ELSE IF ~AllowsValue(p, d) THEN "native_value_exceeds"
  ELSE IF ~AllowsSpend(p, d, tally) THEN "erc20_spend_exceeds"
  ELSE "allow"

Allowed(p, d, tally) == Evaluate(p, d, tally) = "allow"

\* What evaluate leaves in erc20_tally: it is written on Allow only.
TallyAfter(p, d, tally) ==
  IF Allowed(p, d, tally) /\ CountsAsSpend(d)
  THEN [tally EXCEPT ![SpendKey(d)] = NextSpend(d, tally)]
  ELSE tally

-----------------------------------------------------------------------------
(* q grants at least what p grants.  The two "absent" conventions differ:  *)
(* no native cap is the least grant (0), no ERC20 cap the greatest.        *)
Wider(q, p) ==
  /\ p.chains \subseteq q.chains
  /\ \A c \in Chain :
       p.contracts[c] # None =>
         q.contracts[c] # None /\ p.contracts[c] \subseteq q.contracts[c]
  /\ \A k \in ChainContract : p.selectors[k] \subseteq q.selectors[k]
  /\ \A c \in Chain : NativeValueCap(p, c) <= NativeValueCap(q, c)
  /\ \A k \in ChainContract :
       \/ q.erc20[k] = None
       \/ p.erc20[k] # None /\ p.erc20[k] <= q.erc20[k]
  /\ p.rawGlobal => q.rawGlobal
  /\ p.rawAllow \subseteq q.rawAllow

=============================================================================
