--------------------------- MODULE Policy_proofs ----------------------------
(***************************************************************************)
(* Proofs about the policy: the evaluator, for every policy, every         *)
(* decision and every U256 limit, and the texts a policy is loaded from,   *)
(* for every text.  The evaluator's inductive invariant is Inv: the spend  *)
(* bound is only inductive together with the fact that the tally is the    *)
(* (saturated) sum.                                                        *)
(***************************************************************************)
EXTENDS PolicyEval, PolicyTexts, FiniteSetTheorems, WellFoundedInduction, TLAPS

-----------------------------------------------------------------------------
(* The operators of the policy DSL.                                        *)

(* Allowed is the conjunction of the six dimensions.                       *)
LEMMA AllowedIff ==
  ASSUME NEW p, NEW d, NEW t
  PROVE  Allowed(p, d, t) <=>
           /\ AllowsChain(p, d.chain)
           /\ AllowsContract(p, d.chain, d.to)
           /\ AllowsCall(p, d)
           /\ AllowsValue(p, d)
           /\ AllowsSpend(p, d, t)
BY DEF Allowed, Evaluate

(* The verdict is a rule's name or "allow".                                *)
LEMMA EvaluateType ==
  ASSUME NEW p, NEW d, NEW t
  PROVE  Evaluate(p, d, t) \in Rule \cup {"allow"}
BY DEF Evaluate, Rule

(* A decision that counts as spend has an amount and a key.                *)
LEMMA SpendType ==
  ASSUME NEW d \in Decision, CountsAsSpend(d)
  PROVE  d.amount \in U256 /\ SpendKey(d) \in ChainContract
BY DEF Decision, CountsAsSpend, SpendKey, ChainContract

(* The saturating sum stays in U256.                                       *)
LEMMA NextSpendType ==
  ASSUME NEW d \in Decision, NEW t \in Tally, CountsAsSpend(d)
  PROVE  NextSpend(d, t) \in U256
<1>1. d.amount \in U256 /\ SpendKey(d) \in ChainContract
  BY SpendType
<1>2. t[SpendKey(d)] \in U256
  BY <1>1 DEF Tally
<1>3. QED
  BY <1>1, <1>2, MaxU256Assumption DEF NextSpend, SaturatingAdd, U256

LEMMA TallyAfterType ==
  ASSUME NEW p, NEW d \in Decision, NEW t \in Tally
  PROVE  TallyAfter(p, d, t) \in Tally
<1>1. CASE Allowed(p, d, t) /\ CountsAsSpend(d)
  <2>1. NextSpend(d, t) \in U256
    BY <1>1, NextSpendType
  <2>2. [t EXCEPT ![SpendKey(d)] = NextSpend(d, t)] \in Tally
    BY <2>1 DEF Tally
  <2>3. QED
    BY <1>1, <2>2 DEF TallyAfter
<1>2. CASE ~(Allowed(p, d, t) /\ CountsAsSpend(d))
  BY <1>2 DEF TallyAfter
<1>3. QED
  BY <1>1, <1>2

-----------------------------------------------------------------------------
(* Each dimension is monotone in the policy.                               *)
LEMMA WiderAllows ==
  ASSUME NEW p \in LoadedPolicy, NEW q \in LoadedPolicy, NEW d \in Decision,
         NEW t \in Tally, Wider(q, p), Allowed(p, d, t)
  PROVE  Allowed(q, d, t)
<1>0. d.chain \in Chain /\ d.to \in Address
  BY DEF Decision
<1>1. AllowsChain(q, d.chain)
  BY AllowedIff DEF AllowsChain, Wider
<1>2. AllowsContract(q, d.chain, d.to)
  BY <1>0, AllowedIff DEF AllowsContract, Wider
<1>3. AllowsCall(q, d)
  <2>1. AllowsCall(p, d)
    BY AllowedIff
  <2>2. <<d.chain, d.to>> \in ChainContract
    BY <1>0 DEF ChainContract
  <2>3. CASE d.kind = "raw_call"
    BY <2>1, <2>3 DEF AllowsCall, RawCallAllows, Wider
  <2>4. CASE d.kind # "raw_call"
    BY <2>1, <2>2, <2>4 DEF AllowsCall, AllowsSelector, Wider
  <2>5. QED
    BY <2>3, <2>4
<1>4. AllowsValue(q, d)
  <2>1. d.value <= NativeValueCap(p, d.chain)
    BY AllowedIff DEF AllowsValue
  <2>2. NativeValueCap(p, d.chain) <= NativeValueCap(q, d.chain)
    BY <1>0 DEF Wider
  <2>3. d.value \in Int
    BY MaxU256Assumption DEF Decision, U256
  <2>4. NativeValueCap(p, d.chain) \in Int /\ NativeValueCap(q, d.chain) \in Int
    BY <1>0, MaxU256Assumption DEF NativeValueCap, LoadedPolicy, U256
  <2>5. QED
    BY <2>1, <2>2, <2>3, <2>4 DEF AllowsValue
<1>5. AllowsSpend(q, d, t)
  <2>1. CASE ~CountsAsSpend(d)
    BY <2>1 DEF AllowsSpend
  <2>2. CASE CountsAsSpend(d)
    <3> DEFINE k == SpendKey(d)
    <3>1. k \in ChainContract /\ NextSpend(d, t) \in U256
      BY <2>2, SpendType, NextSpendType
    <3>2. p.erc20[k] = None \/ NextSpend(d, t) <= p.erc20[k]
      BY <2>2, AllowedIff DEF AllowsSpend, Erc20SpendCap, SpendKey
    <3>3. q.erc20[k] = None \/ (p.erc20[k] # None /\ p.erc20[k] <= q.erc20[k])
      BY <3>1 DEF Wider
    <3>4. p.erc20[k] \in U256 \cup {None} /\ q.erc20[k] \in U256 \cup {None}
      BY <3>1 DEF LoadedPolicy
    <3>5. q.erc20[k] = None \/ NextSpend(d, t) <= q.erc20[k]
      BY <3>1, <3>2, <3>3, <3>4 DEF U256
    <3>6. QED
      BY <3>5 DEF AllowsSpend, Erc20SpendCap, SpendKey
  <2>3. QED
    BY <2>1, <2>2
<1>6. QED
  BY <1>1, <1>2, <1>3, <1>4, <1>5, AllowedIff

-----------------------------------------------------------------------------
(* Every reachable state of the evaluator is well typed; in particular the *)
(* tally never leaves U256, whatever the amounts (saturating_add).         *)
THEOREM Typing == Spec => []TypeOK
<1>1. Init => TypeOK
  <2>1. EmptyTally \in Tally /\ EmptyTally \in [ChainContract -> Nat]
    BY MaxU256Assumption DEF EmptyTally, Tally, U256
  <2>2. QED
    BY <2>1, MaxCallsAssumption DEF Init, TypeOK
<1>2. TypeOK /\ [Next]_vars => TypeOK'
  <2> SUFFICES ASSUME TypeOK, [Next]_vars
               PROVE  TypeOK'
    OBVIOUS
  <2>1. ASSUME NEW d \in Decisions, EvaluateCall(d)
        PROVE  TypeOK'
    <3>1. d \in Decision
      BY DecisionsAssumption
    <3>2. policy' \in Policies /\ calls' \in 0..MaxCalls
      BY <2>1, MaxCallsAssumption DEF EvaluateCall, TypeOK
    <3>3. verdict' \in Rule \cup {"allow", None}
      BY <2>1, EvaluateType DEF EvaluateCall
    <3>4. tally' \in Tally
      BY <2>1, <3>1, TallyAfterType DEF EvaluateCall, TypeOK
    <3>5. spent' \in [ChainContract -> Nat]
      <4>1. CASE Allowed(policy, d, tally) /\ CountsAsSpend(d)
        <5>1. d.amount \in Nat /\ SpendKey(d) \in ChainContract
          BY <3>1, <4>1, SpendType DEF U256
        <5>2. spent[SpendKey(d)] + d.amount \in Nat
          BY <5>1 DEF TypeOK
        <5>3. QED
          BY <2>1, <4>1, <5>2 DEF EvaluateCall, TypeOK
      <4>2. CASE ~(Allowed(policy, d, tally) /\ CountsAsSpend(d))
        BY <2>1, <4>2 DEF EvaluateCall, TypeOK
      <4>3. QED
        BY <4>1, <4>2
    <3>6. QED
      BY <3>2, <3>3, <3>4, <3>5 DEF TypeOK
  <2>2. CASE UNCHANGED vars
    BY <2>2 DEF vars, TypeOK
  <2>3. QED
    BY <2>1, <2>2 DEF Next
<1>3. QED
  BY <1>1, <1>2, PTL DEF Spec

-----------------------------------------------------------------------------
Inv == TypeOK /\ TallyIsSpend /\ SpendWithinCap /\ UnlistedNeverSpends

(* How an allowed spend moves the tally and the true sum.                  *)
LEMMA SpendStep ==
  ASSUME TypeOK, NEW d \in Decisions, EvaluateCall(d), NEW k \in ChainContract
  PROVE  \/ tally'[k] = tally[k] /\ spent'[k] = spent[k]
         \/ /\ Allowed(policy, d, tally) /\ CountsAsSpend(d)
            /\ k = SpendKey(d)
            /\ d.amount \in U256
            /\ tally'[k] = SaturatingAdd(tally[k], d.amount)
            /\ spent'[k] = spent[k] + d.amount
<1>1. CASE Allowed(policy, d, tally) /\ CountsAsSpend(d)
  <2>1. d.amount \in U256 /\ SpendKey(d) \in ChainContract
    BY <1>1, SpendType, DecisionsAssumption
  <2>2. /\ tally' = [tally EXCEPT ![SpendKey(d)] = NextSpend(d, tally)]
        /\ spent' = [spent EXCEPT ![SpendKey(d)] = spent[SpendKey(d)] + d.amount]
    BY <1>1 DEF EvaluateCall, TallyAfter
  <2>3. QED
    BY <1>1, <2>1, <2>2 DEF TypeOK, Tally, NextSpend
<1>2. CASE ~(Allowed(policy, d, tally) /\ CountsAsSpend(d))
  BY <1>2 DEF EvaluateCall, TallyAfter
<1>3. QED
  BY <1>1, <1>2

LEMMA InitInv == Init /\ TypeOK => Inv
<1> SUFFICES ASSUME Init, TypeOK
             PROVE  Inv
  OBVIOUS
<1>1. \A k \in ChainContract : tally[k] = 0 /\ spent[k] = 0
  BY DEF Init, EmptyTally
<1>2. TallyIsSpend
  BY <1>1, MaxU256Assumption DEF TallyIsSpend
<1>3. SpendWithinCap
  <2>1. policy \in LoadedPolicy
    BY PoliciesAssumption DEF TypeOK
  <2>2. \A k \in ChainContract : policy.erc20[k] \in U256 \cup {None}
    BY <2>1 DEF LoadedPolicy
  <2>3. QED
    BY <1>1, <2>2 DEF SpendWithinCap, U256
<1>4. UnlistedNeverSpends
  BY <1>1 DEF UnlistedNeverSpends, ChainContract
<1>5. QED
  BY <1>2, <1>3, <1>4 DEF Inv

LEMMA StepInv ==
  ASSUME Inv, TypeOK', NEW d \in Decisions, EvaluateCall(d)
  PROVE  Inv'
<1> USE DEF Inv
<1>0. policy \in LoadedPolicy /\ policy' = policy
  BY PoliciesAssumption DEF TypeOK, EvaluateCall
<1>1. TallyIsSpend'
  <2> SUFFICES ASSUME NEW k \in ChainContract
               PROVE  tally'[k] = IF spent'[k] > MaxU256 THEN MaxU256
                                                         ELSE spent'[k]
    BY DEF TallyIsSpend
  <2>1. tally[k] \in U256 /\ spent[k] \in Nat
    BY DEF TypeOK, Tally
  <2>2. tally[k] = IF spent[k] > MaxU256 THEN MaxU256 ELSE spent[k]
    BY DEF TallyIsSpend
  <2>3. QED
    BY <2>1, <2>2, SpendStep, MaxU256Assumption DEF SaturatingAdd, U256
<1>2. SpendWithinCap'
  <2> SUFFICES ASSUME NEW k \in ChainContract,
                      policy.erc20[k] # None, policy.erc20[k] < MaxU256
               PROVE  spent'[k] <= policy.erc20[k]
    BY <1>0 DEF SpendWithinCap
  <2>1. policy.erc20[k] \in U256
    BY <1>0 DEF LoadedPolicy
  <2>2. spent[k] <= policy.erc20[k]
    BY DEF SpendWithinCap
  <2>3. tally[k] \in U256 /\ spent[k] \in Nat
    BY DEF TypeOK, Tally
  <2>4. ASSUME Allowed(policy, d, tally), CountsAsSpend(d), k = SpendKey(d),
               d.amount \in U256, spent'[k] = spent[k] + d.amount
        PROVE  spent'[k] <= policy.erc20[k]
    <3>1. AllowsSpend(policy, d, tally)
      BY <2>4, AllowedIff
    <3>2. SaturatingAdd(tally[k], d.amount) <= policy.erc20[k]
      BY <2>4, <3>1 DEF AllowsSpend, NextSpend, Erc20SpendCap, SpendKey
    <3>3. tally[k] = spent[k]
      BY <2>1, <2>2, <2>3, MaxU256Assumption DEF TallyIsSpend, U256
    <3>4. QED
      BY <2>1, <2>3, <2>4, <3>2, <3>3, MaxU256Assumption
      DEF SaturatingAdd, U256
  <2>5. QED
    BY <2>2, <2>4, SpendStep
<1>3. UnlistedNeverSpends'
  <2> SUFFICES ASSUME NEW c \in Chain, NEW a \in Address,
                      ~(AllowsChain(policy, c) /\ AllowsContract(policy, c, a))
               PROVE  spent'[<<c, a>>] = 0
    BY <1>0 DEF UnlistedNeverSpends, AllowsChain, AllowsContract
  <2>1. spent[<<c, a>>] = 0 /\ <<c, a>> \in ChainContract
    BY DEF UnlistedNeverSpends, ChainContract, AllowsChain, AllowsContract
  <2>2. ASSUME Allowed(policy, d, tally), <<c, a>> = SpendKey(d)
        PROVE  FALSE
    <3>1. c = d.chain /\ a = d.to
      BY <2>2 DEF SpendKey
    <3>2. QED
      BY <2>2, <3>1, AllowedIff
  <2>3. QED
    BY <2>1, <2>2, SpendStep
<1>4. QED
  BY <1>1, <1>2, <1>3

LEMMA Invariance == Spec => []Inv
<1>1. Init /\ TypeOK => Inv
  BY InitInv
<1>2. Inv /\ TypeOK' /\ [Next]_vars => Inv'
  <2> SUFFICES ASSUME Inv, TypeOK', [Next]_vars
               PROVE  Inv'
    OBVIOUS
  <2>1. CASE Next
    BY <2>1, StepInv DEF Next
  <2>2. CASE UNCHANGED vars
    BY <2>2 DEF vars, Inv, TypeOK, TallyIsSpend, SpendWithinCap,
                UnlistedNeverSpends, AllowsChain, AllowsContract
  <2>3. QED
    BY <2>1, <2>2
<1>3. QED
  BY <1>1, <1>2, Typing, PTL DEF Spec

(* The tally the evaluator keeps is the true sum of what it allowed.       *)
THEOREM TallyCorrect == Spec => []TallyIsSpend
<1>1. Inv => TallyIsSpend
  BY DEF Inv
<1>2. QED
  BY <1>1, Invariance, PTL

(* POL-05 for any number of calls: the allowed amounts of a token stay     *)
(* within its cap.                                                         *)
THEOREM SpendBounded == Spec => []SpendWithinCap
<1>1. Inv => SpendWithinCap
  BY DEF Inv
<1>2. QED
  BY <1>1, Invariance, PTL

(* Deny by default: nothing is ever spent on an unlisted chain or token.   *)
THEOREM DenyByDefault == Spec => []UnlistedNeverSpends
<1>1. Inv => UnlistedNeverSpends
  BY DEF Inv
<1>2. QED
  BY <1>1, Invariance, PTL

(* Tally, caps and deny by default together, for any number of calls.      *)
THEOREM SpendIsSound == Spec => []SpendSound
<1>1. Inv => SpendSound
  BY DEF Inv, SpendSound
<1>2. QED
  BY <1>1, Invariance, PTL

-----------------------------------------------------------------------------
(* Widening a policy never revokes a capability, for every pair of         *)
(* policies, every decision and every tally a run can have built up.       *)
THEOREM Widening == Spec => []WideningNeverRevokes
<1>1. TypeOK => WideningNeverRevokes
  BY PoliciesAssumption, DecisionsAssumption, WiderAllows
  DEF TypeOK, WideningNeverRevokes
<1>2. QED
  BY <1>1, Typing, PTL

-----------------------------------------------------------------------------
(* What a policy text means, for every text.                               *)

(* A text that is not refused passed every check, and its policy is one of *)
(* those the order of the hash maps leaves possible.                       *)
LEMMA ResolveAnswers ==
  ASSUME NEW cfg, NEW r \in Resolve(cfg), r.ok
  PROVE  /\ ContractErrors(cfg) = {}
         /\ SelectorErrors(cfg) = {}
         /\ r.val \in LoadedFrom(cfg)
         /\ \A p \in LoadedFrom(cfg) : p \in Loaded(Resolve(cfg))
<1> DEFINE refusals(S) == {Refuse(e) : e \in S}
<1>1. \A S : \A x \in refusals(S) : ~x.ok
  BY DEF Refuse
<1>2. ~Refuse("chain_missing_contracts_subtable").ok
  BY DEF Refuse
<1> HIDE DEF refusals
<1>3. /\ Resolve(cfg) = {Answer(p) : p \in LoadedFrom(cfg)}
      /\ ContractErrors(cfg) = {} /\ SelectorErrors(cfg) = {}
  BY <1>1, <1>2 DEF Resolve, refusals
<1>4. \A p : Answer(p).val = p /\ Answer(p).ok
  BY DEF Answer
<1>5. ASSUME NEW p \in LoadedFrom(cfg) PROVE p \in Loaded(Resolve(cfg))
  BY <1>3, <1>4 DEF Loaded
<1> QED
  BY <1>3, <1>4, <1>5

(* An accepted text has no address, pattern or chain that does not parse.  *)
LEMMA CheckedTexts ==
  ASSUME NEW cfg, ContractErrors(cfg) = {}, SelectorErrors(cfg) = {}
  PROVE  /\ \A k \in DOMAIN cfg.contracts :
              /\ k.n # None
              /\ \A s \in cfg.contracts[k] : ParseAddressLenient(s) # None
         /\ \A k \in DOMAIN cfg.selectors :
              k[1].n # None /\ ParseAddressLenient(k[2]) # None
<1>1. /\ None \notin KeyChains(cfg.contracts)
      /\ None \notin Addresses(UNION Range(cfg.contracts))
  BY DEF ContractErrors, BadIn
<1>2. /\ None \notin PairChains(cfg.selectors) /\ None \notin PairAddresses(cfg.selectors)
      /\ Split(cfg.selectors) = DOMAIN cfg.selectors
  BY DEF SelectorErrors, BadIn, Unsplit
<1>3. ASSUME NEW k \in DOMAIN cfg.contracts
      PROVE  k.n # None /\ \A s \in cfg.contracts[k] : ParseAddressLenient(s) # None
  <2>1. k.n # None
    BY <1>1 DEF KeyChains, ParseChainKey
  <2>2. cfg.contracts[k] \in Range(cfg.contracts)
    BY DEF Range
  <2>3. ASSUME NEW s \in cfg.contracts[k] PROVE ParseAddressLenient(s) # None
    <3>1. s \in UNION Range(cfg.contracts)
      BY <2>2
    <3> QED
      BY <1>1, <3>1 DEF Addresses
  <2> QED
    BY <2>1, <2>3
<1>4. ASSUME NEW k \in DOMAIN cfg.selectors
      PROVE  k[1].n # None /\ ParseAddressLenient(k[2]) # None
  BY <1>2 DEF PairChains, PairAddresses, ParseChainKey
<1> QED
  BY <1>3, <1>4

LEMMA ParsedAddress ==
  ASSUME NEW s, ParseAddressLenient(s) # None
  PROVE  ParseAddressLenient(s) = s.addr /\ s.letters \in {"lower", "upper", "checksummed"}
BY DEF ParseAddressLenient

LEMMA ListedAddresses ==
  ASSUME NEW cfg, IsText(cfg), ContractErrors(cfg) = {}, SelectorErrors(cfg) = {},
         NEW k \in DOMAIN cfg.contracts
  PROVE  Addresses(cfg.contracts[k]) \in SUBSET Address
<1>1. ASSUME NEW x \in cfg.contracts[k] PROVE ParseAddressLenient(x) \in Address
  <2>1. x \in AddressText
    BY <1>1 DEF IsText, IsTable
  <2>2. ParseAddressLenient(x) = x.addr
    BY <1>1, CheckedTexts, ParsedAddress
  <2> QED
    BY <2>1, <2>2 DEF AddressText
<1> QED
  BY <1>1 DEF Addresses

(* What a loaded policy holds under a key is what some text of that key    *)
(* says.                                                                   *)
ChainTexts(cfg, c) == {k \in DOMAIN cfg.contracts : ParseChainKey(k) = c}
PairTexts(cfg, k) == {t \in DOMAIN cfg.selectors : KeyOf(t) = k}

ContractOptions(cfg, c) ==
  IF ChainTexts(cfg, c) = {} THEN {None} ELSE {Addresses(cfg.contracts[k]) : k \in ChainTexts(cfg, c)}
SelectorOptions(cfg, k) ==
  IF PairTexts(cfg, k) = {} THEN {{}} ELSE {Patterns(cfg.selectors[t]) : t \in PairTexts(cfg, k)}

LEMMA LoadedShape ==
  ASSUME NEW cfg
  PROVE  /\ \A p \in LoadedFrom(cfg) :
              /\ p.contracts \in [Chain -> UNION {ContractOptions(cfg, c) : c \in Chain}]
              /\ \A c \in Chain : p.contracts[c] \in ContractOptions(cfg, c)
              /\ p.selectors \in [ChainContract -> UNION {SelectorOptions(cfg, k) : k \in ChainContract}]
              /\ \A k \in ChainContract : p.selectors[k] \in SelectorOptions(cfg, k)
         /\ LoadedFrom(cfg) # {} =>
              \A cs \in [Chain -> UNION {ContractOptions(cfg, c) : c \in Chain}],
                 ss \in [ChainContract -> UNION {SelectorOptions(cfg, k) : k \in ChainContract}] :
                /\ \A c \in Chain : cs[c] \in ContractOptions(cfg, c)
                /\ \A k \in ChainContract : ss[k] \in SelectorOptions(cfg, k)
                => \E q \in LoadedFrom(cfg) : q.contracts = cs /\ q.selectors = ss
<1> DEFINE CS == {f \in [Chain -> UNION {ContractOptions(cfg, c) : c \in Chain}] :
                     \A c \in Chain : f[c] \in ContractOptions(cfg, c)}
           SS == {f \in [ChainContract -> UNION {SelectorOptions(cfg, k) : k \in ChainContract}] :
                     \A k \in ChainContract : f[k] \in SelectorOptions(cfg, k)}
           native(c) == Survivors(cfg.native, ParseChainKey, c, ParseU256Decimal, None)
           erc20(k)  == Survivors(cfg.erc20, KeyOf, k, ParseU256Decimal, None)
           NS == Selections(Chain, native)
           ES == Selections(ChainContract, erc20)
           raw == {<<e[1], ParseAddressLenient(e[2]), ParseSelectorPattern(e[3])>> : e \in cfg.raw}
           Made(cs, ss, ns, es) ==
             [ chains |-> cfg.chains, contracts |-> cs, selectors |-> ss,
               native |-> ns, erc20 |-> es, rawGlobal |-> cfg.rawGlobal, rawAllow |-> raw ]
<1>1. LoadedFrom(cfg) = {Made(cs, ss, ns, es) : cs \in CS, ss \in SS, ns \in NS, es \in ES}
  BY DEF LoadedFrom, Selections, Survivors, ContractOptions, SelectorOptions, ChainTexts, PairTexts
<1>2. \A cs, ss, ns, es : Made(cs, ss, ns, es).contracts = cs /\ Made(cs, ss, ns, es).selectors = ss
  OBVIOUS
<1> HIDE DEF CS, SS, NS, ES, raw, Made
<1>3. ASSUME NEW p \in LoadedFrom(cfg)
      PROVE  \E cs \in CS, ss \in SS, ns \in NS, es \in ES : p = Made(cs, ss, ns, es)
  BY <1>1
<1>4. ASSUME NEW p \in LoadedFrom(cfg) PROVE p.contracts \in CS /\ p.selectors \in SS
  BY <1>2, <1>3
<1>5. ASSUME LoadedFrom(cfg) # {}, NEW cs \in CS, NEW ss \in SS
      PROVE  \E q \in LoadedFrom(cfg) : q.contracts = cs /\ q.selectors = ss
  <2>1. PICK ns \in NS, es \in ES : TRUE
    BY <1>3, <1>5
  <2>2. Made(cs, ss, ns, es) \in LoadedFrom(cfg)
    BY <1>1
  <2> QED
    BY <1>2, <2>2
<1> QED
  BY <1>4, <1>5 DEF CS, SS

(* The gates of a loaded policy are those of its text, its caps numbers.   *)
RawEntries(cfg) ==
  {<<e[1], ParseAddressLenient(e[2]), ParseSelectorPattern(e[3])>> : e \in cfg.raw}

LEMMA LoadedGates ==
  ASSUME NEW cfg, IsText(cfg), NEW p \in LoadedFrom(cfg)
  PROVE  /\ p.chains = cfg.chains /\ p.rawGlobal = cfg.rawGlobal /\ p.rawAllow = RawEntries(cfg)
         /\ \A c \in Chain : p.native[c] \in Nat \cup {None}
         /\ \A k \in ChainContract : p.erc20[k] \in Nat \cup {None}
<1> DEFINE contracts(c) == Survivors(cfg.contracts, ParseChainKey, c, Addresses, None)
           selectors(k) == Survivors(cfg.selectors, KeyOf, k, Patterns, {})
           native(c) == Survivors(cfg.native, ParseChainKey, c, ParseU256Decimal, None)
           erc20(k)  == Survivors(cfg.erc20, KeyOf, k, ParseU256Decimal, None)
           CS == Selections(Chain, contracts)
           SS == Selections(ChainContract, selectors)
           NS == Selections(Chain, native)
           ES == Selections(ChainContract, erc20)
           Made(cs, ss, ns, es) ==
             [ chains |-> cfg.chains, contracts |-> cs, selectors |-> ss,
               native |-> ns, erc20 |-> es, rawGlobal |-> cfg.rawGlobal,
               rawAllow |-> RawEntries(cfg) ]
<1>1. LoadedFrom(cfg) = {Made(cs, ss, ns, es) : cs \in CS, ss \in SS, ns \in NS, es \in ES}
  BY DEF LoadedFrom, RawEntries
<1>2. \A cs, ss, ns, es :
        /\ Made(cs, ss, ns, es).chains = cfg.chains
        /\ Made(cs, ss, ns, es).rawGlobal = cfg.rawGlobal
        /\ Made(cs, ss, ns, es).rawAllow = RawEntries(cfg)
        /\ Made(cs, ss, ns, es).native = ns /\ Made(cs, ss, ns, es).erc20 = es
  OBVIOUS
<1>3. \A ns \in NS : \A c \in Chain : ns[c] \in Nat \cup {None}
  <2>1. ASSUME NEW c \in Chain PROVE native(c) \subseteq Nat \cup {None}
    BY DEF Survivors, ParseU256Decimal, IsText, IsTable, CapText
  <2> QED
    BY <2>1 DEF Selections
<1>4. \A es \in ES : \A k \in ChainContract : es[k] \in Nat \cup {None}
  <2>1. ASSUME NEW k \in ChainContract PROVE erc20(k) \subseteq Nat \cup {None}
    BY DEF Survivors, ParseU256Decimal, IsText, IsTable, CapText
  <2> QED
    BY <2>1 DEF Selections
<1> HIDE DEF CS, SS, NS, ES, Made
<1>5. PICK cs \in CS, ss \in SS, ns \in NS, es \in ES : p = Made(cs, ss, ns, es)
  BY <1>1
<1> QED
  BY <1>2, <1>3, <1>4, <1>5

(* A call that moves nothing is within every cap, so that its chain, its   *)
(* contract and its call decide.                                           *)
LEMMA PlainAllowed ==
  ASSUME NEW cfg, IsText(cfg), NEW p \in LoadedFrom(cfg), NEW d \in PlainCalls
  PROVE  Allowed(p, d, EmptyTally) <=>
           /\ AllowsChain(p, d.chain) /\ AllowsContract(p, d.chain, d.to)
           /\ AllowsCall(p, d)
<1>1. /\ d.chain \in Chain /\ <<d.chain, d.to>> \in ChainContract
      /\ d.value = 0 /\ d.amount \in {None, 0}
  BY DEF PlainCalls, Normalized, Decision, ChainContract
<1>2. p.native[d.chain] \in Nat \cup {None} /\ p.erc20[<<d.chain, d.to>>] \in Nat \cup {None}
  BY <1>1, LoadedGates
<1>3. AllowsValue(p, d)
  BY <1>1, <1>2 DEF AllowsValue, NativeValueCap
<1>4. AllowsSpend(p, d, EmptyTally)
  <2>1. CASE ~CountsAsSpend(d)
    BY <2>1 DEF AllowsSpend
  <2>2. CASE CountsAsSpend(d)
    <3>1. d.amount = 0 /\ EmptyTally[SpendKey(d)] = 0
      BY <1>1, <2>2 DEF CountsAsSpend, SpendKey, EmptyTally
    <3>2. NextSpend(d, EmptyTally) = 0
      BY <3>1, MaxU256Assumption DEF NextSpend, SaturatingAdd
    <3> QED
      BY <1>2, <3>2 DEF AllowsSpend, Erc20SpendCap
  <2> QED
    BY <2>1, <2>2
<1> QED
  BY <1>3, <1>4, AllowedIff

-----------------------------------------------------------------------------
(* The order of the texts of a chain is total, so that one of finitely     *)
(* many comes first and the contract of an aligned call has a chain.       *)
Texts == [n : Nat, pad : Nat]

LEMMA TextsOrdered ==
  ASSUME NEW k \in Texts, NEW l \in Texts, k # l
  PROVE  TextBefore(k, l) \/ TextBefore(l, k)
BY DEF Texts, TextBefore

LEMMA TextsTransitive ==
  ASSUME NEW k \in Texts, NEW l \in Texts, NEW m \in Texts, TextBefore(k, l), TextBefore(l, m)
  PROVE  TextBefore(k, m)
BY DEF Texts, TextBefore

LEMMA FirstText ==
  ASSUME NEW S \in SUBSET Texts, IsFiniteSet(S), S # {}
  PROVE  \E k \in S : \A l \in S : k = l \/ TextBefore(k, l)
<1> DEFINE First(T, k) == \A l \in T : k = l \/ TextBefore(k, l)
           Headless == {T \in SUBSET S : T # {} /\ ~\E k \in T : First(T, k)}
<1>1. SUFFICES ASSUME Headless # {} PROVE FALSE
  OBVIOUS
<1>2. PICK T \in Headless : \A U \in Headless : ~(<<U, T>> \in StrictSubsetOrdering(S))
  <2>1. IsWellFoundedOn(StrictSubsetOrdering(S), FiniteSubsetsOf(S))
    BY FS_StrictSubsetOrderingWellFounded
  <2>2. Headless \subseteq FiniteSubsetsOf(S)
    BY FS_FiniteSubsetsOfFinite
  <2> HIDE DEF Headless
  <2> QED
    BY <1>1, <2>1, <2>2, WFMin
<1>3. PICK x \in T : TRUE
  OBVIOUS
<1> DEFINE U == T \ {x}
<1>4. U # {}
  <2>1. U = {} => First(T, x)
    OBVIOUS
  <2> QED
    BY <2>1
<1>5. PICK f \in U : First(U, f)
  <2>1. <<U, T>> \in StrictSubsetOrdering(S)
    BY <1>3 DEF StrictSubsetOrdering
  <2> QED
    BY <1>2, <1>4, <2>1
<1>6. x \in Texts /\ f \in Texts /\ \A l \in T : l \in Texts
  OBVIOUS
<1>7. CASE TextBefore(f, x)
  <2>1. First(T, f)
    BY <1>5, <1>7
  <2> QED
    BY <1>5, <2>1
<1>8. CASE TextBefore(x, f)
  <2>1. ASSUME NEW l \in T, l # x, l # f PROVE TextBefore(x, l)
    <3>1. TextBefore(f, l)
      BY <1>5, <2>1
    <3> QED
      BY <1>6, <1>8, <3>1, TextsTransitive
  <2>2. First(T, x)
    BY <1>8, <2>1
  <2> QED
    BY <1>3, <2>2
<1> QED
  BY <1>5, <1>6, <1>7, <1>8, TextsOrdered

(* Of finitely many spellings of one contract the index keeps one.         *)
LEMMA SomeKept ==
  ASSUME NEW cfg, NEW a, SelectorTexts(cfg, a) # {},
         \A k \in SelectorTexts(cfg, a) : k[2].letters \in {"lower", "upper", "checksummed"}
  PROVE  KeptTexts(cfg, a) # {}
<1> DEFINE S == SelectorTexts(cfg, a)
<1>1. /\ Rank["lower"] = 3 /\ Rank["checksummed"] = 2 /\ Rank["upper"] = 1
  BY DEF Rank
<1>2. \E k \in S : \A l \in S : Rank[l[2].letters] <= Rank[k[2].letters]
  <2>1. CASE \E k \in S : k[2].letters = "lower"
    BY <1>1, <2>1
  <2>2. CASE ~(\E k \in S : k[2].letters = "lower") /\ \E k \in S : k[2].letters = "checksummed"
    BY <1>1, <2>2
  <2>3. CASE \A k \in S : k[2].letters = "upper"
    BY <1>1, <2>3
  <2> QED
    BY <2>1, <2>2, <2>3
<1> QED
  BY <1>2 DEF KeptTexts

(* The chain the alignment looks a listed contract up under lists it.      *)
LEMMA LookupLists ==
  ASSUME NEW cfg, NEW a, IsText(cfg), ContractErrors(cfg) = {}, SelectorErrors(cfg) = {},
         Chain \subseteq Nat, ChainsListing(cfg, a) # {}
  PROVE  LookupChain(cfg, a) \in ChainsListing(cfg, a)
<1> DEFINE S == ChainsListing(cfg, a)
<1>1. S \in SUBSET Texts
  <2>1. ASSUME NEW k \in DOMAIN cfg.contracts PROVE k \in Texts
    <3>1. k \in ChainText /\ k.n # None
      BY CheckedTexts DEF IsText, IsTable
    <3> QED
      BY <3>1 DEF ChainText, Texts
  <2> QED
    BY <2>1 DEF ChainsListing
<1>2. IsFiniteSet(S)
  <2>1. IsFiniteSet(DOMAIN cfg.contracts) /\ S \subseteq DOMAIN cfg.contracts
    BY DEF IsText, IsTable, ChainsListing
  <2> QED
    BY <2>1, FS_Subset
<1> HIDE DEF S
<1>3. \E k \in S : \A l \in S : k = l \/ TextBefore(k, l)
  BY <1>1, <1>2, FirstText DEF S
<1> QED
  BY <1>3 DEF S, LookupChain

(* A contract the alignment finds covered is admitted with every selector  *)
(* on the chain it was looked up under, whatever the policy made of the    *)
(* text, unless two keys of the text mean the same.                        *)
LEMMA CoveredIsAdmitted ==
  ASSUME NEW cfg, NEW a, NEW p, IsText(cfg), ContractErrors(cfg) = {}, SelectorErrors(cfg) = {},
         Chain \subseteq Nat, \A S \in SUBSET Address : S # None,
         p \in LoadedFrom(cfg), ~Collides(cfg), Coverage(cfg, a) = "covered"
  PROVE  \E c \in Chain :
            /\ AllowsContract(p, c, a)
            /\ \A s \in Selector : AllowsSelector(p, c, a, s)
<1> DEFINE k == LookupChain(cfg, a)
           c == ParseChainKey(k)
<1>1. /\ ChainsListing(cfg, a) # {} /\ SelectorTexts(cfg, a) # {}
      /\ \A t \in KeptTexts(cfg, a) : ListsAny(cfg, t)
  BY DEF Coverage
<1>2. k \in DOMAIN cfg.contracts /\ LowerText(a) \in {AsciiLower(s) : s \in cfg.contracts[k]}
  BY <1>1, LookupLists DEF ChainsListing
<1>3. c \in Chain
  <2>1. k \in ChainText /\ k.n # None
    BY <1>2, CheckedTexts DEF IsText, IsTable
  <2> QED
    BY <2>1 DEF ChainText, ParseChainKey
<1>4. PICK s \in cfg.contracts[k] : AsciiLower(s) = LowerText(a)
  BY <1>2
<1>5. s.addr = a /\ ParseAddressLenient(s) = a /\ a \in Address
  <2>1. s.addr = a
    BY <1>4 DEF AsciiLower, LowerText
  <2>2. ParseAddressLenient(s) = s.addr
    BY <1>2, <1>4, CheckedTexts, ParsedAddress
  <2>3. s \in AddressText
    BY <1>2, <1>4 DEF IsText, IsTable
  <2> QED
    BY <2>1, <2>2, <2>3 DEF AddressText
<1>6. AllowsContract(p, c, a)
  <2>1. ChainTexts(cfg, c) = {k}
    BY <1>2 DEF ChainTexts, Collides
  <2>2. p.contracts[c] = Addresses(cfg.contracts[k])
    <3>1. p.contracts[c] \in ContractOptions(cfg, c)
      BY <1>3, LoadedShape
    <3>2. ContractOptions(cfg, c) = {Addresses(cfg.contracts[k])}
      BY <2>1 DEF ContractOptions
    <3> QED
      BY <3>1, <3>2
  <2>3. a \in Addresses(cfg.contracts[k])
    BY <1>4, <1>5 DEF Addresses
  <2>4. Addresses(cfg.contracts[k]) \in SUBSET Address
    BY <1>2, ListedAddresses
  <2> QED
    BY <2>2, <2>3, <2>4 DEF AllowsContract
<1>7. PICK t \in KeptTexts(cfg, a) : TRUE
  <2>1. ASSUME NEW u \in SelectorTexts(cfg, a) PROVE u[2].letters \in {"lower", "upper", "checksummed"}
    <3>1. u \in DOMAIN cfg.selectors
      BY DEF SelectorTexts
    <3> QED
      BY <3>1, CheckedTexts, ParsedAddress
  <2> QED
    BY <1>1, <2>1, SomeKept
<1>8. t \in DOMAIN cfg.selectors /\ t[1] = k /\ t[2].addr = a
  BY <1>7 DEF KeptTexts, SelectorTexts, AsciiLower, LowerText
<1>9. KeyOf(t) = <<c, a>>
  <2>1. ParseAddressLenient(t[2]) = t[2].addr
    BY <1>8, CheckedTexts, ParsedAddress
  <2> QED
    BY <1>8, <2>1 DEF KeyOf
<1>10. p.selectors[<<c, a>>] = Patterns(cfg.selectors[t])
  <2>1. PairTexts(cfg, <<c, a>>) = {t}
    <3>1. ASSUME NEW u \in DOMAIN cfg.selectors, KeyOf(u) = <<c, a>> PROVE u = t
      BY <1>8, <1>9, <3>1 DEF Collides
    <3> QED
      BY <1>8, <1>9, <3>1 DEF PairTexts
  <2>2. <<c, a>> \in ChainContract
    BY <1>3, <1>5 DEF ChainContract
  <2>3. p.selectors[<<c, a>>] \in SelectorOptions(cfg, <<c, a>>)
    BY <2>2, LoadedShape
  <2>4. SelectorOptions(cfg, <<c, a>>) = {Patterns(cfg.selectors[t])}
    BY <2>1 DEF SelectorOptions
  <2> QED
    BY <2>3, <2>4
<1>11. AnySelector \in Patterns(cfg.selectors[t])
  <2>1. PICK q \in cfg.selectors[t] : q.shape = "any"
    BY <1>1, <1>7 DEF ListsAny
  <2>2. ParseSelectorPattern(q) = AnySelector
    BY <2>1 DEF ParseSelectorPattern
  <2> QED
    BY <2>1, <2>2 DEF Patterns
<1> QED
  BY <1>3, <1>6, <1>10, <1>11 DEF AllowsSelector

(* Every answer of a strategy's alignment keeps the promise.               *)
LEMMA AlignedIsAdmitted ==
  ASSUME AlignStrategy
  PROVE  SatisfiedIsAdmitted'
<1>1. PICK source \in Sources, file \in Files :
        LET touched  == Extract(source)
            policies == {r.val : r \in {r \in LoadPolicyFromPath(file, MaxFile) : r.ok}}
        IN  doc' = [topic |-> "align", touched |-> touched, file |-> file, policies |-> policies,
                    verdict |-> ComputeAlignment({touched}, IF policies = {} THEN {} ELSE {file.cfg})]
  BY DEF AlignStrategy, Enter
<1> DEFINE touched  == Extract(source)
           policies == {r.val : r \in {r \in LoadPolicyFromPath(file, MaxFile) : r.ok}}
           answer == ComputeAlignment({touched}, IF policies = {} THEN {} ELSE {file.cfg})
<1>2. /\ doc'.touched = touched /\ doc'.file = file /\ doc'.policies = policies
      /\ doc'.verdict = answer
  BY <1>1
<1>3. SUFFICES ASSUME answer = "satisfied", ~Collides(file.cfg),
                      NEW p \in policies, NEW e \in touched.contracts
               PROVE  \E c \in Chain :
                         /\ AllowsContract(p, c, e[1])
                         /\ \A s \in Selector : AllowsSelector(p, c, e[1], s)
  BY <1>2 DEF SatisfiedIsAdmitted
<1> HIDE DEF touched
<1>4. PICK r \in LoadPolicyFromPath(file, MaxFile) : r.ok /\ p = r.val
  OBVIOUS
<1>5. file.state = "toml" /\ r \in Resolve(file.cfg)
  <2>1. \A why : ~Refuse(why).ok
    BY DEF Refuse
  <2> QED
    BY <1>4, <2>1, TextsAssumption DEF LoadPolicyFromPath
<1>6. /\ ContractErrors(file.cfg) = {} /\ SelectorErrors(file.cfg) = {}
      /\ p \in LoadedFrom(file.cfg) /\ IsText(file.cfg)
  BY <1>4, <1>5, ResolveAnswers, TextsAssumption
<1>7. Coverage(file.cfg, e[1]) = "covered"
  <2>1. answer = ComputeAlignment({touched}, {file.cfg})
    BY <1>3
  <2>2. ASSUME NEW x PROVE (CHOOSE y \in {x} : TRUE) = x
    OBVIOUS
  <2> HIDE DEF answer, policies
  <2>3. {Coverage(file.cfg, x[1]) : x \in touched.contracts} \subseteq {"covered"}
    BY <1>3, <2>1, <2>2 DEF ComputeAlignment
  <2> QED
    BY <2>3
<1> QED
  BY <1>3, <1>6, <1>7, TextsAssumption, CoveredIsAdmitted

(* An aligned strategy is admitted by the policy it was aligned with.      *)
THEOREM AlignmentHolds == SpecTexts => []SatisfiedIsAdmitted
<1>1. Unread => SatisfiedIsAdmitted
  BY DEF Unread, SatisfiedIsAdmitted
<1>2. SatisfiedIsAdmitted /\ [NextText]_doc => SatisfiedIsAdmitted'
  <2>1. ASSUME ReplacePolicy PROVE SatisfiedIsAdmitted'
    BY <2>1 DEF ReplacePolicy, Enter, SatisfiedIsAdmitted
  <2>2. ASSUME SatisfiedIsAdmitted, UNCHANGED doc PROVE SatisfiedIsAdmitted'
    BY <2>2 DEF SatisfiedIsAdmitted
  <2> QED
    BY <2>1, <2>2, AlignedIsAdmitted DEF NextText
<1> QED
  BY <1>1, <1>2, PTL DEF SpecTexts

-----------------------------------------------------------------------------
(* What policy_set announces.                                              *)

(* An address the new list of a key means is announced under it or was     *)
(* listed under the same key before.                                       *)
LEMMA ListedBefore ==
  ASSUME NEW old, NEW new, ContractErrors(old) = {}, SelectorErrors(old) = {},
         ContractErrors(new) = {}, SelectorErrors(new) = {},
         NEW k \in DOMAIN new.contracts, NEW x \in new.contracts[k],
         <<k, x>> \notin NewContracts(old, new)
  PROVE  /\ k \in DOMAIN old.contracts
         /\ ParseAddressLenient(x) \in Addresses(old.contracts[k])
<1>1. <<k, x>> \in (DOMAIN new.contracts) \X UNION Range(new.contracts)
  BY DEF Range
<1>2. AsciiLower(x) \in {AsciiLower(o) : o \in Listed(old.contracts, k)}
  BY <1>1 DEF NewContracts
<1>3. k \in DOMAIN old.contracts /\ Listed(old.contracts, k) = old.contracts[k]
  BY <1>2 DEF Listed
<1>4. PICK o \in old.contracts[k] : AsciiLower(o) = AsciiLower(x)
  BY <1>2, <1>3
<1>5. ParseAddressLenient(o) = ParseAddressLenient(x)
  <2>1. o.addr = x.addr
    BY <1>4 DEF AsciiLower
  <2>2. ParseAddressLenient(o) = o.addr
    BY <1>3, <1>4, CheckedTexts, ParsedAddress
  <2>3. ParseAddressLenient(x) = x.addr
    BY CheckedTexts, ParsedAddress
  <2> QED
    BY <2>1, <2>2, <2>3
<1> QED
  BY <1>3, <1>4, <1>5 DEF Addresses

LEMMA PatternBefore ==
  ASSUME NEW old, NEW new, SelectorErrors(new) = {}, NEW t \in DOMAIN new.selectors, NEW y \in new.selectors[t],
         <<t, y>> \notin NewSelectors(old, new)
  PROVE  t \in DOMAIN old.selectors /\ y \in old.selectors[t]
<1>1. <<t, y>> \in Split(new.selectors) \X UNION Range(new.selectors)
  BY DEF Range, SelectorErrors, Unsplit
<1> QED
  BY <1>1 DEF NewSelectors, Listed

(* What texts of two tables list together, some loading of the text holds: *)
(* the survivors of each key are drawn independently.                      *)
LEMMA SomeLoading ==
  ASSUME NEW cfg, IsText(cfg), ContractErrors(cfg) = {}, SelectorErrors(cfg) = {},
         \A S \in SUBSET Address : S # None, LoadedFrom(cfg) # {},
         NEW c \in Chain, NEW a \in Address,
         NEW k \in ChainTexts(cfg, c), a \in Addresses(cfg.contracts[k]),
         NEW listed \in SelectorOptions(cfg, <<c, a>>)
  PROVE  \E p \in LoadedFrom(cfg) : AllowsContract(p, c, a) /\ p.selectors[<<c, a>>] = listed
<1>1. PICK p \in LoadedFrom(cfg) : TRUE
  OBVIOUS
<1> DEFINE cs == [p.contracts EXCEPT ![c] = Addresses(cfg.contracts[k])]
           ss == [p.selectors EXCEPT ![<<c, a>>] = listed]
<1>2. Addresses(cfg.contracts[k]) \in ContractOptions(cfg, c)
  BY DEF ContractOptions
<1>3. <<c, a>> \in ChainContract
  BY DEF ChainContract
<1>4. /\ cs \in [Chain -> UNION {ContractOptions(cfg, d) : d \in Chain}]
      /\ \A d \in Chain : cs[d] \in ContractOptions(cfg, d)
      /\ cs[c] = Addresses(cfg.contracts[k])
  <2>1. p.contracts \in [Chain -> UNION {ContractOptions(cfg, d) : d \in Chain}]
    BY LoadedShape
  <2>2. \A d \in Chain : p.contracts[d] \in ContractOptions(cfg, d)
    BY LoadedShape
  <2> QED
    BY <1>2, <2>1, <2>2
<1>5. /\ ss \in [ChainContract -> UNION {SelectorOptions(cfg, d) : d \in ChainContract}]
      /\ \A d \in ChainContract : ss[d] \in SelectorOptions(cfg, d)
      /\ ss[<<c, a>>] = listed
  <2>1. p.selectors \in [ChainContract -> UNION {SelectorOptions(cfg, d) : d \in ChainContract}]
    BY LoadedShape
  <2>2. \A d \in ChainContract : p.selectors[d] \in SelectorOptions(cfg, d)
    BY LoadedShape
  <2> QED
    BY <1>3, <2>1, <2>2
<1> HIDE DEF cs, ss
<1>6. PICK made \in LoadedFrom(cfg) : made.contracts = cs /\ made.selectors = ss
  <2>1. \A xs \in [Chain -> UNION {ContractOptions(cfg, d) : d \in Chain}],
           ys \in [ChainContract -> UNION {SelectorOptions(cfg, d) : d \in ChainContract}] :
          /\ \A d \in Chain : xs[d] \in ContractOptions(cfg, d)
          /\ \A d \in ChainContract : ys[d] \in SelectorOptions(cfg, d)
          => \E l \in LoadedFrom(cfg) : l.contracts = xs /\ l.selectors = ys
    BY LoadedShape, Zenon
  <2> QED
    BY <1>4, <1>5, <2>1
<1>7. AllowsContract(made, c, a)
  <2>1. k \in DOMAIN cfg.contracts
    BY DEF ChainTexts
  <2>2. Addresses(cfg.contracts[k]) # None
    BY <2>1, ListedAddresses
  <2> QED
    BY <1>4, <1>6, <2>2 DEF AllowsContract
<1> QED
  BY <1>5, <1>6, <1>7

(* The contract of an opened call that is not announced was listed before, *)
(* under the same key.                                                     *)
LEMMA ContractBefore ==
  ASSUME NEW old, NEW new, ContractErrors(old) = {}, SelectorErrors(old) = {},
         ContractErrors(new) = {}, SelectorErrors(new) = {}, NEW p \in LoadedFrom(new),
         NEW c \in Chain, NEW a \in Address, AllowsContract(p, c, a),
         ~\E g \in NewContracts(old, new) : ParseChainKey(g[1]) = c /\ ParseAddressLenient(g[2]) = a
  PROVE  \E k \in ChainTexts(old, c) : a \in Addresses(old.contracts[k])
<1>1. PICK k \in ChainTexts(new, c) : p.contracts[c] = Addresses(new.contracts[k])
  <2>1. p.contracts[c] \in ContractOptions(new, c) /\ p.contracts[c] # None
    BY LoadedShape DEF AllowsContract
  <2> QED
    BY <2>1 DEF ContractOptions
<1>2. PICK x \in new.contracts[k] : ParseAddressLenient(x) = a
  BY <1>1 DEF AllowsContract, Addresses
<1>3. k \in DOMAIN new.contracts /\ ParseChainKey(k) = c
  BY <1>1 DEF ChainTexts
<1>4. <<k, x>> \notin NewContracts(old, new)
  BY <1>2, <1>3
<1>5. k \in DOMAIN old.contracts /\ ParseAddressLenient(x) \in Addresses(old.contracts[k])
  BY <1>2, <1>3, <1>4, ListedBefore
<1> QED
  BY <1>2, <1>3, <1>5 DEF ChainTexts

(* So was its selector.                                                    *)
LEMMA SelectorBefore ==
  ASSUME NEW old, NEW new, SelectorErrors(new) = {}, NEW p \in LoadedFrom(new),
         NEW c \in Chain, NEW a \in Address, NEW s, AllowsSelector(p, c, a, s),
         ~\E g \in NewSelectors(old, new) :
             KeyOf(g[1]) = <<c, a>> /\ ParseSelectorPattern(g[2]) \in {s, AnySelector}
  PROVE  \E t \in PairTexts(old, <<c, a>>) : \E q \in Patterns(old.selectors[t]) : q \in {s, AnySelector}
<1>1. PICK q \in p.selectors[<<c, a>>] : q \in {s, AnySelector}
  BY DEF AllowsSelector
<1>2. PICK t \in PairTexts(new, <<c, a>>) : p.selectors[<<c, a>>] = Patterns(new.selectors[t])
  <2>1. <<c, a>> \in ChainContract
    BY DEF ChainContract
  <2>2. p.selectors[<<c, a>>] \in SelectorOptions(new, <<c, a>>)
    BY <2>1, LoadedShape
  <2> QED
    BY <1>1, <2>2 DEF SelectorOptions
<1>3. PICK y \in new.selectors[t] : ParseSelectorPattern(y) = q
  BY <1>1, <1>2 DEF Patterns
<1>4. t \in DOMAIN new.selectors /\ KeyOf(t) = <<c, a>>
  BY <1>2 DEF PairTexts
<1>5. <<t, y>> \notin NewSelectors(old, new)
  BY <1>1, <1>3, <1>4
<1>6. t \in DOMAIN old.selectors /\ y \in old.selectors[t]
  BY <1>3, <1>4, <1>5, PatternBefore
<1> QED
  BY <1>1, <1>3, <1>4, <1>6 DEF PairTexts, Patterns

(* Every answer of a replacement keeps the promise.                        *)
LEMMA ReplacementAnnounced ==
  ASSUME ReplacePolicy
  PROVE  NewCallsAnnounced'
<1>1. PICK r \in Revisions :
        doc' = [topic |-> "policy", old |-> Resolve(r[1]), new |-> Resolve(r[2]),
                granted |-> NewCapabilitiesGranted(r[1], r[2])]
  BY DEF ReplacePolicy, Enter
<1> DEFINE old == r[1]
           new == r[2]
<1>2. /\ doc'.old = Resolve(old) /\ doc'.new = Resolve(new)
      /\ doc'.granted.contracts = NewContracts(old, new)
      /\ doc'.granted.selectors = NewSelectors(old, new)
      /\ doc'.granted.raw <=> ~old.rawGlobal /\ new.rawGlobal
  BY <1>1 DEF NewCapabilitiesGranted
<1>3. IsText(old) /\ IsText(new)
  BY TextsAssumption
<1> HIDE DEF old, new
<1>4. SUFFICES ASSUME Loaded(Resolve(old)) # {}, NEW d \in PlainCalls,
                      Admits(Loaded(Resolve(new)), d),
                      ~Announced(d)', ~ByChain(d)', ~ByRawEntry(d)'
               PROVE  Admits(Loaded(Resolve(old)), d)
  BY <1>2 DEF NewCallsAnnounced, Opened
<1>5. PICK p \in Loaded(Resolve(new)) : Allowed(p, d, EmptyTally)
  BY <1>4 DEF Admits
<1>6. /\ ContractErrors(new) = {} /\ SelectorErrors(new) = {} /\ p \in LoadedFrom(new)
      /\ \A q \in Loaded(Resolve(new)) : q \in LoadedFrom(new)
  BY <1>5, ResolveAnswers DEF Loaded
<1>7. /\ ContractErrors(old) = {} /\ SelectorErrors(old) = {} /\ LoadedFrom(old) # {}
      /\ \A q \in LoadedFrom(old) : q \in Loaded(Resolve(old))
      /\ \A q \in Loaded(Resolve(old)) : q \in LoadedFrom(old)
  <2>1. PICK answer \in Resolve(old) : answer.ok
    BY <1>4 DEF Loaded
  <2> QED
    BY <2>1, ResolveAnswers DEF Loaded
<1> DEFINE c == d.chain
           a == d.to
<1>8. c \in Chain /\ a \in Address
  BY DEF PlainCalls, Normalized, Decision
<1>9. AllowsContract(p, c, a) /\ AllowsCall(p, d)
  BY <1>3, <1>5, <1>6, PlainAllowed
<1>10. PICK k \in ChainTexts(old, c) : a \in Addresses(old.contracts[k])
  <2>1. ~\E g \in NewContracts(old, new) : ParseChainKey(g[1]) = c /\ ParseAddressLenient(g[2]) = a
    BY <1>2, <1>4 DEF Announced
  <2> QED
    BY <1>6, <1>7, <1>8, <1>9, <2>1, ContractBefore
<1>11. \A q \in LoadedFrom(old) : AllowsChain(q, c)
  <2>1. PICK q \in LoadedFrom(old) : AllowsChain(q, c)
    BY <1>2, <1>4, <1>7 DEF ByChain
  <2> QED
    BY <1>3, <2>1, LoadedGates DEF AllowsChain
<1>12. SUFFICES \E q \in LoadedFrom(old) : AllowsContract(q, c, a) /\ AllowsCall(q, d)
  BY <1>3, <1>7, <1>11, PlainAllowed DEF Admits
<1>13. SelectorOptions(old, <<c, a>>) # {}
  BY DEF SelectorOptions
<1>14. CASE d.kind = "raw_call"
  <2>1. \A q \in LoadedFrom(old) : RawCallAllows(q, c, a, d.selector)
    <3>1. CASE new.rawGlobal
      <4>1. old.rawGlobal
        BY <1>2, <1>4, <1>14, <3>1 DEF Announced
      <4> QED
        BY <1>3, <4>1, LoadedGates DEF RawCallAllows
    <3>2. CASE ~new.rawGlobal
      <4>1. PICK q \in LoadedFrom(old) : RawCallAllows(q, c, a, d.selector)
        BY <1>2, <1>3, <1>4, <1>6, <1>7, <1>14, <3>2, LoadedGates DEF ByRawEntry
      <4> QED
        BY <1>3, <4>1, LoadedGates DEF RawCallAllows
    <3> QED
      BY <3>1, <3>2
  <2>2. \E q \in LoadedFrom(old) : AllowsContract(q, c, a)
    BY <1>3, <1>7, <1>8, <1>10, <1>13, TextsAssumption, SomeLoading
  <2> QED
    BY <1>14, <2>1, <2>2 DEF AllowsCall
<1>15. CASE d.kind # "raw_call" /\ d.selector = None
  <2>1. \E q \in LoadedFrom(old) : AllowsContract(q, c, a)
    BY <1>3, <1>7, <1>8, <1>10, <1>13, TextsAssumption, SomeLoading
  <2> QED
    BY <1>15, <2>1 DEF AllowsCall
<1>16. CASE d.kind # "raw_call" /\ d.selector # None
  <2>1. AllowsSelector(p, c, a, d.selector)
    BY <1>9, <1>16 DEF AllowsCall
  <2>2. ~\E g \in NewSelectors(old, new) :
            KeyOf(g[1]) = <<c, a>> /\ ParseSelectorPattern(g[2]) \in {d.selector, AnySelector}
    BY <1>2, <1>4, <1>16 DEF Announced
  <2>3. PICK t \in PairTexts(old, <<c, a>>) :
          \E q \in Patterns(old.selectors[t]) : q \in {d.selector, AnySelector}
    BY <1>6, <1>8, <2>1, <2>2, SelectorBefore
  <2>4. Patterns(old.selectors[t]) \in SelectorOptions(old, <<c, a>>)
    BY DEF SelectorOptions
  <2> HIDE DEF c, a
  <2>5. ASSUME NEW listed \in SelectorOptions(old, <<c, a>>)
        PROVE  \E q \in LoadedFrom(old) : AllowsContract(q, c, a) /\ q.selectors[<<c, a>>] = listed
    <3>1. \A S \in SUBSET Address : S # None
      BY TextsAssumption
    <3> QED
      BY <1>3, <1>7, <1>8, <1>10, <3>1, SomeLoading
  <2>6. PICK q \in LoadedFrom(old) :
          AllowsContract(q, c, a) /\ q.selectors[<<c, a>>] = Patterns(old.selectors[t])
    BY <2>4, <2>5
  <2> QED
    BY <1>16, <2>3, <2>6 DEF AllowsCall, AllowsSelector, c, a
<1> QED
  BY <1>14, <1>15, <1>16

(* No call of any kind becomes admissible without being announced, but     *)
(* through chains.allow or a raw_call entry.                               *)
THEOREM RevisionsAnnounced == SpecTexts => []NewCallsAnnounced
<1>1. Unread => NewCallsAnnounced
  BY DEF Unread, NewCallsAnnounced
<1>2. NewCallsAnnounced /\ [NextText]_doc => NewCallsAnnounced'
  <2>1. ASSUME AlignStrategy PROVE NewCallsAnnounced'
    BY <2>1 DEF AlignStrategy, Enter, NewCallsAnnounced
  <2>2. ASSUME NewCallsAnnounced, UNCHANGED doc PROVE NewCallsAnnounced'
    BY <2>2 DEF NewCallsAnnounced, Opened, Announced, ByChain, ByRawEntry
  <2> QED
    BY <2>1, <2>2, ReplacementAnnounced DEF NextText
<1> QED
  BY <1>1, <1>2, PTL DEF SpecTexts
=============================================================================
