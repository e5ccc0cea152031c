---------------------------- MODULE PolicyTools ----------------------------
(***************************************************************************)
(* What surrounds the policy evaluator: resolving a policy text            *)
(* (executor-policy/load.rs), what a revision announces (policy_diff.rs),  *)
(* the static extraction of the contracts a strategy touches               *)
(* (contracts_touched.rs) and its alignment with the policy in force       *)
(* (alignment.rs).  A text is kept where two texts may mean one thing: a   *)
(* chain key is a number and its leading zeros, an address is the bytes it *)
(* spells, the case of its letters and its prefix.                         *)
(***************************************************************************)
EXTENDS PolicyModel, Sequences, FiniteSets, Functions, SequencesExt

Answer(v) == [ok |-> TRUE, val |-> v]
Refuse(why) == [ok |-> FALSE, err |-> why]

(***************************************************************************)
(* Texts.  A chain key is [n, pad]; an address is [addr, letters, prefix]; *)
(* a selector is [s, shape], a cap [n, shape].                             *)
(***************************************************************************)
ParseChainKey(k) == k.n

ParseAddressLenient(s) ==
    IF s.letters \in {"lower", "upper"} \/ (s.letters = "checksummed" /\ s.prefix = "0x")
    THEN s.addr ELSE None

ParseSelectorPattern(p) ==
    CASE p.shape = "any" -> AnySelector
      [] p.shape = "hex" -> p.s
      [] OTHER           -> None

ParseU256Decimal(c) ==
    IF c.shape = "decimal" /\ c.n <= MaxU256 THEN c.n ELSE None

(***************************************************************************)
(* The policy text.  Each table is a function on its textual keys; a key   *)
(* of selectors and erc20_spend is the pair its colon separates, or <<k>>  *)
(* when it has no colon.                                                   *)
(***************************************************************************)
BadIn(S, why) == IF None \in S THEN {why} ELSE {}
HasColon(k) == Len(k) = 2
Split(t) == {k \in DOMAIN t : HasColon(k)}
Unsplit(t, why) == IF Split(t) = DOMAIN t THEN {} ELSE {why}
Addresses(S) == {ParseAddressLenient(s) : s \in S}
Patterns(S) == {ParseSelectorPattern(p) : p \in S}
KeyChains(t) == {ParseChainKey(k) : k \in DOMAIN t}
PairChains(t) == {ParseChainKey(k[1]) : k \in Split(t)}
PairAddresses(t) == {ParseAddressLenient(k[2]) : k \in Split(t)}

CapErrors(caps) ==
    {IF c.shape = "negative" THEN "bad_u256_negative" ELSE "bad_u256" :
        c \in {c \in caps : ParseU256Decimal(c) = None}}

ContractErrors(cfg) ==
    BadIn(KeyChains(cfg.contracts), "bad_chain_id")
    \cup BadIn(Addresses(UNION Range(cfg.contracts)), "bad_address")

SelectorErrors(cfg) ==
    Unsplit(cfg.selectors, "bad_selector_key")
    \cup BadIn(PairChains(cfg.selectors), "bad_chain_id")
    \cup BadIn(PairAddresses(cfg.selectors), "bad_address")
    \cup BadIn(Patterns(UNION {cfg.selectors[k] : k \in Split(cfg.selectors)}),
               "bad_selector_hex")

NativeErrors(cfg) ==
    BadIn(KeyChains(cfg.native), "bad_chain_id") \cup CapErrors(Range(cfg.native))

Erc20Errors(cfg) ==
    Unsplit(cfg.erc20, "bad_erc20_spend_key")
    \cup BadIn(PairChains(cfg.erc20), "bad_chain_id")
    \cup BadIn(PairAddresses(cfg.erc20), "bad_address")
    \cup CapErrors({cfg.erc20[k] : k \in Split(cfg.erc20)})

RawErrors(cfg) ==
    BadIn(Addresses({e[2] : e \in cfg.raw}), "bad_address")
    \cup BadIn(Patterns({e[3] : e \in cfg.raw}), "bad_selector_hex")

MissingSubtable(cfg) == cfg.chains \ KeyChains(cfg.contracts)

\* Every table is a HashMap on the texts, inserted into a map on what they
\* mean: of two texts that mean the same, the one iterated last survives.
KeyOf(k) == <<ParseChainKey(k[1]), ParseAddressLenient(k[2])>>

Survivors(t, Meaning(_), key, Value(_), default) ==
    LET texts == {k \in DOMAIN t : Meaning(k) = key}
    IN  IF texts = {} THEN {default} ELSE {Value(t[k]) : k \in texts}

Selections(keys, Options(_)) ==
    LET all == UNION {Options(k) : k \in keys}
    IN  {f \in [keys -> all] : \A k \in keys : f[k] \in Options(k)}

LoadedFrom(cfg) ==
    LET contracts(c) == Survivors(cfg.contracts, ParseChainKey, c, Addresses, None)
        selectors(k) == Survivors(cfg.selectors, KeyOf, k, Patterns, {})
        native(c)    == Survivors(cfg.native, ParseChainKey, c, ParseU256Decimal, None)
        erc20(k)     == Survivors(cfg.erc20, KeyOf, k, ParseU256Decimal, None)
    IN  { [ chains |-> cfg.chains, contracts |-> cs, selectors |-> ss,
            native |-> ns, erc20 |-> es, rawGlobal |-> cfg.rawGlobal,
            rawAllow |-> {<<e[1], ParseAddressLenient(e[2]), ParseSelectorPattern(e[3])>> :
                             e \in cfg.raw} ] :
          cs \in Selections(Chain, contracts), ss \in Selections(ChainContract, selectors),
          ns \in Selections(Chain, native), es \in Selections(ChainContract, erc20) }

\* Every answer the resolution of a text can give, table by table; within a
\* table the first bad entry met names the error.
Resolve(cfg) ==
    LET refusals(S) == {Refuse(e) : e \in S}
    IN  IF ContractErrors(cfg) # {} THEN refusals(ContractErrors(cfg))
        ELSE IF MissingSubtable(cfg) # {} THEN {Refuse("chain_missing_contracts_subtable")}
        ELSE IF SelectorErrors(cfg) # {} THEN refusals(SelectorErrors(cfg))
        ELSE IF NativeErrors(cfg) # {} THEN refusals(NativeErrors(cfg))
        ELSE IF Erc20Errors(cfg) # {} THEN refusals(Erc20Errors(cfg))
        ELSE IF RawErrors(cfg) # {} THEN refusals(RawErrors(cfg))
        ELSE {Answer(p) : p \in LoadedFrom(cfg)}

LoadPolicyFromPath(file, MaxBytes) ==
    IF file.state = "absent" THEN {Refuse("file_not_found")}
    ELSE IF file.state = "unreadable" THEN {Refuse("io")}
    ELSE IF file.bytes > MaxBytes THEN {Refuse("size_exceeds_cap")}
    ELSE IF file.state = "not_toml" THEN {Refuse("toml_parse")}
    ELSE Resolve(file.cfg)

(***************************************************************************)
(* new_capabilities_granted: the raw gate, and the entries of an allow     *)
(* list that the list of the same textual key did not hold.  Addresses are *)
(* compared without case, selectors exactly; a selector key without a      *)
(* colon is passed over.  chains.allow, the caps and the raw_call entries  *)
(* are not looked at.                                                      *)
(***************************************************************************)
AsciiLower(s) == <<s.addr, s.prefix>>
Listed(t, k) == IF k \in DOMAIN t THEN t[k] ELSE {}

\* Slip: what any chain of the old policy allowed counts as held.
NewContractsSlip(old, new) ==
    {g \in (DOMAIN new.contracts) \X UNION Range(new.contracts) :
        /\ g[2] \in new.contracts[g[1]]
        /\ AsciiLower(g[2]) \notin {AsciiLower(o) : o \in UNION Range(old.contracts)}}

NewContracts(old, new) ==
    {g \in (DOMAIN new.contracts) \X UNION Range(new.contracts) :
        /\ g[2] \in new.contracts[g[1]]
        /\ AsciiLower(g[2]) \notin {AsciiLower(o) : o \in Listed(old.contracts, g[1])}}

NewSelectors(old, new) ==
    {g \in Split(new.selectors) \X UNION Range(new.selectors) :
        g[2] \in new.selectors[g[1]] \ Listed(old.selectors, g[1])}

NewCapabilitiesGranted(old, new) ==
    [ raw       |-> ~old.rawGlobal /\ new.rawGlobal,
      contracts |-> NewContracts(old, new),
      selectors |-> NewSelectors(old, new) ]

(***************************************************************************)
(* The extractor.  A source is its constants, last declaration first, and  *)
(* its call sites; a site has the text of its address (or token) and       *)
(* function fields, and `nested` when its argument holds a brace of its    *)
(* own, which the regular expressions do not cross.  `touches` is what the *)
(* site calls when it runs: the extractor cannot see it.                   *)
(***************************************************************************)
Scanned == {"contractCall", "erc20Approve"}

\* An address expression resolves by its first token: a literal, or an
\* identifier looked up among the constants, whatever follows it.
ResolveAddress(source, e) ==
    CASE e.form = "literal" -> IF e.text.prefix = "0x" THEN e.text.addr ELSE None
      [] e.form = "ident" /\ e.name \in DOMAIN source.consts -> source.consts[e.name]
      [] OTHER -> None

ResolveFunction(e) == IF e.form = "literal" THEN e.name ELSE None

Matched(source) ==
    {s \in ToSet(source.sites) : s.call \in Scanned /\ ~s.nested}

SiteAddress(source, s) == ResolveAddress(source, s.address)
SiteFunction(s) ==
    IF s.call = "erc20Approve" THEN "approve" ELSE ResolveFunction(s.function)
Resolved(source, s) == SiteAddress(source, s) # None /\ SiteFunction(s) # None

Extract(source) ==
    LET found == {s \in Matched(source) : Resolved(source, s)}
    IN  [ contracts |-> {<<SiteAddress(source, s), SiteFunction(s)>> : s \in found},
          complete  |-> /\ found = Matched(source)
                        /\ \A s \in found : s.address.form # "dynamic" ]

(***************************************************************************)
(* Alignment works on the texts of the policy, lower-cased, and on the     *)
(* first chain, in the order of the texts, that lists the contract.        *)
(***************************************************************************)
TextBefore(k, l) == k.pad > l.pad \/ (k.pad = l.pad /\ k.n < l.n)
LowerText(a) == <<a, "0x">>

ChainsListing(cfg, a) ==
    {k \in DOMAIN cfg.contracts :
        LowerText(a) \in {AsciiLower(s) : s \in cfg.contracts[k]}}

LookupChain(cfg, a) ==
    CHOOSE k \in ChainsListing(cfg, a) :
        \A l \in ChainsListing(cfg, a) : k = l \/ TextBefore(k, l)

\* The selector lists of the contract under that chain's text.
SelectorTexts(cfg, a) ==
    {k \in DOMAIN cfg.selectors :
        k[1] = LookupChain(cfg, a) /\ AsciiLower(k[2]) = LowerText(a)}

ListsAny(cfg, k) == \E p \in cfg.selectors[k] : p.shape = "any"

\* Of two spellings the index keeps the last in the order of the texts,
\* where capitals come first.
Rank == [upper |-> 1, checksummed |-> 2, lower |-> 3]
KeptTexts(cfg, a) ==
    {k \in SelectorTexts(cfg, a) :
        \A l \in SelectorTexts(cfg, a) :
            Rank[l[2].letters] <= Rank[k[2].letters]}

\* Slip: any selector list at all covers the contract.
CoverageSlip(cfg, a) ==
    IF ChainsListing(cfg, a) = {} \/ SelectorTexts(cfg, a) = {} THEN "missing" ELSE "covered"

Coverage(cfg, a) ==
    IF ChainsListing(cfg, a) = {} \/ SelectorTexts(cfg, a) = {} THEN "missing"
    ELSE IF \A k \in KeptTexts(cfg, a) : ListsAny(cfg, k) THEN "covered"
    ELSE "partial"

\* touched and cfg are {} (not there) or a singleton.
ComputeAlignment(touched, cfg) ==
    LET t     == CHOOSE x \in touched : TRUE
        p     == CHOOSE x \in cfg : TRUE
        cover == {Coverage(p, e[1]) : e \in t.contracts}
    IN  IF cfg = {} \/ touched = {} \/ ~t.complete THEN "incomplete"
        ELSE IF cover \subseteq {"covered"} THEN "satisfied"
        ELSE IF cover = {"missing"} THEN "missing"
        ELSE "partial"
=============================================================================
