---------------------------- MODULE PolicyTexts ----------------------------
(***************************************************************************)
(* A policy as the agent writes it, and what the server says of it: the    *)
(* revision that policy_set announces, and the strategy that is aligned    *)
(* with the policy in force.  The policy is enforced by what the text      *)
(* means and announced by what it says.                                    *)
(***************************************************************************)
EXTENDS Doc, PolicyTools

CONSTANTS
    Files,        \* policy files
    MaxFile,      \* 1 MiB, the cap of a policy file
    Revisions,    \* pairs of policy texts, one replacing the other
    Sources       \* strategy sources

\* A key of a chain, an address, a selector and a cap as texts; a table has
\* finitely many keys, and one of a pair may lack its colon.
ChainText == [n : Chain \cup {None}, pad : Nat]
AddressText == [addr : Address, letters : {"lower", "upper", "checksummed", "mixed"},
                prefix : {"0x", ""}]
PatternText == [s : Selector, shape : {"any", "hex", "other"}]
CapText == [n : Nat, shape : {"decimal", "negative", "other"}]
PairText == (ChainText \X AddressText) \cup [1..1 -> ChainText]

IsTable(t, Key, Entry) ==
    /\ IsFiniteSet(DOMAIN t) /\ DOMAIN t \subseteq Key
    /\ t \in [DOMAIN t -> Entry]

IsText(cfg) ==
    /\ cfg.chains \subseteq Chain
    /\ IsTable(cfg.contracts, ChainText, SUBSET AddressText)
    /\ IsTable(cfg.selectors, PairText, SUBSET PatternText)
    /\ IsTable(cfg.native, ChainText, CapText)
    /\ IsTable(cfg.erc20, PairText, CapText)
    /\ cfg.raw \subseteq Chain \X AddressText \X PatternText
    /\ cfg.rawGlobal \in BOOLEAN

ASSUME TextsAssumption ==
    /\ Chain \subseteq Nat
    /\ \A S \in SUBSET Address : S # None
    /\ \A f \in Files :
          \/ f.state \in {"absent", "unreadable", "not_toml"}
          \/ f.state = "toml" /\ IsText(f.cfg)
    /\ \A r \in Revisions : IsText(r[1]) /\ IsText(r[2])

ReplacePolicy == Blank /\ \E r \in Revisions :
    Enter([topic |-> "policy", old |-> Resolve(r[1]), new |-> Resolve(r[2]),
           granted |-> NewCapabilitiesGranted(r[1], r[2])])

\* The policy file is loaded, what it holds becomes the policy in force, and
\* a strategy is aligned with it.
AlignStrategy == Blank /\ \E source \in Sources, file \in Files :
    LET touched  == Extract(source)
        policies == {r.val : r \in {r \in LoadPolicyFromPath(file, MaxFile) : r.ok}}
    IN  Enter([topic |-> "align", touched |-> touched, file |-> file, policies |-> policies,
               verdict |-> ComputeAlignment({touched}, IF policies = {} THEN {} ELSE {file.cfg})])

NextText == ReplacePolicy \/ AlignStrategy

SpecTexts == Unread /\ [][NextText]_doc

-----------------------------------------------------------------------------
\* Two texts of one table that mean the same.
Collides(cfg) ==
    \/ \E k, l \in DOMAIN cfg.contracts : k # l /\ ParseChainKey(k) = ParseChainKey(l)
    \/ \E k, l \in DOMAIN cfg.selectors : k # l /\ KeyOf(k) = KeyOf(l)

Loaded(answers) == {r.val : r \in {r \in answers : r.ok}}

(* An aligned strategy is admitted: where the static alignment says        *)
(* satisfied, the policy loaded from the same text lists every touched     *)
(* contract on some chain with any selector.  Only a text with two         *)
(* spellings of one key escapes, whose loading depends on the order of a   *)
(* hash map (alignment.rs, contracts_touched.rs, load.rs).                 *)
SatisfiedIsAdmitted ==
    doc.topic = "align" /\ doc.verdict = "satisfied" /\ ~Collides(doc.file.cfg) =>
        \A p \in doc.policies, e \in doc.touched.contracts :
            \E c \in Chain :
                /\ AllowsContract(p, c, e[1])
                /\ \A s \in Selector : AllowsSelector(p, c, e[1], s)

(***************************************************************************)
(* The calls a revision opens: those of the five kinds that some loading   *)
(* of the new text admits and no loading of the old.  They move nothing    *)
(* (no value, no token), so that the caps are not in question.             *)
(***************************************************************************)
PlainCalls == {d \in Normalized : d.value = 0 /\ d.amount \in {None, 0}}

Admits(policies, d) == \E p \in policies : Allowed(p, d, EmptyTally)

Opened == {d \in PlainCalls : Admits(Loaded(doc.new), d) /\ ~Admits(Loaded(doc.old), d)}

Announced(d) ==
    \/ \E g \in doc.granted.contracts :
          ParseChainKey(g[1]) = d.chain /\ ParseAddressLenient(g[2]) = d.to
    \/ /\ d.kind # "raw_call"
       /\ \E g \in doc.granted.selectors :
             /\ KeyOf(g[1]) = <<d.chain, d.to>>
             /\ ParseSelectorPattern(g[2]) \in {d.selector, AnySelector}
    \/ d.kind = "raw_call" /\ doc.granted.raw

\* The two sections a revision opens in silence: chains.allow and the entries
\* of raw_call.
ByChain(d) == \A p \in Loaded(doc.old) : ~AllowsChain(p, d.chain)
ByRawEntry(d) ==
    /\ d.kind = "raw_call"
    /\ \A p \in Loaded(doc.new) : ~p.rawGlobal
    /\ \A p \in Loaded(doc.old) : ~RawCallAllows(p, d.chain, d.to, d.selector)

(* A call of any kind that a revision opens is in new_capabilities_granted *)
(* by its contract, its selector or the raw gate, for any order of the     *)
(* hash maps, unless chains.allow or a raw_call entry opened it            *)
(* (policy_diff.rs, policy_set).                                           *)
NewCallsAnnounced ==
    doc.topic = "policy" /\ Loaded(doc.old) # {} =>
        \A d \in Opened : Announced(d) \/ ByChain(d) \/ ByRawEntry(d)
=============================================================================
