--------------------------- MODULE MCPolicyTexts ---------------------------
(* The policy texts of MCDocuments: two chains, one contract and two       *)
(* selectors, with two spellings of a chain and of the contract, keys      *)
(* without a colon and caps out of range; sources of at most one call.     *)
EXTENDS PolicyTexts

CONSTANTS a1, a2, s1, s2

TwoChains == {1, 2}
MCAddress == {a1}
MCSelector == {s1, s2}
Spell(letters) == [addr |-> a1, letters |-> letters, prefix |-> "0x"]
Spelled == {Spell("lower"), Spell("upper"), Spell("mixed")}
Keys == {[n |-> 1, pad |-> p] : p \in 0..1}
Second == [n |-> 2, pad |-> 0]
OnBoth(S) == [k \in {[n |-> 1, pad |-> 0], Second} |->
                    IF k = Second THEN {Spell("lower")} ELSE S]
Pat(s, shape) == [s |-> s, shape |-> shape]
Tables(keys, values) == UNION {[S -> values] : S \in SUBSET keys}

Closed == [open |-> FALSE, allow |-> {}]
Written(chains, cs, ss, raw) ==
    [ chains |-> chains, contracts |-> cs, selectors |-> ss, native |-> <<>>, erc20 |-> <<>>,
      rawGlobal |-> raw.open, raw |-> raw.allow ]

Spellings ==
    { Written({1}, cs, ss, Closed) :
      cs \in (Tables(Keys, {{}, {Spell("lower")}, {Spell("upper")}}) \ {<<>>})
             \cup {[k \in {[n |-> 1, pad |-> 0]} |-> {Spell("mixed")}],
                     OnBoth({}), OnBoth({Spell("lower")})},
      ss \in UNION {[S -> {{Pat(s1, "hex")}, {Pat(s2, "any")}}] :
                S \in {{}} \cup {{<<k, x>>} : k \in Keys, x \in {Spell("lower"), Spell("upper")}}
                      \cup {{<<[n |-> 1, pad |-> 0], x>> : x \in {Spell("lower"), Spell("upper")}}}} }

\* The gates before and after the contract lists: the chains, the raw gate.
Raw(shape) == [open |-> FALSE, allow |-> {<<1, Spell("lower"), Pat(s1, shape)>>}]
Gates ==
    { Written(chains, OnBoth({Spell("lower")}), ss, raw) :
      chains \in {{1}, {2}, {1, 2}}, raw \in {Closed, [Closed EXCEPT !.open = TRUE], Raw("hex"), Raw("any")},
      ss \in {<<>>} \cup [{<<Second, Spell("lower")>>} -> {{Pat(s1, "hex")}}] }

\* Texts refused for a key without a colon or for a cap.
Capped(t, keys, cap) ==
    [Written({1}, OnBoth({}), <<>>, Closed) EXCEPT ![t] = [k \in keys |-> cap]]
Caps == {[n |-> n, shape |-> sh] : n \in {0, 4}, sh \in {"decimal", "negative"}}
Refused ==
    {Capped("native", {Second}, cap) : cap \in Caps}
    \cup {Capped("erc20", {k}, cap) : k \in {<<Second>>, <<Second, Spell("lower")>>}, cap \in Caps}
    \cup {Capped("selectors", {<<Second>>}, {Pat(s1, "hex")})}

MCConfigs == Spellings \cup Gates \cup Refused

MCFiles ==
    {[state |-> "toml", bytes |-> 1, cfg |-> c] : c \in MCConfigs}
    \cup {[state |-> "toml", bytes |-> 2, cfg |-> c] :
             c \in {c \in MCConfigs : DOMAIN c.contracts = Keys}}
    \cup {[state |-> st, bytes |-> 0] : st \in {"absent", "unreadable", "not_toml"}}

\* One table changes at a time, or the gates, or a revision is refused.
MCRevisions ==
    { r \in Spellings \X Spellings :
        r[1].contracts = r[2].contracts \/ r[1].selectors = r[2].selectors }
    \cup (Gates \X (Gates \cup Refused))

Site(call, nested, address) ==
    [call |-> call, nested |-> nested, address |-> address,
     function |-> [form |-> "literal", name |-> "supply"], touches |-> a1]
Forms == { [form |-> "literal", text |-> Spell("lower")], [form |-> "ident", name |-> "POOL"],
           [form |-> "dynamic"] }
MCSources == { [consts |-> cs, sites |-> ss] :
                 cs \in {<<>>, [POOL |-> a1], [POOL |-> a2]},
                 ss \in {<<>>} \cup {<<Site(c, n, f)>> :
                     c \in {"contractCall", "erc20Approve", "erc20Transfer"},
                     n \in BOOLEAN, f \in Forms} }
=============================================================================
