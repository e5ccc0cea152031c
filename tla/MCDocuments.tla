---------------------------- MODULE MCDocuments ----------------------------
(* Documents in base 2 with words of six bits, numbers of four, an int of  *)
(* three bits and a sign; JSON objects two deep; histories of up to four   *)
(* runs in three seconds, lists of at most two.                            *)
EXTENDS Documents, MCPolicyTexts

JsInt(n) == [t |-> "int", n |-> n]
Float(n, frac) == [t |-> "float", n |-> n, frac |-> frac, finite |-> TRUE]
JsText(s) == [t |-> "text", s |-> s]
BigInt == [t |-> "bigint"]
Undefined == [t |-> "undefined"]
MCDecimals == {JsInt(n) : n \in 0..4} \cup {Float(1, FALSE), Float(1, TRUE), JsText("one"), BigInt}

MCNumerals == UNION {[1..n -> {0, 1, Dot, Minus}] : n \in 0..4}

U(bits) == [k |-> "uint", bits |-> bits]
I(bits) == [k |-> "int", bits |-> bits]
List(s) == [k |-> "list", items |-> s]
Num(n) == [k |-> "num", n |-> n]
Str(n) == [k |-> "str", n |-> n]
Pair == [k |-> "tuple", inner |-> <<U(4), I(6)>>]
Many == [k |-> "array", inner |-> <<U(6)>>]
Two == [k |-> "fixedarray", inner |-> <<[k |-> "bool"]>>, length |-> 2]
Bytes2 == [k |-> "fixedbytes", bits |-> 2]
Bool == [k |-> "bool", b |-> TRUE]

Wholes == {Num(n) : n \in -9..16} \cup {Str(n) : n \in -33..64}
Integral == {U(3), U(4), U(6), I(4), I(6)}
MCTyped ==
    (Integral \X Wholes)
    \cup ({Pair} \X {List(<<x, y>>) : x \in {Num(3), Num(9), Str(3)}, y \in {Num(1), Str(-2)}})
    \cup ({Many} \X {List(<<>>), List(<<Str(40)>>), List(<<Str(1), Bool>>)})
    \cup ({Two} \X {List(<<Bool>>), List(<<Bool, Bool>>), Bool})
    \cup ({Bytes2} \X {[k |-> "bytes", n |-> n] : n \in 1..3})

MCOverloads == UNION {[1..n -> {<<>>, <<U(4)>>, <<U(6)>>, <<U(4), U(6)>>}] : n \in 0..3}
Args(items) == [t |-> "array", items |-> items]
Dec(n) == [t |-> "decimal", n |-> n]
MCArgLists == { Undefined, Args(<<>>), Args(<<JsInt(3)>>), Args(<<Dec(3)>>), Args(<<Dec(40)>>),
                Args(<<JsInt(3), Dec(40)>>), Args(<<BigInt>>), Float(1, FALSE) }

MCAddresses == { [prefix |-> p, length |-> n, letters |-> l] :
                   p \in BOOLEAN, n \in {39, 40},
                   l \in {"none", "lower", "upper", "mixed", "checksummed", "nonhex"} }

Texts == { [t |-> "address"], [t |-> "decimal", n |-> 1], [t |-> "text"], [t |-> "bigint"],
           [t |-> "undefined"] }
MCBuilds ==
    ({"native_transfer"} \X [{"to", "value"} -> Texts])
    \cup ({"erc20_transfer"} \X [{"token", "to", "amount"} -> Texts])
    \cup ({"raw_call"} \X {[address |-> x, data |-> y, value |-> z] :
             x \in Texts, y \in {[t |-> "hex"], [t |-> "text"]}, z \in Texts})
    \cup ({"contract_call"} \X
             {[address |-> x, abi |-> [t |-> "abi", encodes |-> e],
               function |-> [t |-> "text"], args |-> [t |-> "undefined"]] :
                 x \in Texts, e \in BOOLEAN})

Entry(b, topic) == [address |-> "watched", block |-> b, topics |-> <<topic>>]
MCNodeLogs == { <<>> } \cup {<<Entry(x, u), Entry(y, v), Entry(z, 1)>> :
                   x \in {1}, y \in 1..2, z \in 2..3, u, v \in {1, 2}}
Blocks == {Undefined, JsInt(2), Dec(1), Float(2, TRUE), Float(2, FALSE), JsText("latest"),
           JsText("earliest")}
MCBlockRanges ==
    {[blockTag |-> v, fromBlock |-> JsInt(1), toBlock |-> Undefined] : v \in Blocks}
    \cup {[blockTag |-> Undefined, fromBlock |-> v, toBlock |-> w] : v, w \in Blocks}
Topic(n) == [k |-> "topic", n |-> n]
MCTopics == { <<>>, <<Topic(1)>>, <<[k |-> "null"]>>, <<[k |-> "list", items |-> <<Topic(1), [k |-> "null"]>>]>>,
              <<[k |-> "list", items |-> <<Str(1)>>]>>, [i \in 1..5 |-> Topic(1)] }

Leaf(v) == [leaf |-> v]
Objects(keys, values) == {[obj |-> f] : f \in Tables(keys, values)}
Small == {Leaf(1), Leaf(2)} \cup Objects({"allow"}, {Leaf(1), Leaf(2)})
MCJsons == Small \cup Objects({"contracts", "raw"}, Small)

(***************************************************************************)
(* Captured runs: a constructor, three overloads of f in any order, one    *)
(* that takes a tuple; an approve before the call.                         *)
(***************************************************************************)
Input(name, ty) == [name |-> name, ty |-> ty]
Function(inputs) == [type |-> "function", name |-> "f", inputs |-> inputs]
AbiEntries == { [type |-> "constructor", name |-> "", inputs |-> <<>>],
                Function(<<Input("a", U(4))>>),
                Function(<<Input("a", U(6)), Input("b", U(4))>>),
                Function(<<Input("b", U(4)), Input("a", U(6))>>),
                Function(<<Input("a", Pair)>>) }
Abis == UNION {[1..n -> AbiEntries] : n \in 1..2}

Call(abi, args) ==
    [kind |-> "contract_call", address |-> "watched", function |-> "f", abi |-> abi, args |-> args]
Approve == [kind |-> "erc20_approve", token |-> "watched", spender |-> "pool", amount |-> Str(1)]

Hex(types) == [form |-> "hex", hash |-> <<"f", types>>]
SelectorOptions == { <<>>, [selector |-> [form |-> "name", name |-> "f"]],
                  [selector |-> Hex(<<U(4)>>)], [selector |-> Hex(<<U(6), U(4)>>)],
                  [selector |-> Hex(<<Pair>>)] }
Fields == [hash |-> [form |-> "tx", field |-> "hash"], x |-> [form |-> "name", name |-> "a"],
           y |-> [form |-> "index", i |-> 2], z |-> [form |-> "view", call |-> TRUE],
           l |-> [form |-> "logs", event |-> "Transfer", filter |-> "self", field |-> "value"]]
Specs(sel) ==
    << [name |-> "calls", on |-> [kind |-> "contractCall", target |-> "watched"] @@ sel,
        capture |-> Fields],
       [name |-> "approvals", on |-> [kind |-> "erc20Approve", token |-> "watched"],
        capture |-> [who |-> [form |-> "name", name |-> "spender"]]],
       [name |-> "transfers", on |-> [kind |-> "log", address |-> "watched"], capture |-> Fields] >>

Row(i) == [index |-> i, hash |-> 100 + i, gas_used |-> "null", signer |-> "burner", recorded_at |-> 5]
MCCapturedRuns ==
    { [strategy |-> "known", specs |-> Specs(sel), actions |-> <<Approve, Call(abi, args)>>,
       execs |-> execs, started_at |-> 4, stored |-> n] :
        abi \in Abis, sel \in SelectorOptions, execs \in {{}, {Row(2)}, {Row(1), Row(2)}}, n \in {1, 6},
        args \in {<<Num(3)>>, <<Str(3), Num(1)>>, <<Num(1), Str(3)>>, <<List(<<Num(3), Num(1)>>)>>} }
    \cup { [strategy |-> "missing", specs |-> Specs(<<>>), actions |-> <<Approve>>,
            execs |-> {Row(1)}, started_at |-> 4, stored |-> 1] }

Amount(v) == [amount |-> v]
MCCaptures == {{[id |-> i, at |-> at[i], name |-> names[i], fields |-> fs[i]] : i \in DOMAIN at} :
    at \in {<<1, 1>>, <<1, 2, 1>>}, names \in [1..3 -> {"supply", "borrow"}],
    fs \in [1..3 -> {Amount([t |-> "num", n |-> 4]), Amount([t |-> "num", n |-> 6]),
                     Amount([t |-> "word", n |-> 0]), <<>>}]}

MCHistories == {h \in UNION {[1..n -> 1..3] : n \in 1..4} :
                   \A i \in 1..Len(h) - 1 : h[i] <= h[i + 1]}

(***************************************************************************)
(* Databases: two versions of one lineage, a trigger, and a history.       *)
(***************************************************************************)
Version(id, deleted) ==
    [id |-> id, lineage |-> 7, name |-> 11, at |-> id, deleted |-> deleted, tags |-> {"t"}]
Trigger(kind, enabled) ==
    [id |-> 3, strategy |-> 1, lineage |-> 7, kind |-> kind, enabled |-> enabled, fired |-> {2},
     to_address |-> {"watched"}, from_address |-> {}]
RunsAt(h, status, outcome) ==
    {[id |-> i, at |-> h[i], strategy |-> 1, outcomes |-> outcome,
      status |-> IF i = 1 THEN "succeeded" ELSE status] : i \in DOMAIN h}

MCDatabases ==
    { [ strategies |-> {Version(1, TRUE), Version(2, deleted)},
        triggers |-> {Trigger(kind, enabled)}, events |-> {[id |-> 1, at |-> 1, trigger |-> 3]},
        runs |-> RunsAt(h, status, IF status = "succeeded" THEN {"noop"} ELSE {}),
        execs |-> {[run |-> 1, index |-> 0, signer |-> "burner"]},
        journal |-> [i \in DOMAIN h |-> {[at |-> h[i], seq |-> 0]}],
        captures |-> {[id |-> 1, at |-> 1, ms |-> 5, lineage |-> 7, strategy |-> 1]},
        revisions |-> {[id |-> 1, at |-> 1]}, active |-> {1}, now |-> 3,
        provider |-> provider, chain |-> "ok", balance |-> "error", resolved |-> TRUE ] :
        deleted \in BOOLEAN, kind \in {"mempool", "manual"}, enabled \in BOOLEAN, h \in MCHistories,
        status \in {"failed", "succeeded", "running"}, provider \in {"none", "wired"} }

QueryOf(key, val) == <<[key |-> key, val |-> val]>>
WordOf(w) == [t |-> "word", w |-> w]
Ask(ns, segs, q) == [At(ns, segs, 1) EXCEPT !.q = q]
MCUris(db) ==
    { At("strategy", <<"id">>, Malformed), At("journal", <<"id">>, 9), At("execution", <<"id">>, 9),
      At("trigger", <<"id">>, 9), At("trigger", <<"id", "events">>, 3),
      At("trigger-events", <<"id">>, 3), At("policy", <<"current">>, 0), At("docs", <<"nothing">>, 0),
      At("policy", <<"history">>, 0), At("runtime", <<"status">>, 0), At("portfolio", <<"">>, 0),
      At("runtime", <<"signals">>, 0), At("runtime", <<"recent">>, 0),
      At("strategy", <<"lineage", "id">>, 7), At("strategy", <<"lineage", "id", "history">>, 7),
      At("strategy", <<"by-name", "name">>, 11), At("strategy", <<"id", "records">>, 1),
      Ask("strategy", <<"id", "records">>, <<Since(1, "Z")>>),
      Ask("strategy", <<"id", "records">>,
          QueryOf("since", [t |-> "time", sec |-> 1, suffix |-> "fraction", ms |-> 4])),
      Ask("execution", <<"list">>, QueryOf("status", WordOf("noop"))),
      Ask("execution", <<"list">>, QueryOf("status", WordOf("failed"))),
      Ask("execution", <<"list">>, QueryOf("cursor", WordOf("x"))),
      Ask("execution", <<"list">>, QueryOf("limit", [t |-> "garbled"])),
      Ask("trigger", <<"list">>, QueryOf("enabled", WordOf("false"))),
      Ask("strategy", <<"list">>, QueryOf("status", WordOf("all"))),
      Ask("strategy", <<"list">>, QueryOf("status", WordOf("deleted"))) }
=============================================================================
