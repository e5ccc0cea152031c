----------------------------- MODULE HostCalls -----------------------------
(***************************************************************************)
(* What the host functions of a strategy accept: addresses (address.rs,    *)
(* action.rs), overloads and arguments of a call (dyn_abi.rs, read.rs),    *)
(* the fields of an action builder (sandbox.rs).  They hand values to the  *)
(* conversions of JsValues and HostValues, which are constants here.       *)
(***************************************************************************)
EXTENDS Units

CONSTANTS
    ToJson(_),    \* JsToJson, a JavaScript value as JSON
    ToHost(_),    \* AsHost, a JSON value as the host reads it
    ToDyn(_, _),  \* JsToDyn, a JSON value as an ABI value of a type
    AddressTexts, \* texts offered as an address
    Overloads,    \* overload lists of one function name
    ArgLists,     \* JavaScript values given as arguments
    Builds        \* pairs of an action kind and its fields

\* null and undefined become null, and nothing else does.
ASSUME HostCallsAssumption ==
    /\ \A v \in ArgLists :
          /\ IsNullish(v) => ToJson(v) = Ok(Null)
          /\ ToJson(v).ok /\ ToJson(v).val = Null => IsNullish(v)
    /\ \A b \in Builds :
          b[1] \in {"contract_call", "raw_call", "erc20_transfer", "erc20_approve", "native_transfer"}

(***************************************************************************)
(* Addresses: the length of the body, the prefix, and the case of its      *)
(* letters ("none" when it has no letter).                                 *)
(***************************************************************************)
Parses(a) == a.length = 40 /\ a.letters # "nonhex"

OneCase == {"none", "lower", "upper"}

IsAddress(a) == a.prefix /\ Parses(a) /\ a.letters \in OneCase \cup {"checksummed"}

\* Unlike isAddress and checksum, the 0x is not required here.
ValidateAddress(a) ==
    IF Parses(a) /\ (a.letters \in OneCase \/ (a.letters = "checksummed" /\ a.prefix))
    THEN Ok("checksummed") ELSE Fail("bad_address")

Checksum(a) == IF IsAddress(a) THEN Ok("checksummed") ELSE Fail("bad_address")

(***************************************************************************)
(* Overloads of one function name: a sequence of input type lists.         *)
(* readContract refuses two of the same arity, the encoder of actions      *)
(* takes the first.                                                        *)
(***************************************************************************)
OfArity(funcs, n) == {i \in DOMAIN funcs : Len(funcs[i]) = n}

ReadOverload(funcs, args) ==
    LET fits == OfArity(funcs, Len(args))
    IN  CASE fits = {} -> Fail(IF funcs = <<>> THEN "abi_function_not_found"
                                              ELSE "abi_overload_arity")
          [] Cardinality(fits) > 1 -> Fail("abi_overload_ambiguous")
          [] OTHER -> Ok(Min(fits))

EncodeOverload(funcs, args) ==
    LET fits == OfArity(funcs, Len(args))
    IN  IF fits = {}
        THEN Fail(IF funcs = <<>> THEN "abi_function_missing" ELSE "abi_arg_count")
        ELSE Ok(Min(fits))

\* Slip: the encoder looks at the name alone.
EncodeCallSlip(funcs, args) ==
    IF funcs = <<>> THEN Fail("abi_function_missing")
    ELSE Ok([overload |-> 1, values |-> args])

EncodeArgs(types, args) ==
    LET parts == [i \in DOMAIN args |-> ToDyn(args[i], types[i])]
        bad   == {i \in DOMAIN parts : ~parts[i].ok}
    IN  IF bad # {} THEN parts[Min(bad)]
        ELSE Ok([i \in DOMAIN parts |-> parts[i].val])

\* encode_call_input: the encoding is the overload and its values.
EncodeCall(funcs, args) ==
    LET pick   == EncodeOverload(funcs, args)
        values == EncodeArgs(funcs[pick.val], args)
    IN  IF ~pick.ok THEN pick ELSE IF ~values.ok THEN values
        ELSE Ok([overload |-> pick.val, values |-> values.val])

ReadCall(funcs, args) ==
    LET pick   == ReadOverload(funcs, args)
        values == EncodeArgs(funcs[pick.val], args)
    IN  IF ~pick.ok THEN pick ELSE IF ~values.ok THEN values
        ELSE Ok([overload |-> pick.val, values |-> values.val])

(***************************************************************************)
(* Fields of an action builder's argument, in the order they are read.     *)
(***************************************************************************)
RequireString(v) ==
    CASE v.t = "bigint" -> Fail("bigint")
      [] IsString(v) \/ v.t = "address" -> Ok(v)
      [] OTHER -> Fail("not_string")

OptionalValue(v) ==
    IF IsNullish(v) THEN Ok([t |-> "decimal", n |-> 0]) ELSE RequireString(v)

RequireAbi(v) ==
    CASE IsString(v) \/ v.t = "abi" -> Ok(v)
      [] v.t \in {"array", "object"} -> ToJson(v)
      [] OTHER -> Fail("abi")

RequireArgs(v) ==
    LET json == ToJson(v)
    IN  IF IsNullish(v) THEN Ok([t |-> "array", items |-> <<>>])
        ELSE IF ~json.ok \/ json.val.t = "array" THEN json
        ELSE Fail("args")

\* What readContract makes of its args: a BigInt is named before the walk.
ReadArgs(v) ==
    IF v.t = "array" /\ \E i \in DOMAIN v.items : v.items[i].t = "bigint"
    THEN Fail("bigint")
    ELSE LET json == ToJson(v)
         IN  IF ~json.ok \/ json.val.t = "array" THEN json
             ELSE IF json.val = Null THEN Ok([t |-> "array", items |-> <<>>])
             ELSE Fail("args")

FirstFailure(checks, result) ==
    LET bad == {i \in DOMAIN checks : ~checks[i].ok}
    IN  IF bad = {} THEN result ELSE checks[Min(bad)]

\* The validators of executor_evm::action on a field's string.
Valid(kind, v) ==
    IF CASE kind = "address"  -> v.t = "address"
         [] kind = "calldata" -> v.t = "hex"
         [] kind = "amount"   -> v.t = "decimal"
         [] kind = "call"     -> v.t = "abi" /\ v.encodes
    THEN Ok(v) ELSE Fail("bad_" \o kind)

Field(f, name) == IF name \in DOMAIN f THEN f[name] ELSE [t |-> "undefined"]

AddressFields(kind) ==
    CASE kind \in {"contract_call", "raw_call"} -> <<"address">>
      [] kind = "erc20_transfer" -> <<"token", "to">>
      [] kind = "erc20_approve" -> <<"token", "spender">>
      [] kind = "native_transfer" -> <<"to">>

\* build_*_action: every field is read before the first one is validated.
BuildAction(kind, f) ==
    LET names     == AddressFields(kind)
        addresses == [i \in DOMAIN names |-> RequireString(Field(f, names[i]))]
        amount    == IF kind \in {"contract_call", "raw_call"}
                     THEN OptionalValue(Field(f, "value"))
                     ELSE RequireString(Field(f, IF kind = "native_transfer"
                                                 THEN "value" ELSE "amount"))
        body      == CASE kind = "contract_call"
                            -> <<RequireAbi(Field(f, "abi")),
                                 RequireString(Field(f, "function")),
                                 RequireArgs(Field(f, "args"))>>
                       [] kind = "raw_call" -> <<RequireString(Field(f, "data"))>>
                       [] OTHER -> <<>>
        read      == addresses \o body \o <<amount>>
        valid     == [i \in DOMAIN names |-> Valid("address", Field(f, names[i]))]
                     \o (CASE kind = "contract_call"
                                -> <<Valid("amount", amount.val),
                                     Valid("call", Field(f, "abi"))>>
                           [] kind = "raw_call"
                                -> <<Valid("calldata", Field(f, "data")),
                                     Valid("amount", amount.val)>>
                           [] OTHER -> <<Valid("amount", amount.val)>>)
    IN  IF \E i \in DOMAIN read : ~read[i].ok
        THEN FirstFailure(read, Ok(Null))
        ELSE FirstFailure(valid, Ok([kind |-> kind, fields |-> f]))

-----------------------------------------------------------------------------
CheckAddress == Blank /\ \E a \in AddressTexts :
    Enter([topic |-> "address", is |-> IsAddress(a), sum |-> Checksum(a),
           built |-> ValidateAddress(a)])

CallWith(json, Call(_)) == IF json.ok THEN Call(ToHost(json.val).items) ELSE json

\* The same JavaScript arguments read now and sent with an action.
CallContract == Blank /\ \E fs \in Overloads, args \in ArgLists :
    Enter([topic |-> "call",
           read  |-> CallWith(ReadArgs(args), LAMBDA items : ReadCall(fs, items)),
           sent  |-> CallWith(RequireArgs(args), LAMBDA items : EncodeCall(fs, items))])

Build == Blank /\ \E b \in Builds :
    Enter([topic |-> "build", answer |-> BuildAction(b[1], b[2])])

NextCall == ConvertAmount \/ CheckAddress \/ CallContract \/ Build

SpecCalls == Unread /\ [][NextCall \/ QueryLogs]_doc

-----------------------------------------------------------------------------
(* A call that readContract accepts is encoded by the contractCall action  *)
(* with the same overload and values, although one of them refuses two     *)
(* overloads of an arity and the other takes the first (read.rs            *)
(* resolve_overload, dyn_abi.rs encode_call_input).                        *)
ReadIsWhatIsSent ==
    doc.topic = "call" /\ doc.read.ok => doc.sent = doc.read

(* An address that isAddress or checksum accepts is accepted by the        *)
(* validator of the builders (address.rs, action.rs).                      *)
AddressesAgree ==
    doc.topic = "address" => (doc.is \/ doc.sum.ok => doc.built.ok)

(* What a builder returns passes the validators the server runs on the     *)
(* action later: a strategy cannot return a built action that its run      *)
(* then rejects (sandbox.rs build_*_action, action.rs).                    *)
BuiltActionsPass ==
    doc.topic = "build" /\ doc.answer.ok =>
        LET a == doc.answer.val
        IN  /\ \A i \in DOMAIN AddressFields(a.kind) :
                  Valid("address", Field(a.fields, AddressFields(a.kind)[i])).ok
            /\ a.kind = "contract_call" => Valid("call", Field(a.fields, "abi")).ok
            /\ a.kind = "raw_call" => Valid("calldata", Field(a.fields, "data")).ok

(* The host functions a strategy calls in turn agree on what they accept   *)
(* and on what it means: a call, an address, a block, a built action.      *)
CallsAgree == AmountsInvert /\ ReadIsWhatIsSent /\ AddressesAgree /\ BlocksAgree /\ BuiltActionsPass
=============================================================================
