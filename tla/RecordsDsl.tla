---------------------------- MODULE RecordsDsl -----------------------------
(***************************************************************************)
(* The records DSL (records.rs) and the sweep that fills the capture table *)
(* after a run is confirmed (tools.rs capture_records_for_run).  An ABI is *)
(* a sequence of entries [type, name, inputs], name = "" where the JSON    *)
(* has none (a constructor, receive or fallback); an input is [name, ty].  *)
(* A selector is what is hashed: the name and the list of type texts.      *)
(***************************************************************************)
EXTENDS Integers, Sequences, SequencesExt, FiniteSetsExt

Yes(v) == [ok |-> TRUE, val |-> v]
No(kind) == [ok |-> FALSE, warning |-> kind]

Option(f, k) == IF k \in DOMAIN f THEN {f[k]} ELSE {}

(***************************************************************************)
(* The first function of a name.  `?` on the missing name of an entry ends *)
(* the search, so nothing is found behind a constructor.                   *)
(***************************************************************************)
FirstNamed(abi, f) ==
    LET stops == {i \in DOMAIN abi : abi[i].name = ""}
        hits  == {i \in DOMAIN abi : abi[i].type = "function" /\ abi[i].name = f}
    IN  IF hits = {} \/ (\E i \in stops : i < Min(hits)) THEN {} ELSE {abi[Min(hits)]}

AbiInputNames(abi, f) == {[i \in DOMAIN e.inputs |-> e.inputs[i].name] : e \in FirstNamed(abi, f)}

\* The text of a type in the JSON, "tuple" for every tuple.
TypeText(ty) == IF ty.k = "tuple" THEN [k |-> "tuple"] ELSE ty

FunctionSelector(abi, f) ==
    {<<f, [i \in DOMAIN e.inputs |-> TypeText(e.inputs[i].ty)]>> : e \in FirstNamed(abi, f)}

\* A selector in a spec is a 0x text (hex) or a function's name.
SelectorMatches(sel, abi, f) ==
    IF sel.form = "hex" THEN sel.hash \in FunctionSelector(abi, f) ELSE sel.name = f

(***************************************************************************)
(* The match clause.  An address is a model value or "bad", a text that    *)
(* does not parse, which equals nothing.                                   *)
(***************************************************************************)
AddrEq(a, b) == a = b /\ a # "bad"

MatchContractCall(on, action) ==
    /\ action.kind = "contract_call"
    /\ \A a \in Option(on, "target") : AddrEq(a, action.address)
    /\ \A s \in Option(on, "selector") : SelectorMatches(s, action.abi, action.function)

MatchErc20Approve(on, action) ==
    /\ action.kind = "erc20_approve"
    /\ \A a \in Option(on, "token") : AddrEq(a, action.token)
    /\ \A a \in Option(on, "spender") : AddrEq(a, action.spender)

\* logs is a set of at most one sequence.
MatchLog(on, logs) ==
    \E seq \in logs : \E i \in DOMAIN seq :
        /\ \A a \in Option(on, "address") : AddrEq(a, seq[i].address)
        /\ \A topics \in Option(on, "topics") : \A j \in DOMAIN topics :
              topics[j] = "any" \/ (j \in DOMAIN seq[i].topics /\ topics[j] = seq[i].topics[j])

EvaluateMatch(on, ctx) ==
    \/ on.kind = "contractCall" /\ MatchContractCall(on, ctx.action)
    \/ on.kind = "erc20Approve" /\ MatchErc20Approve(on, ctx.action)
    \/ on.kind = "log" /\ MatchLog(on, ctx.logs)

(***************************************************************************)
(* The expressions tx.f, args[i], args.n, logs.E[filter].f, view.h(..).    *)
(***************************************************************************)
EvalTx(e, ctx) ==
    IF e.field \in {"hash", "block", "ts", "gas_used"} THEN Yes(ctx[e.field])
    ELSE No("unsupported")

At1(args, positions, i) ==
    IF i \in positions THEN Yes(args[i]) ELSE No("accessor")

EvalArgsFrom(e, args, names) ==
    IF e.form = "index" THEN At1(args, DOMAIN args, e.i)
    ELSE IF \E ns \in names : \E i \in DOMAIN ns : ns[i] = e.name
         THEN LET ns == CHOOSE ns \in names : TRUE
              IN  At1(args, DOMAIN args, Min({i \in DOMAIN ns : ns[i] = e.name}))
         ELSE No("accessor")

EvalArgs(e, action) ==
    CASE action.kind = "contract_call" ->
           EvalArgsFrom(e, action.args, AbiInputNames(action.abi, action.function))
      [] action.kind = "erc20_approve" ->
           EvalArgsFrom(e, <<action.spender, action.amount>>, {<<"spender", "amount">>})
      [] action.kind = "erc20_transfer" ->
           EvalArgsFrom(e, <<action.to, action.amount>>, {<<"to", "amount">>})
      [] OTHER -> No("accessor")

IsTransfer(log) == log.topics # <<>> /\ log.topics[1] = "Transfer"
Involves(log, who) == \E i \in {2, 3} \cap DOMAIN log.topics : AddrEq(log.topics[i], who)

\* filter is "self" or an index from 1.
Chosen(transfers, filter, burner) ==
    IF filter = "self"
    THEN {transfers[i] : i \in {i \in DOMAIN transfers :
             /\ \E b \in burner : Involves(transfers[i], b)
             /\ \A j \in 1..i - 1 : \A b \in burner : ~Involves(transfers[j], b)}}
    ELSE {transfers[i] : i \in {filter} \cap DOMAIN transfers}

Position == [from |-> 2, to |-> 3]

EvalLogs(e, ctx) ==
    LET transfers == SelectSeq(CHOOSE seq \in ctx.logs : TRUE, IsTransfer)
        chosen    == Chosen(transfers, e.filter, ctx.burner)
        log       == CHOOSE l \in chosen : TRUE
    IN  CASE ctx.logs = {} -> No("accessor")
          [] e.event # "Transfer" -> No("helper")
          [] chosen = {} -> No("accessor")
          [] e.field \in {"value", "amount"} -> Yes(log.data)
          [] e.field \notin DOMAIN Position -> No("unsupported")
          [] Position[e.field] \notin DOMAIN log.topics -> No("bad_value")
          [] OTHER -> Yes(log.topics[Position[e.field]])

\* Every view helper is unavailable at capture time.
EvalView(e) == IF e.call THEN No("helper") ELSE No("unsupported")

EvaluateExpr(e, ctx) ==
    CASE e.form = "tx" -> EvalTx(e, ctx)
      [] e.form \in {"index", "name"} -> EvalArgs(e, ctx.action)
      [] e.form = "logs" -> EvalLogs(e, ctx)
      [] e.form = "view" -> EvalView(e)
      [] OTHER -> No("unsupported")

\* Best effort: the fields that evaluate, a warning for each of the others.
EvaluateCapture(capture, ctx) ==
    LET good == {k \in DOMAIN capture : EvaluateExpr(capture[k], ctx).ok}
    IN  [fields   |-> [k \in good |-> EvaluateExpr(capture[k], ctx).val],
         warnings |-> DOMAIN capture \ good]

EvaluateSpec(spec, ctx) ==
    IF EvaluateMatch(spec.on, ctx) THEN {EvaluateCapture(spec.capture, ctx)} ELSE {}

(***************************************************************************)
(* The sweep: every spec against every action, with the execution row of   *)
(* the action's index; no receipt logs and no block are handed over.       *)
(* Slots that the row leaves empty are "null".                             *)
(***************************************************************************)
NoRow == [hash |-> "null", gas_used |-> "null", burner |-> {}]

\* Slip: the first row serves every action.
RowOfSlip(run, i) == {x \in run.execs : \A y \in run.execs : x.index <= y.index}

RowOf(run, i) == {x \in run.execs : x.index = i}

ContextOf(run, i) ==
    LET found == RowOf(run, i)
        first == CHOOSE x \in found : TRUE
        row   == IF found = {} THEN NoRow
                 ELSE [hash |-> first.hash, gas_used |-> first.gas_used, burner |-> {first.signer}]
    IN  [action |-> run.actions[i], hash |-> row.hash, block |-> "null",
         ts |-> IF found = {} THEN run.started_at ELSE first.recorded_at,
         gas_used |-> row.gas_used, burner |-> row.burner, logs |-> {}]

Captured(run, i, spec) ==
    LET out == EvaluateSpec(spec, ContextOf(run, i))
    IN  IF \E o \in out : DOMAIN o.fields # {}
        THEN <<[index |-> i, name |-> spec.name, fields |-> (CHOOSE o \in out : TRUE).fields]>>
        ELSE <<>>

Sweep(run) ==
    FlattenSeq([i \in DOMAIN run.actions |->
        FlattenSeq([j \in DOMAIN run.specs |-> Captured(run, i, run.specs[j])])])

\* A run of an unknown strategy captures nothing; a deleted one is still
\* found.  The rows are inserted one by one until the store fails, which
\* run.stored says.
CaptureRecords(run) ==
    IF run.strategy = "missing" THEN <<>>
    ELSE SubSeq(Sweep(run), 1, Min({run.stored, Len(Sweep(run))}))
=============================================================================
