------------------------------ MODULE Requests ------------------------------
(***************************************************************************)
(* What a run leaves behind, beside what is read of it: the capture sweep  *)
(* of a confirmed run.                                                     *)
(***************************************************************************)
EXTENDS Reads, RecordsDsl, HostCalls

CONSTANT CapturedRuns    \* runs with their specs and actions

IsList(s) == s \in Seq({s[i] : i \in DOMAIN s})

ASSUME RequestsAssumption == \A run \in CapturedRuns :
    /\ IsList(run.actions) /\ IsList(run.specs) /\ run.stored \in Nat
    /\ \A i \in DOMAIN run.actions :
          run.actions[i].kind = "contract_call" =>
              /\ IsList(run.actions[i].abi)
              /\ \A n \in DOMAIN run.actions[i].abi : IsList(run.actions[i].abi[n].inputs)

CaptureRun == Blank /\ \E run \in CapturedRuns :
    Enter([topic |-> "capture", run |-> run, rows |-> CaptureRecords(run)])

NextRequest == CaptureRun \/ NextRead

SpecRequests == Unread /\ [][NextRequest]_doc

-----------------------------------------------------------------------------
OverloadsOf(a) ==
    Kept(a.abi, {n \in DOMAIN a.abi : a.abi[n].type = "function" /\ a.abi[n].name = a.function})[Len(a.abi)]
Types(e) == [i \in DOMAIN e.inputs |-> e.inputs[i].ty]
HasTuple(e) == \E i \in DOMAIN e.inputs : e.inputs[i].ty.k = "tuple"

\* The entry the transaction is encoded with, {} when it is not encodable.
SentEntry(a) ==
    LET over == OverloadsOf(a)
        call == EncodeCall([i \in DOMAIN over |-> Types(over[i])], a.args)
    IN  IF call.ok THEN {over[call.val.overload]} ELSE {}

Sent(run) ==
    {i \in DOMAIN run.actions :
        run.actions[i].kind = "contract_call" /\ SentEntry(run.actions[i]) # {}}

CapturedBy(rows, i, name) ==
    {rows[n].fields : n \in {n \in DOMAIN rows : rows[n].index = i /\ rows[n].name = name}}

\* A strategy may declare one name twice: its rows cannot be told apart.
NamesDiffer(run) ==
    \A j, k \in DOMAIN run.specs : run.specs[j].name = run.specs[k].name => j = k

IsTxHash(e) == e.form = "tx" /\ e.field = "hash"

\* Nothing but the selector keeps the call from being captured.
Sought(run, spec, a) ==
    /\ run.strategy # "missing" /\ run.stored >= Len(Sweep(run))
    /\ \A t \in Option(spec.on, "target") : AddrEq(t, a.address)
    /\ \E k \in DOMAIN spec.capture : IsTxHash(spec.capture[k])

Encoded(a) == CHOOSE e \in SentEntry(a) : TRUE

SelectorAgrees(run, rows, i, spec) ==
    LET a     == run.actions[i]
        e     == Encoded(a)
        taken == CapturedBy(rows, i, spec.name) # {}
    IN  spec.on.kind = "contractCall" /\ FirstNamed(a.abi, a.function) = {e} /\ ~HasTuple(e) =>
            \A s \in Option(spec.on, "selector") : s.form = "hex" =>
                LET carried == s.hash = <<a.function, Types(e)>>
                IN  /\ taken => carried
                    /\ carried /\ Sought(run, spec, a) => taken

(* A selector written as hex captures the calls that carry it and no       *)
(* others, as long as the function looked up is the one encoded: the first *)
(* of its name, behind no nameless entry, without tuples (records.rs       *)
(* function_selector_hex, dyn_abi.rs encode_call_input).                   *)
SelectorsAgree ==
    doc.topic = "capture" /\ NamesDiffer(doc.run) =>
        \A i \in Sent(doc.run), j \in DOMAIN doc.run.specs :
            SelectorAgrees(doc.run, doc.rows, i, doc.run.specs[j])

ArgumentAgrees(run, rows, i, spec) ==
    LET a == run.actions[i]
    IN  Len(OverloadsOf(a)) = 1 =>
            \A f \in CapturedBy(rows, i, spec.name), k \in DOMAIN spec.capture :
                k \in DOMAIN f /\ spec.capture[k].form = "name" =>
                    \E n \in DOMAIN Encoded(a).inputs :
                        /\ Encoded(a).inputs[n].name = spec.capture[k].name
                        /\ f[k] = a.args[n]

(* A captured args.name is the argument sent under that name, unless the   *)
(* function is overloaded (records.rs abi_input_names).                    *)
ArgumentsAgree ==
    doc.topic = "capture" /\ NamesDiffer(doc.run) =>
        \A i \in Sent(doc.run), j \in DOMAIN doc.run.specs :
            ArgumentAgrees(doc.run, doc.rows, i, doc.run.specs[j])

HashAgrees(run, rows, i, spec) ==
    LET own == {x \in run.execs : x.index = i}
    IN  \A f \in CapturedBy(rows, i, spec.name), k \in DOMAIN spec.capture :
            k \in DOMAIN f /\ IsTxHash(spec.capture[k]) =>
                IF own = {} THEN f[k] = "null" ELSE \E x \in own : f[k] = x.hash

(* A captured transaction hash is the hash of a row of its own action, or  *)
(* null where the action has none (tools.rs capture_records_for_run).      *)
HashesAgree ==
    doc.topic = "capture" /\ NamesDiffer(doc.run) =>
        \A i \in DOMAIN doc.run.actions, j \in DOMAIN doc.run.specs :
            HashAgrees(doc.run, doc.rows, i, doc.run.specs[j])

(* What is captured of a run is what the run sent.                         *)
CapturesWhatIsSent == SelectorsAgree /\ ArgumentsAgree /\ HashesAgree

=============================================================================
