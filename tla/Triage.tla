------------------------------- MODULE Triage -------------------------------
(***************************************************************************)
(* The triage_run prompt (prompts.rs): what the server says of a run from  *)
(* the rows RunPipeline leaves.  It reads the run, its journal, its        *)
(* execution rows and the receipts of their transactions, which the node   *)
(* answers, withholds or times out on.                                     *)
(***************************************************************************)
EXTENDS RunPipeline

Rows(r) == {i \in Index : exec[r][i] # None}
Hashes(r) == {exec[r][i].tx : i \in Rows(r)} \ {None}

(***************************************************************************)
(* A fetched receipt shows the transaction as it was mined; a revert may   *)
(* name a reason, which the next heuristics search for a few words.        *)
(***************************************************************************)
FetchReceipt(r, t) ==
    {[kind |-> "not_found"], [kind |-> "error"]}
    \cup (IF tx[r][t] \in {"success", "reverted"}
          THEN {[kind |-> "found", status |-> tx[r][t], reason |-> why] :
                   why \in IF tx[r][t] = "reverted" THEN {None, "balance", "other"} ELSE {None}}
          ELSE {})

Fetches(r) ==
    {f \in [Hashes(r) -> UNION {FetchReceipt(r, t) : t \in Hashes(r)}] :
        \A t \in Hashes(r) : f[t] \in FetchReceipt(r, t)}

AnyNoop(r) == \E j \in DOMAIN journal[r] : journal[r][j] = "noop"

OutcomeLabel(r) ==
    CASE status[r] = "succeeded" /\ AnyNoop(r) /\ Rows(r) = {} -> "noop"
      [] status[r] \in {"failed", "policy_denied", "simulation_denied"} -> "failed"
      [] OTHER -> status[r]

\* The row statuses that the report sorts by; "succeeded" is not one that
\* record_receipt_success writes.
ClassifyActionStatus(row) ==
    IF row.status \in {"succeeded", "failed"} THEN row.status ELSE "other"

Listed(r, class) == {i \in Rows(r) : ClassifyActionStatus(exec[r][i]) = class}

\* Slip: a failed simulation is not among the outcomes.
FailureOutcomesSlip == {"validation_error", "runtime_error", "policy_denied"}

FailureOutcomes ==
    {"validation_error", "runtime_error", "simulation_failure", "policy_denied"}

\* The failed rows, and the failures of the journal whose ordinal has none.
WhatFailed(r) ==
    {<<"row", i>> : i \in Listed(r, "failed")}
    \cup {<<"journal", j>> : j \in {j \in DOMAIN journal[r] :
             journal[r][j] \in FailureOutcomes /\ j \notin Rows(r)}}

RevertReason(r, i, fetch) ==
    LET row == exec[r][i]
    IN  IF row.error # None THEN row.error
        ELSE IF row.tx # None /\ fetch[row.tx].kind = "found" THEN fetch[row.tx].reason
        ELSE None

(***************************************************************************)
(* The heuristics, in their order.  A verdict "fail" of either gate counts *)
(* as a policy denial.                                                     *)
(***************************************************************************)
PolicyDenied(r) == \E i \in Index : policyRow[r][i] = "fail" \/ simRow[r][i] = "fail"

\* Slip: only the first failed row is asked.
PreconditionNotMetSlip(r, fetch) ==
    \E i \in Listed(r, "failed") :
        /\ \A j \in Listed(r, "failed") : i <= j
        /\ RevertReason(r, i, fetch) = "balance"

PreconditionNotMet(r, fetch) ==
    \E i \in Listed(r, "failed") : RevertReason(r, i, fetch) = "balance"

OpaqueRevert(r, fetch) ==
    \E i \in Listed(r, "failed") :
        LET row == exec[r][i]
        IN  /\ row.tx # None /\ fetch[row.tx].kind = "found"
            /\ fetch[row.tx].status = "reverted" \/ row.receipt = "reverted"
            /\ fetch[row.tx].reason = None /\ row.error = None

DeriveLikelyCause(r, fetch) ==
    IF PolicyDenied(r) THEN "policy gate"
    ELSE IF PreconditionNotMet(r, fetch) THEN "precondition"
    ELSE IF OpaqueRevert(r, fetch) THEN "opaque revert"
    ELSE IF OutcomeLabel(r) = "noop" THEN "noop"
    ELSE IF \E t \in Hashes(r) : fetch[t].kind = "error" THEN "rpc"
    ELSE "unknown"

TriageRun(r, fetch) ==
    [label     |-> OutcomeLabel(r),
     succeeded |-> Listed(r, "succeeded"),
     failed    |-> WhatFailed(r),
     cause     |-> DeriveLikelyCause(r, fetch)]

(* The triage of a settled run, whatever the node answers about its        *)
(* receipts: something stands under "What failed" exactly when the run     *)
(* failed; a denial by the policy is always told as the policy gate, which *)
(* is told of denied runs only, those that a simulation denied among them  *)
(* (the first heuristic does not look at the gate of a decision row), so   *)
(* that nothing was sent; and a no-op is told exactly of the runs labelled *)
(* so, of which nothing was sent either (triage_run, derive_likely_cause). *)
TriageTellsTheRun ==
    \A r \in Runs : status[r] \in Terminal =>
        \A fetch \in Fetches(r) :
            LET report == TriageRun(r, fetch)
            IN  /\ report.label = "failed" <=> report.failed # {}
                /\ (\E i \in Index : policyRow[r][i] = "fail") => report.cause = "policy gate"
                /\ report.cause = "policy gate" =>
                       status[r] \in {"policy_denied", "simulation_denied"}
                /\ report.label = "noop" <=> report.cause = "noop"
                /\ report.cause \in {"policy gate", "noop"} => \A i \in Index : ~Sent(r, i)

\* The reason the node gives for the revert of a transaction of the run.
RevertTold(r, fetch, why) ==
    \E i \in Rows(r) : /\ exec[r][i].receipt = "reverted"
                       /\ fetch[exec[r][i].tx].kind = "found"
                       /\ fetch[exec[r][i].tx].reason = why

(* A reverted batch is explained by the revert the node shows: by its      *)
(* reason when that names a balance, as opaque when it has none (the error *)
(* on the batch's first row hides the receipt from that row only, so the   *)
(* other rows tell it).  A run explained by a revert failed and had a      *)
(* transaction reverted.                                                   *)
BatchRevertIsExplained ==
    \A r \in Runs : status[r] \in Terminal =>
        \A fetch \in Fetches(r) :
            LET cause == TriageRun(r, fetch).cause
            IN  /\ Batching(r) =>
                       /\ cause = "precondition" <=> RevertTold(r, fetch, "balance")
                       /\ cause = "opaque revert" <=> RevertTold(r, fetch, None)
                /\ cause \in {"precondition", "opaque revert"} =>
                       /\ status[r] = "failed"
                       /\ \E i \in Index : tx[r][i] = "reverted"
=============================================================================
