----------------------------- MODULE RunPipeline -----------------------------
(***************************************************************************)
(* The run pipeline of executor-mcp (run_strategy_with_event and           *)
(* execute_approved_actions in tools.rs): concurrent strategy runs, each   *)
(* an async task that snapshots the policy, executes the strategy, passes  *)
(* its actions through the policy and the simulation gates, and broadcasts *)
(* what was approved, one transaction after the other or as one EIP-7702   *)
(* batch.  Every store call is one step (one acquisition of the store's    *)
(* mutex); between two of them other runs, policy_set, the chain and a     *)
(* crash of the server may act.                                            *)
(***************************************************************************)
EXTENDS PolicyModel, Sequences

CONSTANTS
  Runs,         \* calls of run_strategy_with_event
  Policies,     \* what policy_set installs
  Decisions,    \* the normalized actions strategies emit
  Noop,         \* Action::Noop
  MaxActions,   \* bound on the length of Action[] (MAX_ACTIONS_PER_RUN)
  Outputs,      \* the Action[] that strategies return
  AaDelegate,   \* is an EIP-7702 delegate configured?
  CanCrash      \* does the server crash in this instance?

Index == 1..MaxActions
Item == Decisions \cup {Noop}
ActionList == UNION { [1..n -> Item] : n \in 0..MaxActions }

ASSUME RunPipelineAssumption ==
  /\ Policies \subseteq LoadedPolicy
  /\ None \notin Policies
  /\ Decisions \subseteq Decision
  /\ Noop \notin Decisions
  /\ MaxActions \in Nat
  /\ Outputs \subseteq ActionList
  /\ AaDelegate \in BOOLEAN
  /\ CanCrash \in BOOLEAN

VARIABLES
  \* SQLite tables
  status,      \* runs.status, None: no row
  journal,     \* journal_actions of the run, outcomes in order
  policyRow,   \* journal_decisions, gate = policy, per action
  simRow,      \* journal_decisions, gate = simulation, per action
  exec,        \* execution_actions, per action
  captured,    \* does strategy_records_capture hold rows of the run?
  \* server memory
  memPolicy,   \* Arc<RwLock<Option<LoadedPolicy>>>
  chainKnown,  \* chain_id_cell is set
  delegateOk,  \* aa_delegate_verified: None, TRUE or FALSE
  \* locals of a run's task
  pc, snap, acts, outcome, cur, tally, fail, exit,
  \* the chain
  tx,          \* tx[r][i]: the transaction first sent for action i of run r
  deployed     \* is there code at the delegate's address?

tables == <<status, journal, policyRow, simRow, exec, captured>>
memory == <<memPolicy, chainKnown, delegateOk>>
locals == <<pc, snap, acts, outcome, cur, tally, fail, exit>>
world  == <<tx, deployed>>
vars   == <<tables, memory, locals, world>>

Terminal == {"succeeded", "failed", "simulation_denied", "policy_denied"}
Status == {"queued", "running"} \cup Terminal
JournalOutcome == {"noop", "actions", "validation_error", "runtime_error",
                   "simulation_failure", "policy_denied"}
ErrorKind == {"signer_not_configured", "delegate_not_deployed",
              "broadcast_failed", "receipt_timeout", "receipt_failed"}
TxState == {"unsent", "pending", "success", "reverted"}
ExecRow ==
  [ status  : {"broadcasted", "confirmed", "failed"},
    tx      : Index \cup {None},    \* tx_hash, by the index it was sent for
    receipt : {None, "success", "reverted"},
    error   : ErrorKind \cup {None} ]

\* How a failing run ends: the execution error to record (if idx # 0), the
\* journal outcome, the terminal status.
Failure ==
  [ idx     : Index \cup {0},
    error   : ErrorKind \cup {None},
    journal : JournalOutcome,
    status  : Terminal ]
\* None is not one of the values it stands in for.
ASSUME NullAssumption ==
  /\ None \notin ExecRow \cup Status \cup {"pass", "fail", "skipped", "ok", "error"}
  /\ None \notin ErrorKind \cup {"success", "reverted", "storage", "crash"}
  /\ None \notin BOOLEAN

NoFailure == [idx |-> 0, error |-> None, journal |-> "runtime_error",
              status |-> "failed"]

Phase == {"idle", "load", "queued", "execute", "chain_id", "policy",
          "skip_sim", "simulate", "signer", "preflight", "send", "record",
          "wait", "receipt", "journal", "capture", "finish",
          "fail_exec", "fail_journal", "fail_status", "done"}
Exit == {None, "ok", "error", "rejected", "rpc", "storage", "crash"}

Live(r) == pc[r] \notin {"idle", "done"}

-----------------------------------------------------------------------------
(* The run's action list.                                                  *)
Executable(r) == { i \in DOMAIN acts[r] : acts[r][i] # Noop }
First(r) == CHOOSE i \in Executable(r) : \A j \in Executable(r) : i <= j

\* The loops over `normalized` skip its None entries.
IsNext(r, i) ==
  /\ i \in Executable(r)
  /\ i > cur[r]
  /\ \A j \in Executable(r) : j > cur[r] => i <= j

IsLast(r, i) == \A j \in Executable(r) : j <= i

Batching(r) == AaDelegate /\ \E i, j \in Executable(r) : i # j

\* The transaction that carries action i.
Carrier(r, i) == IF Batching(r) THEN First(r) ELSE i

Init ==
  /\ status = [r \in Runs |-> None]
  /\ journal = [r \in Runs |-> <<>>]
  /\ policyRow = [r \in Runs |-> [i \in Index |-> None]]
  /\ simRow = [r \in Runs |-> [i \in Index |-> None]]
  /\ exec = [r \in Runs |-> [i \in Index |-> None]]
  /\ captured = [r \in Runs |-> FALSE]
  /\ memPolicy \in Policies \cup {None}
  /\ chainKnown = FALSE
  /\ delegateOk = None
  /\ pc = [r \in Runs |-> "idle"]
  /\ snap = [r \in Runs |-> None]
  /\ acts = [r \in Runs |-> <<>>]
  /\ outcome = [r \in Runs |-> None]
  /\ cur = [r \in Runs |-> 0]
  /\ tally = [r \in Runs |-> EmptyTally]
  /\ fail = [r \in Runs |-> NoFailure]
  /\ exit = [r \in Runs |-> None]
  /\ tx = [r \in Runs |-> [i \in Index |-> "unsent"]]
  /\ deployed \in BOOLEAN

-----------------------------------------------------------------------------
At(r, l) == pc[r] = l
Goto(r, l) == pc' = [pc EXCEPT ![r] = l] /\ UNCHANGED exit
Return(r, why) ==
  /\ pc' = [pc EXCEPT ![r] = "done"]
  /\ exit' = [exit EXCEPT ![r] = why]

\* Continue with the failure tail: record_execution_error (i # 0), the
\* journal row, the terminal status.
FailWith(r, i, err, j, st) ==
  /\ fail' = [fail EXCEPT ![r] =
                [idx |-> i, error |-> err, journal |-> j, status |-> st]]
  /\ Goto(r, IF i = 0 THEN "fail_journal" ELSE "fail_exec")
FailExecution(r, i, err) == FailWith(r, i, err, "runtime_error", "failed")
\* Leave the handler by `?` with the run row as it is.
Abandon(r, why) ==
  /\ Return(r, why)
  /\ UNCHANGED <<snap, acts, outcome, cur, tally, fail, tables>>

-----------------------------------------------------------------------------
(* STEP B: the policy is cloned before anything else happens.              *)
Start(r) ==
  /\ At(r, "idle")
  /\ snap' = [snap EXCEPT ![r] = memPolicy]
  /\ Goto(r, "load")
  /\ UNCHANGED <<acts, outcome, cur, tally, fail, tables, memory, world>>

(* STEP 2: strategy missing, soft-deleted, or its action unknown.          *)
Reject(r) ==
  /\ At(r, "load")
  /\ Abandon(r, "rejected")
  /\ UNCHANGED <<memory, world>>

(* STEP 3: the run row, as queued.                                         *)
InsertRun(r) ==
  /\ At(r, "load")
  /\ status' = [status EXCEPT ![r] = "queued"]
  /\ Goto(r, "queued")
  /\ UNCHANGED <<journal, policyRow, simRow, exec, captured, snap, acts,
                 outcome, cur, tally, fail, memory, world>>

(* update_run_status_with_transition: compare-and-set, never from a        *)
(* terminal status.                                                        *)
CanTransition(r, from) == status[r] = from /\ from \notin Terminal

Begin(r) ==
  /\ At(r, "queued")
  /\ CanTransition(r, "queued")
  /\ status' = [status EXCEPT ![r] = "running"]
  /\ Goto(r, "execute")
  /\ UNCHANGED <<journal, policyRow, simRow, exec, captured, snap, acts,
                 outcome, cur, tally, fail, memory, world>>

(* STEP 5-7 up to the gates.  chain_id is tried on the way (`.ok()`), so   *)
(* its cell may get set here.                                              *)
ResolvedOnTheWay == chainKnown' \in {chainKnown, TRUE}

ExecuteNoop(r) ==
  /\ At(r, "execute")
  /\ outcome' = [outcome EXCEPT ![r] = "noop"]
  /\ Goto(r, "journal")
  /\ ResolvedOnTheWay
  /\ UNCHANGED <<snap, acts, cur, tally, fail, tables, memPolicy, delegateOk,
                 world>>

ExecuteActions(r, list) ==
  /\ At(r, "execute")
  /\ outcome' = [outcome EXCEPT ![r] = "actions"]
  /\ acts' = [acts EXCEPT ![r] = list]
  /\ IF \A i \in DOMAIN list : list[i] = Noop
     THEN Goto(r, "journal") /\ UNCHANGED fail
     ELSE IF snap[r] = None
          THEN FailWith(r, 0, None, "runtime_error", "policy_denied")
          ELSE \/ Goto(r, "chain_id") /\ UNCHANGED fail
               \* normalize_action rejects one of them
               \/ FailWith(r, 0, None, "runtime_error", "failed")
  /\ ResolvedOnTheWay
  /\ UNCHANGED <<snap, cur, tally, tables, memPolicy, delegateOk, world>>

ExecuteBadly(r) ==
  /\ At(r, "execute")
  /\ \E j \in {"validation_error", "runtime_error"} :
       FailWith(r, 0, None, j, "failed")
  /\ ResolvedOnTheWay
  /\ UNCHANGED <<snap, acts, outcome, cur, tally, tables, memPolicy,
                 delegateOk, world>>

(* evm_provider / chain_id fail: the handler returns the EVM error.  Once  *)
(* their cells are set neither asks the node again.                        *)
RpcFails(r) ==
  /\ pc[r] \in {"execute", "chain_id"}
  /\ ~chainKnown
  /\ Abandon(r, "rpc")
  /\ UNCHANGED <<memory, world>>

ResolveChainId(r) ==
  /\ At(r, "chain_id")
  /\ chainKnown' = TRUE
  /\ Goto(r, "policy")
  /\ UNCHANGED <<snap, acts, outcome, cur, tally, fail, tables, memPolicy,
                 delegateOk, world>>

-----------------------------------------------------------------------------
(* STEP 7, policy gate: one evaluate and one decision row per action.      *)

GateTally(r) == tally[r]

\* Slip: the gate reads the shared policy instead of the snapshot.
GatePolicySlip(r) == IF memPolicy = None THEN snap[r] ELSE memPolicy
GatePolicy(r) == snap[r]

PolicyPass(r, i) ==
  /\ At(r, "policy")
  /\ IsNext(r, i)
  /\ Allowed(GatePolicy(r), acts[r][i], GateTally(r))
  /\ policyRow' = [policyRow EXCEPT ![r][i] = "pass"]
  /\ tally' = [tally EXCEPT ![r] =
                 TallyAfter(GatePolicy(r), acts[r][i], GateTally(r))]
  /\ IF IsLast(r, i)
     THEN cur' = [cur EXCEPT ![r] = 0] /\ Goto(r, "simulate")
     ELSE cur' = [cur EXCEPT ![r] = i] /\ Goto(r, "policy")
  /\ UNCHANGED <<status, journal, simRow, exec, captured, snap, acts, outcome,
                 fail, memory, world>>

PolicyDeny(r, i) ==
  /\ At(r, "policy")
  /\ IsNext(r, i)
  /\ ~Allowed(GatePolicy(r), acts[r][i], GateTally(r))
  /\ policyRow' = [policyRow EXCEPT ![r][i] = "fail"]
  /\ cur' = [cur EXCEPT ![r] = i]
  /\ Goto(r, "skip_sim")
  /\ UNCHANGED <<status, journal, simRow, exec, captured, snap, acts, outcome,
                 tally, fail, memory, world>>

SkipSim(r) ==
  /\ At(r, "skip_sim")
  /\ simRow' = [simRow EXCEPT ![r][cur[r]] = "skipped"]
  /\ FailWith(r, 0, None, "policy_denied", "policy_denied")
  /\ UNCHANGED <<status, journal, policyRow, exec, captured, snap, acts,
                 outcome, cur, tally, memory, world>>

(* Simulation gate: skipped for a batch, else eth_call.                    *)
SimPass(r, i) ==
  /\ At(r, "simulate")
  /\ IsNext(r, i)
  /\ simRow' = [simRow EXCEPT ![r][i] =
                  IF Batching(r) THEN "skipped" ELSE "pass"]
  /\ IF IsLast(r, i)
     THEN cur' = [cur EXCEPT ![r] = 0] /\ Goto(r, "signer")
     ELSE cur' = [cur EXCEPT ![r] = i] /\ Goto(r, "simulate")
  /\ UNCHANGED <<status, journal, policyRow, exec, captured, snap, acts,
                 outcome, tally, fail, memory, world>>

\* Slip: a failed simulation is recorded and the loop goes on.
SimFailOnSlip(r, i) ==
  /\ At(r, "simulate")
  /\ IsNext(r, i)
  /\ ~Batching(r)
  /\ simRow' = [simRow EXCEPT ![r][i] = "fail"]
  /\ IF IsLast(r, i)
     THEN cur' = [cur EXCEPT ![r] = 0] /\ Goto(r, "signer")
     ELSE cur' = [cur EXCEPT ![r] = i] /\ Goto(r, "simulate")
  /\ UNCHANGED <<status, journal, policyRow, exec, captured, snap, acts,
                 outcome, tally, fail, memory, world>>

SimFail(r, i) ==
  /\ At(r, "simulate")
  /\ IsNext(r, i)
  /\ ~Batching(r)
  /\ simRow' = [simRow EXCEPT ![r][i] = "fail"]
  /\ FailWith(r, 0, None, "simulation_failure", "simulation_denied")
  /\ UNCHANGED <<status, journal, policyRow, exec, captured, snap, acts,
                 outcome, cur, tally, memory, world>>

-----------------------------------------------------------------------------
(* Signing: config reload, chain id (known by now), key resolution.        *)
SignerFails(r) ==
  /\ At(r, "signer")
  /\ FailExecution(r, First(r), "signer_not_configured")
  /\ UNCHANGED <<snap, acts, outcome, cur, tally, tables, memory, world>>

\* Slip: the outcome is journaled when it is approved.
SignerReadyJournalSlip(r) ==
  /\ At(r, "signer")
  /\ journal' = [journal EXCEPT ![r] = Append(@, outcome[r])]
  /\ Goto(r, IF Batching(r) THEN "preflight" ELSE "send")
  /\ UNCHANGED <<status, policyRow, simRow, exec, captured, snap, acts,
                 outcome, cur, tally, fail, memory, world>>

SignerReady(r) ==
  /\ At(r, "signer")
  /\ Goto(r, IF Batching(r) THEN "preflight" ELSE "send")
  /\ UNCHANGED <<snap, acts, outcome, cur, tally, fail, tables, memory, world>>

(* aa_delegate_verified.get_or_try_init: the first answer of eth_getCode,  *)
(* yes or no, is kept for the server's lifetime; an error is not.          *)
DelegateVerdict == IF delegateOk = None THEN deployed ELSE delegateOk

Preflight(r) ==
  /\ At(r, "preflight")
  /\ delegateOk' = DelegateVerdict
  /\ IF DelegateVerdict
     THEN Goto(r, "send") /\ UNCHANGED fail
     ELSE FailExecution(r, First(r), "delegate_not_deployed")
  /\ UNCHANGED <<snap, acts, outcome, cur, tally, tables, memPolicy,
                 chainKnown, world>>

PreflightUnreachable(r) ==
  /\ At(r, "preflight")
  /\ delegateOk = None
  /\ Goto(r, "send")
  /\ UNCHANGED <<snap, acts, outcome, cur, tally, fail, tables, memory, world>>

\* Slip: the actions leave in any order.
SendsForSlip(r, i) == i \in Executable(r) /\ tx[r][i] = "unsent"

(* broadcast / send_7702_batch.  A batch is sent for its first action.     *)
SendsFor(r, i) == IF Batching(r) THEN i = First(r) ELSE IsNext(r, i)

Send(r, i) ==
  /\ At(r, "send")
  /\ SendsFor(r, i)
  /\ tx' = [tx EXCEPT ![r][i] = "pending"]
  /\ cur' = [cur EXCEPT ![r] = IF Batching(r) THEN 0 ELSE i]
  /\ Goto(r, "record")
  /\ UNCHANGED <<snap, acts, outcome, tally, fail, tables, memory, deployed>>

\* Slip: the error of the call leaves no row.
SendFailsSlip(r, i) ==
  /\ At(r, "send")
  /\ SendsFor(r, i)
  /\ tx' \in {tx, [tx EXCEPT ![r][i] = "pending"]}
  /\ FailExecution(r, 0, None)
  /\ UNCHANGED <<snap, acts, outcome, cur, tally, tables, memory, deployed>>

\* The call errs; the node may have accepted the transaction all the same.
SendFails(r, i) ==
  /\ At(r, "send")
  /\ SendsFor(r, i)
  /\ tx' \in {tx, [tx EXCEPT ![r][i] = "pending"]}
  /\ FailExecution(r, i, "broadcast_failed")
  /\ UNCHANGED <<snap, acts, outcome, cur, tally, tables, memory, deployed>>

\* The row(s) of the transaction just sent or mined: the current action, or
\* every action of the batch in turn.
RecordsNext(r, i) == IF Batching(r) THEN IsNext(r, i) ELSE i = cur[r]

RecordsDone(r, i) == Batching(r) => IsLast(r, i)

(* record_broadcast: upsert, clears receipt and error.                     *)
RecordBroadcast(r, i) ==
  /\ At(r, "record")
  /\ RecordsNext(r, i)
  /\ exec' = [exec EXCEPT ![r][i] =
                [status |-> "broadcasted", tx |-> Carrier(r, i),
                 receipt |-> None, error |-> None]]
  /\ IF RecordsDone(r, i)
     THEN /\ cur' = [cur EXCEPT ![r] = IF Batching(r) THEN 0 ELSE i]
          /\ Goto(r, "wait")
     ELSE /\ cur' = [cur EXCEPT ![r] = i]
          /\ Goto(r, "record")
  /\ UNCHANGED <<status, journal, policyRow, simRow, captured, snap, acts,
                 outcome, tally, fail, memory, world>>

(* wait_for_receipt                                                        *)
WaitedFor(r) == IF Batching(r) THEN First(r) ELSE cur[r]

ReceiptArrives(r) ==
  /\ At(r, "wait")
  /\ tx[r][WaitedFor(r)] \in {"success", "reverted"}
  /\ Goto(r, "receipt")
  /\ UNCHANGED <<snap, acts, outcome, cur, tally, fail, tables, memory, world>>

\* Slip: the wait has no timeout.
ReceiptFailsSlip(r) == FALSE

ReceiptFails(r) ==
  /\ At(r, "wait")
  /\ \E err \in {"receipt_timeout", "receipt_failed"} :
       FailExecution(r, WaitedFor(r), err)
  /\ UNCHANGED <<snap, acts, outcome, cur, tally, tables, memory, world>>

RowStatus(mined) == IF mined = "success" THEN "confirmed" ELSE "failed"

\* Slip: a reverted receipt does not stop the loop.
EndsRunSlip(mined) == FALSE

EndsRun(mined) == mined = "reverted"

\* Slip: each row of a batch takes the state of its own index.
MinedForSlip(r, i) == IF tx[r][i] = "success" THEN "success" ELSE "reverted"

MinedFor(r, i) == tx[r][Carrier(r, i)]

(* record_receipt_success, then for a reverted one the failure tail.       *)
RecordReceipt(r, i) ==
  /\ At(r, "receipt")
  /\ RecordsNext(r, i)
  /\ exec[r][i] # None
  /\ LET mined == MinedFor(r, i) IN
     /\ exec' = [exec EXCEPT ![r][i] =
                   [status  |-> RowStatus(mined),
                    tx      |-> exec[r][i].tx,
                    receipt |-> mined,
                    error   |-> None]]
     /\ IF ~RecordsDone(r, i)
        THEN Goto(r, "receipt") /\ UNCHANGED fail
        ELSE IF EndsRun(mined)
             THEN FailExecution(r, WaitedFor(r), "receipt_failed")
             ELSE /\ UNCHANGED fail
                  /\ Goto(r, IF Batching(r) \/ IsLast(r, i)
                             THEN "journal" ELSE "send")
  /\ cur' = [cur EXCEPT ![r] = i]
  /\ UNCHANGED <<status, journal, policyRow, simRow, captured, snap, acts,
                 outcome, tally, memory, world>>

-----------------------------------------------------------------------------

(* The failure tail.  record_execution_error keeps tx_hash and receipt of  *)
(* an existing row.                                                        *)
FailExec(r) ==
  /\ At(r, "fail_exec")
  /\ LET i == fail[r].idx IN
     exec' = [exec EXCEPT ![r][i] =
       [status  |-> "failed",
        tx      |-> IF exec[r][i] = None THEN None ELSE exec[r][i].tx,
        receipt |-> IF exec[r][i] = None THEN None ELSE exec[r][i].receipt,
        error   |-> fail[r].error]]
  /\ Goto(r, "fail_journal")
  /\ UNCHANGED <<status, journal, policyRow, simRow, captured, snap, acts,
                 outcome, cur, tally, fail, memory, world>>

FailJournal(r) ==
  /\ At(r, "fail_journal")
  /\ journal' = [journal EXCEPT ![r] = Append(@, fail[r].journal)]
  /\ Goto(r, "fail_status")
  /\ UNCHANGED <<status, policyRow, simRow, exec, captured, snap, acts,
                 outcome, cur, tally, fail, memory, world>>

\* Slip: the early return after the transition is forgotten.
FailStatusSlip(r) ==
  /\ At(r, "fail_status")
  /\ CanTransition(r, "running")
  /\ status' = [status EXCEPT ![r] = fail[r].status]
  /\ Goto(r, "journal")
  /\ UNCHANGED <<journal, policyRow, simRow, exec, captured, snap, acts,
                 outcome, cur, tally, fail, memory, world>>

FailStatus(r) ==
  /\ At(r, "fail_status")
  /\ CanTransition(r, "running")
  /\ status' = [status EXCEPT ![r] = fail[r].status]
  /\ Return(r, "error")
  /\ UNCHANGED <<journal, policyRow, simRow, exec, captured, snap, acts,
                 outcome, cur, tally, fail, memory, world>>

-----------------------------------------------------------------------------
(* The success tail: record_action, capture_records_for_run, STEP 8.       *)
RecordAction(r) ==
  /\ At(r, "journal")
  /\ journal' = [journal EXCEPT ![r] = Append(@, outcome[r])]
  /\ Goto(r, "capture")
  /\ UNCHANGED <<status, policyRow, simRow, exec, captured, snap, acts,
                 outcome, cur, tally, fail, memory, world>>

\* Best effort: no record spec may match, and a failure is only logged.
Capture(r) ==
  /\ At(r, "capture")
  /\ \/ /\ outcome[r] = "actions" /\ acts[r] # <<>>
        /\ captured' = [captured EXCEPT ![r] = TRUE]
     \/ UNCHANGED captured
  /\ Goto(r, "finish")
  /\ UNCHANGED <<status, journal, policyRow, simRow, exec, snap, acts,
                 outcome, cur, tally, fail, memory, world>>

Finish(r) ==
  /\ At(r, "finish")
  /\ CanTransition(r, "running")
  /\ status' = [status EXCEPT ![r] = "succeeded"]
  /\ Return(r, "ok")
  /\ UNCHANGED <<journal, policyRow, simRow, exec, captured, snap, acts,
                 outcome, cur, tally, fail, memory, world>>

(* A store call (or its blocking task) errs: the handler returns it.       *)
StorePhase == {"queued", "execute", "policy", "skip_sim", "simulate", "record",
               "receipt", "journal", "finish", "fail_exec", "fail_journal",
               "fail_status"}
StoreFails(r) ==
  /\ pc[r] \in StorePhase
  /\ Abandon(r, "storage")
  /\ UNCHANGED <<memory, world>>

-----------------------------------------------------------------------------
(* The rest of the system.                                                 *)

\* policy_set (PolicyStore has its two writes apart).
PolicySet(p) ==
  /\ memPolicy' = p
  /\ UNCHANGED <<chainKnown, delegateOk, tables, locals, world>>

\* The process dies and is started again: tasks and memoised answers are
\* gone, the tables stay, the active policy is read back from them.
Restart ==
  /\ CanCrash
  /\ \E r \in Runs : Live(r)
  /\ pc' = [r \in Runs |-> IF Live(r) THEN "done" ELSE pc[r]]
  /\ exit' = [r \in Runs |-> IF Live(r) THEN "crash" ELSE exit[r]]
  /\ chainKnown' = FALSE
  /\ delegateOk' = None
  /\ UNCHANGED <<tables, memPolicy, snap, acts, outcome, cur, tally, fail,
                 world>>

\* The chain includes a pending transaction.
Mine(r, i) ==
  /\ tx[r][i] = "pending"
  /\ \E s \in {"success", "reverted"} : tx' = [tx EXCEPT ![r][i] = s]
  /\ UNCHANGED <<tables, memory, locals, deployed>>

\* deploy-delegate, or anybody else, deploys BatchExec.
DeployDelegate ==
  /\ AaDelegate /\ ~deployed
  /\ deployed' = TRUE
  /\ UNCHANGED <<tables, memory, locals, tx>>

-----------------------------------------------------------------------------
Gate(r) ==
  \/ ResolveChainId(r)
  \/ \E i \in Index : PolicyPass(r, i) \/ PolicyDeny(r, i)
  \/ SkipSim(r)
  \/ \E i \in Index : SimPass(r, i) \/ SimFail(r, i)

Execution(r) ==
  \/ SignerFails(r) \/ SignerReady(r)
  \/ Preflight(r) \/ PreflightUnreachable(r)
  \/ \E i \in Index : Send(r, i) \/ SendFails(r, i)
  \/ \E i \in Index : RecordBroadcast(r, i) \/ RecordReceipt(r, i)
  \/ ReceiptArrives(r) \/ ReceiptFails(r)

Step(r) ==
  \/ Start(r) \/ Reject(r) \/ InsertRun(r) \/ Begin(r)
  \/ ExecuteNoop(r) \/ ExecuteBadly(r)
  \/ \E list \in Outputs : ExecuteActions(r, list)
  \/ Gate(r)
  \/ Execution(r)
  \/ FailExec(r) \/ FailJournal(r) \/ FailStatus(r)
  \/ RecordAction(r) \/ Capture(r) \/ Finish(r)

Fault(r) == RpcFails(r) \/ StoreFails(r)

Environment ==
  \/ \E p \in Policies : PolicySet(p)
  \/ \E r \in Runs, i \in Index : Mine(r, i)
  \/ DeployDelegate
  \/ Restart

Next == (\E r \in Runs : Step(r) \/ Fault(r)) \/ Environment

Spec == Init /\ [][Next]_vars

\* The handler awaits an answer of the node that it puts no timeout on: the
\* provider has none, and the broadcast (for a batch also its chain id and
\* nonce), the first chain_id and the first eth_getCode add none.
AwaitsNode(r) ==
  \/ At(r, "send")
  \/ At(r, "preflight") /\ delegateOk = None
  \/ pc[r] \in {"execute", "chain_id"} /\ ~chainKnown

\* The tokio runtime polls every task that is ready, and every other wait of
\* the handler ends: store calls return, and the sandbox, its reads, the
\* simulation and the wait for a receipt have timeouts.
FairSpec == Spec /\ \A r \in Runs : WF_vars(~AwaitsNode(r) /\ Step(r))

-----------------------------------------------------------------------------
TablesOK ==
  /\ status \in [Runs -> Status \cup {None}]
  /\ journal \in [Runs -> Seq(JournalOutcome)]
  /\ policyRow \in [Runs -> [Index -> {None, "pass", "fail"}]]
  /\ simRow \in [Runs -> [Index -> {None, "pass", "fail", "skipped"}]]
  /\ exec \in [Runs -> [Index -> ExecRow \cup {None}]]
  /\ captured \in [Runs -> BOOLEAN]

MemoryOK ==
  /\ memPolicy \in Policies \cup {None}
  /\ chainKnown \in BOOLEAN
  /\ delegateOk \in BOOLEAN \cup {None}

LocalsOK ==
  /\ pc \in [Runs -> Phase]
  /\ snap \in [Runs -> Policies \cup {None}]
  /\ acts \in [Runs -> ActionList]
  /\ outcome \in [Runs -> {None, "noop", "actions"}]
  /\ cur \in [Runs -> 0..MaxActions]
  /\ tally \in [Runs -> Tally]
  /\ fail \in [Runs -> Failure]
  /\ exit \in [Runs -> Exit]

WorldOK ==
  /\ tx \in [Runs -> [Index -> TxState]]
  /\ deployed \in BOOLEAN

(* Every table, cell, local and transaction holds what its type allows; in *)
(* particular a row's transaction and a failure's index are list indices.  *)
TypeOK == TablesOK /\ MemoryOK /\ LocalsOK /\ WorldOK

Sent(r, i) == tx[r][i] # "unsent"

(* No transaction leaves before every action of its run passed the policy  *)
(* gate and the simulation gate: one bad action at the end of the list     *)
(* holds back the good ones before it.  Only a run that sends two or more  *)
(* actions through a delegate skips the simulation.                        *)
GatesBeforeChain ==
  \A r \in Runs, i \in Index : Sent(r, i) =>
    \A j \in Executable(r) :
      /\ policyRow[r][j] = "pass"
      /\ \/ simRow[r][j] = "pass"
         \/ /\ simRow[r][j] = "skipped"
            /\ AaDelegate /\ Executable(r) # {j}

\* What one item of the list spends on token k.
SpendOf(item, k) ==
  IF item # Noop /\ CountsAsSpend(item) /\ SpendKey(item) = k THEN item.amount ELSE 0

\* By the length of a prefix, what its items spend on one token.
SpendUpTo(list, k) ==
  LET upTo[n \in 0..Len(list)] ==
        IF n = 0 THEN 0 ELSE upTo[n - 1] + SpendOf(list[n], k)
  IN  upTo

RunSpend(r, k) == SpendUpTo(acts[r], k)[Len(acts[r])]

(* What reached the chain is what one policy, the one in force when the    *)
(* run started, permits: every action by itself, and all the ERC20 amounts *)
(* of the run together within each token's cap.  policy_set in the middle  *)
(* of a run neither widens nor narrows it halfway.                         *)
ChainWithinSnapshot ==
  \A r \in Runs : (\E i \in Index : Sent(r, i)) =>
    /\ snap[r] # None
    /\ \A j \in Executable(r) : Allowed(snap[r], acts[r][j], EmptyTally)
    /\ \A k \in ChainContract :
         snap[r].erc20[k] # None /\ snap[r].erc20[k] < MaxU256
           => RunSpend(r, k) <= snap[r].erc20[k]

(* Without a batch the actions form a prefix on the chain: the next one is *)
(* sent only after the one before was mined with success and its row says  *)
(* confirmed.                                                              *)
SequentialPrefix ==
  \A r \in Runs, i \in Index :
    Sent(r, i) /\ ~Batching(r) =>
      \A j \in Executable(r) : j < i =>
        tx[r][j] = "success" /\ exec[r][j].status = "confirmed"

(* An execution row never claims what the chain does not show: confirmed   *)
(* only when its transaction succeeded, a receipt only as mined.  (The     *)
(* converse fails by design: a timed-out row is failed, its transaction    *)
(* may still succeed.)                                                     *)
RowsMatchChain ==
  \A r \in Runs, i \in Index : exec[r][i] # None =>
    LET row == exec[r][i] IN
    /\ row.status = "confirmed" <=> row.receipt = "success"
    /\ row.tx # None => Sent(r, row.tx)
    /\ row.receipt # None => row.tx # None /\ tx[r][row.tx] = row.receipt

(* A transaction without an execution row is in the window between the     *)
(* broadcast and record_execution_broadcast, or its handler was cut short  *)
(* there by the store or a crash; the row of a lost broadcast response has *)
(* no hash but says broadcast_failed.                                      *)
OrphansExplained ==
  \A r \in Runs, i \in Index : Sent(r, i) =>
    \/ exec[r][i] # None /\ exec[r][i].tx = i
    \/ exec[r][i] # None /\ exec[r][i].error = "broadcast_failed"
    \/ pc[r] \in {"record", "fail_exec"}
    \/ exit[r] \in {"storage", "crash"}

(* The rows of a batch share one transaction, so they cannot disagree: no  *)
(* row is confirmed while another one was reverted or failed.              *)
BatchRowsAgree ==
  \A r \in Runs : AaDelegate =>
    \A i, j \in Executable(r) : i # j /\ exec[r][i] # None /\ exec[r][j] # None
      => /\ exec[r][i].tx = exec[r][j].tx
         /\ exec[r][i].status = "confirmed" => exec[r][j].status # "failed"

(* The memoised answer about the delegate's code is never an unfounded yes:*)
(* a batch that did not fall through an unreachable node goes to code.     *)
DelegateMemoSound == delegateOk = TRUE => deployed

(* A succeeded run has a confirmed row for every executable action and     *)
(* exactly one journal row that says noop or actions.                      *)
SucceededIsComplete ==
  \A r \in Runs : status[r] = "succeeded" =>
    /\ journal[r] = <<outcome[r]>>
    /\ \A i \in Executable(r) :
         exec[r][i] # None /\ exec[r][i].status = "confirmed"

(* policy_denied and simulation_denied mean that nothing happened: no      *)
(* transaction, no execution row, no captured record.                      *)
DeniedIsInert ==
  \A r \in Runs : status[r] \in {"policy_denied", "simulation_denied"} =>
    /\ \A i \in Index : ~Sent(r, i) /\ exec[r][i] = None
    /\ ~captured[r]

(* The journal of a run holds at most one outcome, and a terminal status   *)
(* agrees with it (journal.rs: "one row per run carrying the outcome").    *)
JournalAgrees ==
  \A r \in Runs :
    /\ Len(journal[r]) <= 1
    /\ status[r] \in Terminal => Len(journal[r]) = 1
    /\ status[r] = "failed" => journal[r][1] \in {"validation_error",
                                                  "runtime_error"}
    /\ status[r] = "simulation_denied" => journal[r][1] = "simulation_failure"
    /\ status[r] = "policy_denied" => journal[r][1] \in {"policy_denied",
                                                         "runtime_error"}

(* A handler that answers with a result or a strategy error has settled    *)
(* its run; only an aborted handler can leave a run that is not terminal.  *)
AnsweredMeansSettled ==
  \A r \in Runs : status[r] \in Terminal <=> exit[r] \in {"ok", "error"}

(* Records are captured from executed runs only: every executable action   *)
(* is confirmed on the chain when the first row is written.                *)
CaptureAfterConfirm ==
  \A r \in Runs : captured[r] =>
    \A i \in Executable(r) : exec[r][i] # None
                             /\ tx[r][Carrier(r, i)] = "success"

(* The rows, the chain and the captured records of a run agree, however    *)
(* its handler was cut short.                                              *)
RowsTruthful == RowsMatchChain /\ OrphansExplained /\ CaptureAfterConfirm

(* What the caller of a run was told, its journal and its status agree, and*)
(* a denial means that nothing happened.                                   *)
AnswersTruthful == JournalAgrees /\ AnsweredMeansSettled /\ DeniedIsInert

(* A batch succeeds and fails as a whole, in its rows and in its run.      *)
BatchIsWhole == SucceededIsComplete /\ BatchRowsAgree

(* A settled run is history: nobody changes its status, journal or rows,   *)
(* nor sends anything more for it.                                         *)
SettledIsFrozen ==
  [][\A r \in Runs : status[r] \in Terminal =>
       /\ <<status[r], journal[r], exec[r]>>' = <<status[r], journal[r], exec[r]>>
       /\ \A i \in Index : tx[r][i] = "unsent" => tx'[r][i] = "unsent"]_vars


(* What the delegate_not_deployed error promises: after deploy-delegate    *)
(* the retry no longer fails for want of the delegate.                     *)
RetryAfterDeploy ==
  [][\A r \in Runs : Preflight(r) /\ deployed => pc'[r] = "send"]_vars

(* Under the fairness of FairSpec every run that was accepted settles,     *)
(* unless its handler was cut short by the node, the store or a crash, or  *)
(* hangs for ever in a call of the node that has no timeout; nothing else  *)
(* keeps it from its end.                                                  *)
RunSettles ==
  \A r \in Runs :
    status[r] = "queued" ~>
      \/ status[r] \in Terminal
      \/ exit[r] \in {"rpc", "storage", "crash"}
      \/ []AwaitsNode(r)

-----------------------------------------------------------------------------
(* The contract of a run, and the pipeline as an implementation of it.     *)
GatesPassed(r) ==
  /\ Executable(r) # {}
  /\ \A i \in Executable(r) :
       policyRow[r][i] = "pass" /\ simRow[r][i] \in {"pass", "skipped"}

Handed(r) ==
  { i \in Executable(r) : Sent(r, Carrier(r, i)) }

Contract == INSTANCE RunContract WITH
  wanted  <- [r \in Runs |-> Executable(r)],
  granted <- [r \in Runs |-> GatesPassed(r)],
  sent    <- [r \in Runs |-> Handed(r)]

ImplementsContract == Contract!Spec

=============================================================================
