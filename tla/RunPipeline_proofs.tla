-------------------------- MODULE RunPipeline_proofs --------------------------
(***************************************************************************)
(* Proofs about the run pipeline for every number of runs, every policy,   *)
(* every list of actions and every interleaving.  First the shape of a     *)
(* run's action list, then typing, then the inductive invariant IInv and   *)
(* what follows from it, the refinement of RunContract included; last what *)
(* a run may spend.                                                        *)
(***************************************************************************)
EXTENDS RunPipeline, WellFoundedInduction, TLAPS

(* Phases, in the order of the handler.                                    *)
Early == {"idle", "load", "queued", "execute"}
Gating == {"chain_id", "policy", "skip_sim", "simulate"}
Approved == {"signer", "preflight"}
Sending == {"send", "record", "wait", "receipt"}
Closing == {"journal", "capture", "finish"}
Failing == {"fail_exec", "fail_journal", "fail_status"}
Denied == {"simulation_denied", "policy_denied"}

(* A run past the sandbox has an outcome; one that is being judged or      *)
(* executed has at least one action to execute; a receipt, once there, is  *)
(* the receipt of the transaction waited for.                              *)
Shape(r) ==
  /\ pc[r] \in Gating \cup Approved \cup Sending \cup Closing =>
       outcome[r] \in {"noop", "actions"}
  /\ pc[r] \in Gating \cup Approved \cup Sending => Executable(r) # {}
  /\ pc[r] = "receipt" => tx[r][WaitedFor(r)] \in {"success", "reverted"}

TypeInv == TypeOK /\ \A r \in Runs : Shape(r)

(* The run's row follows its handler, and so does the answer.              *)
PhaseInv(r) ==
  /\ pc[r] \in {"idle", "load"} => status[r] = None
  /\ pc[r] = "queued" => status[r] = "queued"
  /\ pc[r] \notin {"idle", "load", "queued", "done"} => status[r] = "running"
  /\ pc[r] # "done" => exit[r] = None
  /\ status[r] \in Terminal <=> exit[r] \in {"ok", "error"}
  /\ pc[r] \in Failing => fail[r].status # "succeeded"

(* A failure's journal outcome and terminal status belong together.        *)
Agrees(j, st) ==
  /\ st = "failed" => j \in {"validation_error", "runtime_error"}
  /\ st = "simulation_denied" => j = "simulation_failure"
  /\ st = "policy_denied" => j \in {"policy_denied", "runtime_error"}

JournalInv(r) ==
  /\ pc[r] \notin {"capture", "finish", "fail_status", "done"} => journal[r] = <<>>
  /\ pc[r] \in {"capture", "finish"} => journal[r] = <<outcome[r]>>
  /\ pc[r] = "fail_status" => journal[r] = <<fail[r].journal>>
  /\ pc[r] \in Failing => Agrees(fail[r].journal, fail[r].status)
  /\ Len(journal[r]) <= 1
  /\ status[r] \in Terminal =>
       Len(journal[r]) = 1 /\ Agrees(journal[r][1], status[r])
  /\ status[r] = "succeeded" => journal[r] = <<outcome[r]>>

(* Nothing happened yet, or never will.                                    *)
Untouched(r) == \A i \in Index : ~Sent(r, i) /\ exec[r][i] = None

InertInv(r) ==
  /\ pc[r] \in Early \cup Gating \cup Approved => Untouched(r)
  /\ pc[r] \in Failing /\ fail[r].status \in Denied =>
       pc[r] # "fail_exec" /\ Untouched(r)
  /\ pc[r] \notin {"finish", "done"} => ~captured[r]
  /\ status[r] \in Denied => Untouched(r) /\ ~captured[r]

(* The gates have judged a prefix of the list.                             *)
SimPassed(r, j) ==
  simRow[r][j] = "pass" \/ (simRow[r][j] = "skipped" /\ Batching(r))

AllPassed(r) ==
  /\ Executable(r) # {}
  /\ \A j \in Executable(r) : policyRow[r][j] = "pass" /\ SimPassed(r, j)

GateInv(r) ==
  /\ pc[r] \in Early => acts[r] = <<>>
  /\ pc[r] \in Early \cup {"chain_id"} \cup Approved => cur[r] = 0
  /\ pc[r] \in Early \cup {"chain_id", "policy", "skip_sim"} =>
       \A i \in Index : simRow[r][i] = None
  /\ pc[r] = "policy" =>
       \A j \in Executable(r) : j <= cur[r] => policyRow[r][j] = "pass"
  /\ pc[r] = "skip_sim" =>
       cur[r] \in Executable(r) /\ policyRow[r][cur[r]] = "fail"
  /\ pc[r] = "simulate" =>
       \A j \in Executable(r) :
         /\ policyRow[r][j] = "pass"
         /\ j <= cur[r] => SimPassed(r, j)
         /\ j > cur[r] => simRow[r][j] = None
  /\ pc[r] \in Approved \cup Sending => AllPassed(r)
  /\ (\E i \in Index : Sent(r, i)) => AllPassed(r)

(* What is on the chain, without and with a batch.                         *)
Done(r, j) ==
  tx[r][j] = "success" /\ exec[r][j] # None /\ exec[r][j].status = "confirmed"

SequenceInv(r) ==
  /\ \A i \in Index : Sent(r, i) => i \in Executable(r)
  /\ \A i, j \in Executable(r) : Sent(r, i) /\ j < i => Done(r, j)
  /\ pc[r] = "send" =>
       \A j \in Executable(r) : IF j <= cur[r] THEN Done(r, j) ELSE ~Sent(r, j)
  /\ pc[r] \in {"record", "wait", "receipt"} =>
       /\ cur[r] \in Executable(r) /\ Sent(r, cur[r])
       /\ \A j \in Executable(r) : j < cur[r] => Done(r, j)
       /\ \A j \in Executable(r) : j > cur[r] => ~Sent(r, j)
  /\ pc[r] = "fail_exec" => \A j \in Index : Sent(r, j) => j <= fail[r].idx
  /\ pc[r] \in Closing => \A j \in Executable(r) : Done(r, j)

BatchInv(r) ==
  /\ \A i \in Index : Sent(r, i) => i = First(r)
  /\ pc[r] = "send" => ~Sent(r, First(r)) 
  /\ pc[r] \in {"record", "wait", "receipt"} \cup Closing => Sent(r, First(r))

ChainInv(r) == IF Batching(r) THEN BatchInv(r) ELSE SequenceInv(r)

RunInv(r) == PhaseInv(r) /\ JournalInv(r) /\ InertInv(r) /\ GateInv(r) /\ ChainInv(r)
IInv == TypeInv /\ \A r \in Runs : RunInv(r)

-----------------------------------------------------------------------------
(* The spend tally of the policy evaluator.                                *)

(* A decision that counts as spend has an amount and a key.                *)
LEMMA SpendType ==
  ASSUME NEW d \in Decision, CountsAsSpend(d)
  PROVE  d.amount \in U256 /\ SpendKey(d) \in ChainContract
BY DEF Decision, CountsAsSpend, SpendKey, ChainContract

(* The saturating sum stays in U256.                                       *)
LEMMA NextSpendType ==
  ASSUME NEW d \in Decision, NEW t \in Tally, CountsAsSpend(d)
  PROVE  NextSpend(d, t) \in U256
<1>1. d.amount \in U256 /\ SpendKey(d) \in ChainContract
  BY SpendType
<1>2. t[SpendKey(d)] \in U256
  BY <1>1 DEF Tally
<1>3. QED
  BY <1>1, <1>2, MaxU256Assumption DEF NextSpend, SaturatingAdd, U256

(* What evaluate leaves in the tally.                                      *)
LEMMA TallyAfterType ==
  ASSUME NEW p, NEW d \in Decision, NEW t \in Tally
  PROVE  TallyAfter(p, d, t) \in Tally
<1>1. CASE Allowed(p, d, t) /\ CountsAsSpend(d)
  <2>1. NextSpend(d, t) \in U256
    BY <1>1, NextSpendType
  <2>2. [t EXCEPT ![SpendKey(d)] = NextSpend(d, t)] \in Tally
    BY <2>1 DEF Tally
  <2>3. QED
    BY <1>1, <2>2 DEF TallyAfter
<1>2. CASE ~(Allowed(p, d, t) /\ CountsAsSpend(d))
  BY <1>2 DEF TallyAfter
<1>3. QED
  BY <1>1, <1>2

-----------------------------------------------------------------------------
(* The action list.                                                        *)
LEMMA LeastInt ==
  ASSUME NEW T \in SUBSET Nat, T # {}
  PROVE  \E x \in T : \A y \in T : x <= y
<1>1. PICK x \in T : \A y \in T : ~(<<y, x>> \in OpToRel(<, Nat))
  BY NatLessThanWellFounded, WFMin
<1>2. \A y \in T : ~(y < x)
  BY <1>1 DEF OpToRel
<1>3. QED
  BY <1>2

LEMMA ListType ==
  ASSUME NEW list \in ActionList
  PROVE  /\ DOMAIN list \subseteq Index
         /\ \A i \in DOMAIN list : list[i] \in Item
<1>1. PICK n \in 0..MaxActions : list \in [1..n -> Item]
  BY DEF ActionList
<1>2. QED
  BY <1>1, RunPipelineAssumption DEF Index

LEMMA ExecutableType ==
  ASSUME TypeOK, NEW r \in Runs
  PROVE  /\ Executable(r) \subseteq Index
         /\ Executable(r) \in SUBSET Nat
         /\ \A i \in Executable(r) : acts[r][i] \in Decision
<1>1. acts[r] \in ActionList
  BY DEF TypeOK, LocalsOK
<1>2. Executable(r) \subseteq Index
  BY <1>1, ListType DEF Executable
<1>3. \A i \in Executable(r) : acts[r][i] \in Decisions
  BY <1>1, ListType DEF Executable, Item
<1>4. Index \subseteq Nat
  BY RunPipelineAssumption DEF Index
<1>5. QED
  BY <1>2, <1>3, <1>4, RunPipelineAssumption

LEMMA Positions ==
  ASSUME TypeOK, NEW r \in Runs
  PROVE  /\ cur[r] \in Nat
         /\ \A j \in Executable(r) : j \in Nat /\ j > 0
<1>1. MaxActions \in Nat
  BY RunPipelineAssumption
<1>2. cur[r] \in Nat
  BY <1>1 DEF TypeOK, LocalsOK
<1>3. \A j \in Index : j \in Nat /\ j > 0
  BY <1>1 DEF Index
<1>4. QED
  BY <1>2, <1>3, ExecutableType

LEMMA FirstType ==
  ASSUME TypeOK, NEW r \in Runs, Executable(r) # {}
  PROVE  /\ First(r) \in Executable(r)
         /\ \A j \in Executable(r) : First(r) <= j
<1>1. \E x \in Executable(r) : \A y \in Executable(r) : x <= y
  BY ExecutableType, LeastInt
<1>2. QED
  BY <1>1 DEF First

(* An action that leaves the list alone leaves what is derived from it.    *)
LEMMA ListKept ==
  ASSUME NEW r, acts'[r] = acts[r]
  PROVE  /\ Executable(r)' = Executable(r)
         /\ First(r)' = First(r)
         /\ Batching(r)' = Batching(r)
BY DEF Executable, First, Batching

-----------------------------------------------------------------------------
(* Typing.                                                                 *)
LEMMA InitTypeInv == Init => TypeInv
<1> SUFFICES ASSUME Init PROVE TypeInv
  OBVIOUS
<1>1. EmptyTally \in Tally
  BY MaxU256Assumption DEF EmptyTally, Tally, U256
<1>2. << >> \in ActionList
  <2>1. << >> \in [1..0 -> Item] /\ 0 \in 0..MaxActions
    BY RunPipelineAssumption
  <2>2. QED
    BY <2>1 DEF ActionList
<1>3. NoFailure \in Failure
  BY DEF NoFailure, Failure, JournalOutcome, Terminal
<1>4. TypeOK
  <2>1. TablesOK
    BY DEF Init, TablesOK
  <2>2. MemoryOK
    BY DEF Init, MemoryOK
  <2>3. LocalsOK
    BY <1>1, <1>2, <1>3, RunPipelineAssumption DEF Init, LocalsOK, Phase, Exit
  <2>4. WorldOK
    BY DEF Init, WorldOK, TxState
  <2>5. QED
    BY <2>1, <2>2, <2>3, <2>4 DEF TypeOK
<1>5. \A r \in Runs : Shape(r)
  BY DEF Init, Shape, Gating, Approved, Sending, Closing
<1>6. QED
  BY <1>4, <1>5 DEF TypeInv

(* What a step leaves alone keeps its type.                                *)
LEMMA PartsKept ==
  ASSUME TypeOK
  PROVE  /\ UNCHANGED tables => TablesOK'
         /\ UNCHANGED memory => MemoryOK'
         /\ UNCHANGED locals => LocalsOK'
         /\ UNCHANGED world => WorldOK'
BY DEF TypeOK, tables, memory, locals, world, TablesOK, MemoryOK, LocalsOK, WorldOK

LEMMA GotoType ==
  ASSUME LocalsOK, NEW r \in Runs, NEW l \in Phase, Goto(r, l)
  PROVE  pc' \in [Runs -> Phase] /\ exit' \in [Runs -> Exit]
BY DEF LocalsOK, Goto

LEMMA FailWithType ==
  ASSUME LocalsOK, NEW r \in Runs, NEW i \in Index \cup {0},
         NEW err \in ErrorKind \cup {None}, NEW j \in JournalOutcome,
         NEW st \in Terminal, FailWith(r, i, err, j, st)
  PROVE  fail' \in [Runs -> Failure] /\ pc' \in [Runs -> Phase] /\ exit' = exit
<1>1. [idx |-> i, error |-> err, journal |-> j, status |-> st] \in Failure
  BY DEF Failure
<1>2. QED
  BY <1>1 DEF FailWith, Goto, Phase, LocalsOK

LEMMA FailExecutionType ==
  ASSUME LocalsOK, NEW r \in Runs, NEW i \in Index \cup {0},
         NEW err \in ErrorKind, FailExecution(r, i, err)
  PROVE  fail' \in [Runs -> Failure] /\ pc' \in [Runs -> Phase] /\ exit' = exit
<1>1. "runtime_error" \in JournalOutcome /\ "failed" \in Terminal
  BY DEF JournalOutcome, Terminal
<1>2. QED
  BY <1>1, FailWithType DEF FailExecution

LEMMA WaitedForType ==
  ASSUME TypeOK, NEW r \in Runs, Executable(r) # {}
  PROVE  WaitedFor(r) \in Index \cup {0}
<1>1. First(r) \in Index
  BY FirstType, ExecutableType
<1>2. cur[r] \in Index \cup {0}
  BY RunPipelineAssumption DEF TypeOK, LocalsOK, Index
<1>3. QED
  BY <1>1, <1>2 DEF WaitedFor

(* A step of a run keeps the type of every part.                           *)
LEMMA RunStepType ==
  ASSUME TypeInv, NEW r \in Runs, Step(r) \/ Fault(r)
  PROVE  TypeOK'
<1> USE DEF TypeInv
<1>1. CASE Start(r)
  <2>1. TablesOK'
    BY <1>1, PartsKept DEF Start
  <2>2. MemoryOK'
    BY <1>1, PartsKept DEF Start
  <2>3. LocalsOK'
    <3>1. pc' \in [Runs -> Phase] /\ exit' \in [Runs -> Exit]
      BY <1>1, GotoType DEF Start, TypeOK, Phase
    <3>2. snap' \in [Runs -> Policies \cup {None}]
      BY <1>1 DEF Start, TypeOK, LocalsOK, MemoryOK
    <3>3. QED
      BY <1>1, <3>1, <3>2 DEF Start, TypeOK, LocalsOK
  <2>4. WorldOK'
    BY <1>1, PartsKept DEF Start
  <2>5. QED
    BY <2>1, <2>2, <2>3, <2>4 DEF TypeOK
<1>2. CASE Reject(r)
  <2>1. TablesOK'
    BY <1>2, PartsKept DEF Reject, Abandon
  <2>2. MemoryOK'
    BY <1>2, PartsKept DEF Reject, Abandon
  <2>3. LocalsOK'
    BY <1>2 DEF Reject, TypeOK, LocalsOK, Phase, Return, Exit, Abandon
  <2>4. WorldOK'
    BY <1>2, PartsKept DEF Reject, Abandon
  <2>5. QED
    BY <2>1, <2>2, <2>3, <2>4 DEF TypeOK
<1>3. CASE InsertRun(r)
  <2>1. TablesOK'
    BY <1>3 DEF InsertRun, TypeOK, TablesOK, Status
  <2>2. MemoryOK'
    BY <1>3, PartsKept DEF InsertRun
  <2>3. LocalsOK'
    BY <1>3 DEF InsertRun, TypeOK, LocalsOK, Phase, Goto
  <2>4. WorldOK'
    BY <1>3, PartsKept DEF InsertRun
  <2>5. QED
    BY <2>1, <2>2, <2>3, <2>4 DEF TypeOK
<1>4. CASE Begin(r)
  <2>1. TablesOK'
    BY <1>4 DEF Begin, TypeOK, TablesOK, Status
  <2>2. MemoryOK'
    BY <1>4, PartsKept DEF Begin
  <2>3. LocalsOK'
    BY <1>4 DEF Begin, TypeOK, LocalsOK, Phase, Goto
  <2>4. WorldOK'
    BY <1>4, PartsKept DEF Begin
  <2>5. QED
    BY <2>1, <2>2, <2>3, <2>4 DEF TypeOK
<1>5. CASE ExecuteNoop(r)
  <2>1. TablesOK'
    BY <1>5, PartsKept DEF ExecuteNoop
  <2>2. MemoryOK'
    BY <1>5 DEF ExecuteNoop, TypeOK, MemoryOK, ResolvedOnTheWay
  <2>3. LocalsOK'
    BY <1>5 DEF ExecuteNoop, TypeOK, LocalsOK, Phase, Goto
  <2>4. WorldOK'
    BY <1>5, PartsKept DEF ExecuteNoop
  <2>5. QED
    BY <2>1, <2>2, <2>3, <2>4 DEF TypeOK
<1>6. CASE ExecuteBadly(r)
  <2>1. TablesOK'
    BY <1>6, PartsKept DEF ExecuteBadly
  <2>2. MemoryOK'
    BY <1>6 DEF ExecuteBadly, TypeOK, MemoryOK, ResolvedOnTheWay
  <2>3. LocalsOK'
    <3>1. PICK j \in {"validation_error", "runtime_error"} :
            FailWith(r, 0, None, j, "failed")
      BY <1>6 DEF ExecuteBadly
    <3>2. j \in JournalOutcome /\ "failed" \in Terminal
      BY DEF JournalOutcome, Terminal
    <3>3. fail' \in [Runs -> Failure] /\ pc' \in [Runs -> Phase] /\ exit' = exit
      BY <3>1, <3>2, FailWithType DEF TypeOK
    <3>4. QED
      BY <1>6, <3>3 DEF ExecuteBadly, TypeOK, LocalsOK
  <2>4. WorldOK'
    BY <1>6, PartsKept DEF ExecuteBadly
  <2>5. QED
    BY <2>1, <2>2, <2>3, <2>4 DEF TypeOK
<1>7. ASSUME NEW list \in Outputs, ExecuteActions(r, list)
      PROVE  TypeOK'
  <2>1. TablesOK'
    BY <1>7, PartsKept DEF ExecuteActions
  <2>2. MemoryOK'
    BY <1>7 DEF ExecuteActions, TypeOK, MemoryOK, ResolvedOnTheWay
  <2>3. LocalsOK'
    <3>1. \/ Goto(r, "journal") /\ UNCHANGED fail
          \/ Goto(r, "chain_id") /\ UNCHANGED fail
          \/ FailWith(r, 0, None, "runtime_error", "policy_denied")
          \/ FailWith(r, 0, None, "runtime_error", "failed")
      BY <1>7 DEF ExecuteActions
    <3>2. /\ "runtime_error" \in JournalOutcome
          /\ "failed" \in Terminal /\ "policy_denied" \in Terminal
          /\ "journal" \in Phase /\ "chain_id" \in Phase
      BY DEF JournalOutcome, Terminal, Phase
    <3>3. /\ pc' \in [Runs -> Phase] /\ exit' \in [Runs -> Exit]
          /\ fail' \in [Runs -> Failure]
      <4>1. LocalsOK
        BY DEF TypeOK
      <4>2. CASE Goto(r, "journal") /\ UNCHANGED fail
        BY <3>2, <4>1, <4>2, GotoType DEF LocalsOK
      <4>3. CASE Goto(r, "chain_id") /\ UNCHANGED fail
        BY <3>2, <4>1, <4>3, GotoType DEF LocalsOK
      <4>4. CASE FailWith(r, 0, None, "runtime_error", "policy_denied")
        BY <3>2, <4>1, <4>4, FailWithType DEF LocalsOK
      <4>5. CASE FailWith(r, 0, None, "runtime_error", "failed")
        BY <3>2, <4>1, <4>5, FailWithType DEF LocalsOK
      <4>6. QED
        BY <3>1, <4>2, <4>3, <4>4, <4>5
    <3>4. acts' \in [Runs -> ActionList] /\ outcome' \in [Runs -> {None, "noop", "actions"}]
      BY <1>7, RunPipelineAssumption DEF ExecuteActions, TypeOK, LocalsOK
    <3>5. QED
      BY <1>7, <3>3, <3>4 DEF ExecuteActions, TypeOK, LocalsOK
  <2>4. WorldOK'
    BY <1>7, PartsKept DEF ExecuteActions
  <2>5. QED
    BY <2>1, <2>2, <2>3, <2>4 DEF TypeOK
<1>8. CASE ResolveChainId(r)
  <2>1. TablesOK'
    BY <1>8, PartsKept DEF ResolveChainId
  <2>2. MemoryOK'
    BY <1>8 DEF ResolveChainId, TypeOK, MemoryOK
  <2>3. LocalsOK'
    BY <1>8 DEF ResolveChainId, TypeOK, LocalsOK, Phase, Goto
  <2>4. WorldOK'
    BY <1>8, PartsKept DEF ResolveChainId
  <2>5. QED
    BY <2>1, <2>2, <2>3, <2>4 DEF TypeOK
<1>9. ASSUME NEW i \in Index, PolicyPass(r, i)
      PROVE  TypeOK'
  <2>1. TablesOK'
    BY <1>9 DEF PolicyPass, TypeOK, TablesOK
  <2>2. MemoryOK'
    BY <1>9, PartsKept DEF PolicyPass
  <2>3. LocalsOK'
    <3>0. /\ i \in 0..MaxActions /\ 0 \in 0..MaxActions
          /\ {"policy", "skip_sim", "simulate", "signer", "record", "wait"} \subseteq Phase
      BY <1>9, RunPipelineAssumption DEF Phase, Index
    <3>1. PICK l \in Phase, c \in 0..MaxActions :
            Goto(r, l) /\ cur' = [cur EXCEPT ![r] = c]
      BY <1>9, <3>0 DEF PolicyPass
    <3>2. pc' \in [Runs -> Phase] /\ exit' \in [Runs -> Exit]
      BY <3>1, GotoType DEF TypeOK
    <3>3. tally' \in [Runs -> Tally]
      <4>1. i \in Executable(r) /\ acts[r][i] \in Decision
        BY <1>9, ExecutableType DEF PolicyPass, IsNext
      <4>2. TallyAfter(GatePolicy(r), acts[r][i], GateTally(r)) \in Tally
        BY <4>1, TallyAfterType DEF GateTally, TypeOK, LocalsOK
      <4>3. QED
        BY <1>9, <4>2 DEF PolicyPass, TypeOK, LocalsOK
    <3>4. QED
      BY <1>9, <3>1, <3>2, <3>3 DEF PolicyPass, TypeOK, LocalsOK
  <2>4. WorldOK'
    BY <1>9, PartsKept DEF PolicyPass
  <2>5. QED
    BY <2>1, <2>2, <2>3, <2>4 DEF TypeOK
<1>10. ASSUME NEW i \in Index, PolicyDeny(r, i)
      PROVE  TypeOK'
  <2>1. TablesOK'
    BY <1>10 DEF PolicyDeny, TypeOK, TablesOK
  <2>2. MemoryOK'
    BY <1>10, PartsKept DEF PolicyDeny
  <2>3. LocalsOK'
    <3>0. /\ i \in 0..MaxActions /\ 0 \in 0..MaxActions
          /\ {"policy", "skip_sim", "simulate", "signer", "record", "wait"} \subseteq Phase
      BY <1>10, RunPipelineAssumption DEF Phase, Index
    <3>1. PICK l \in Phase, c \in 0..MaxActions :
            Goto(r, l) /\ cur' = [cur EXCEPT ![r] = c]
      BY <1>10, <3>0 DEF PolicyDeny
    <3>2. pc' \in [Runs -> Phase] /\ exit' \in [Runs -> Exit]
      BY <3>1, GotoType DEF TypeOK
    <3>4. QED
      BY <1>10, <3>1, <3>2 DEF PolicyDeny, TypeOK, LocalsOK
  <2>4. WorldOK'
    BY <1>10, PartsKept DEF PolicyDeny
  <2>5. QED
    BY <2>1, <2>2, <2>3, <2>4 DEF TypeOK
<1>11. CASE SkipSim(r)
  <2>1. TablesOK'
    BY <1>11 DEF SkipSim, TypeOK, TablesOK
  <2>2. MemoryOK'
    BY <1>11, PartsKept DEF SkipSim
  <2>3. LocalsOK'
    <3>1. "policy_denied" \in JournalOutcome /\ "policy_denied" \in Terminal
      BY DEF JournalOutcome, Terminal
    <3>2. fail' \in [Runs -> Failure] /\ pc' \in [Runs -> Phase] /\ exit' = exit
      BY <1>11, <3>1, FailWithType DEF SkipSim, TypeOK
    <3>3. QED
      BY <1>11, <3>2 DEF SkipSim, TypeOK, LocalsOK
  <2>4. WorldOK'
    BY <1>11, PartsKept DEF SkipSim
  <2>5. QED
    BY <2>1, <2>2, <2>3, <2>4 DEF TypeOK
<1>12. ASSUME NEW i \in Index, SimPass(r, i)
      PROVE  TypeOK'
  <2>1. TablesOK'
    BY <1>12 DEF SimPass, TypeOK, TablesOK
  <2>2. MemoryOK'
    BY <1>12, PartsKept DEF SimPass
  <2>3. LocalsOK'
    <3>0. /\ i \in 0..MaxActions /\ 0 \in 0..MaxActions
          /\ {"policy", "skip_sim", "simulate", "signer", "record", "wait"} \subseteq Phase
      BY <1>12, RunPipelineAssumption DEF Phase, Index
    <3>1. PICK l \in Phase, c \in 0..MaxActions :
            Goto(r, l) /\ cur' = [cur EXCEPT ![r] = c]
      BY <1>12, <3>0 DEF SimPass
    <3>2. pc' \in [Runs -> Phase] /\ exit' \in [Runs -> Exit]
      BY <3>1, GotoType DEF TypeOK
    <3>4. QED
      BY <1>12, <3>1, <3>2 DEF SimPass, TypeOK, LocalsOK
  <2>4. WorldOK'
    BY <1>12, PartsKept DEF SimPass
  <2>5. QED
    BY <2>1, <2>2, <2>3, <2>4 DEF TypeOK
<1>13. ASSUME NEW i \in Index, SimFail(r, i)
      PROVE  TypeOK'
  <2>1. TablesOK'
    BY <1>13 DEF SimFail, TypeOK, TablesOK
  <2>2. MemoryOK'
    BY <1>13, PartsKept DEF SimFail
  <2>3. LocalsOK'
    <3>1. "simulation_failure" \in JournalOutcome /\ "simulation_denied" \in Terminal
      BY DEF JournalOutcome, Terminal
    <3>2. fail' \in [Runs -> Failure] /\ pc' \in [Runs -> Phase] /\ exit' = exit
      BY <1>13, <3>1, FailWithType DEF SimFail, TypeOK
    <3>3. QED
      BY <1>13, <3>2 DEF SimFail, TypeOK, LocalsOK
  <2>4. WorldOK'
    BY <1>13, PartsKept DEF SimFail
  <2>5. QED
    BY <2>1, <2>2, <2>3, <2>4 DEF TypeOK
<1>14. CASE SignerFails(r)
  <2>1. TablesOK'
    BY <1>14, PartsKept DEF SignerFails
  <2>2. MemoryOK'
    BY <1>14, PartsKept DEF SignerFails
  <2>3. LocalsOK'
    <3>1. First(r) \in Index /\ "signer_not_configured" \in ErrorKind
      BY <1>14, FirstType, ExecutableType DEF SignerFails, At, Shape, Approved, ErrorKind
    <3>2. fail' \in [Runs -> Failure] /\ pc' \in [Runs -> Phase] /\ exit' = exit
      BY <1>14, <3>1, FailExecutionType DEF SignerFails, TypeOK
    <3>3. QED
      BY <1>14, <3>2 DEF SignerFails, TypeOK, LocalsOK
  <2>4. WorldOK'
    BY <1>14, PartsKept DEF SignerFails
  <2>5. QED
    BY <2>1, <2>2, <2>3, <2>4 DEF TypeOK
<1>15. CASE SignerReady(r)
  <2>1. TablesOK'
    BY <1>15, PartsKept DEF SignerReady
  <2>2. MemoryOK'
    BY <1>15, PartsKept DEF SignerReady
  <2>3. LocalsOK'
    BY <1>15 DEF SignerReady, TypeOK, LocalsOK, Phase, Goto
  <2>4. WorldOK'
    BY <1>15, PartsKept DEF SignerReady
  <2>5. QED
    BY <2>1, <2>2, <2>3, <2>4 DEF TypeOK
<1>16. CASE Preflight(r)
  <2>1. TablesOK'
    BY <1>16, PartsKept DEF Preflight
  <2>2. MemoryOK'
    <3>1. DelegateVerdict \in BOOLEAN
      BY Zenon DEF DelegateVerdict, TypeOK, MemoryOK, WorldOK
    <3>2. QED
      BY <1>16, <3>1 DEF Preflight, TypeOK, MemoryOK
  <2>3. LocalsOK'
    <3>1. First(r) \in Index /\ "delegate_not_deployed" \in ErrorKind
      BY <1>16, FirstType, ExecutableType DEF Preflight, At, Shape, Approved, ErrorKind
    <3>2. CASE DelegateVerdict
      <4>1. Goto(r, "send") /\ UNCHANGED fail
        BY <1>16, <3>2 DEF Preflight
      <4>2. pc' \in [Runs -> Phase] /\ exit' \in [Runs -> Exit]
        BY <4>1, GotoType DEF TypeOK, Phase
      <4>3. QED
        BY <1>16, <4>1, <4>2 DEF Preflight, TypeOK, LocalsOK
    <3>3. CASE ~DelegateVerdict
      <4>1. FailExecution(r, First(r), "delegate_not_deployed")
        BY <1>16, <3>3 DEF Preflight
      <4>2. fail' \in [Runs -> Failure] /\ pc' \in [Runs -> Phase] /\ exit' = exit
        BY <3>1, <4>1, FailExecutionType DEF TypeOK
      <4>3. QED
        BY <1>16, <4>2 DEF Preflight, TypeOK, LocalsOK
    <3>4. QED
      BY <3>2, <3>3
  <2>4. WorldOK'
    BY <1>16, PartsKept DEF Preflight
  <2>5. QED
    BY <2>1, <2>2, <2>3, <2>4 DEF TypeOK
<1>17. CASE PreflightUnreachable(r)
  <2>1. TablesOK'
    BY <1>17, PartsKept DEF PreflightUnreachable
  <2>2. MemoryOK'
    BY <1>17, PartsKept DEF PreflightUnreachable
  <2>3. LocalsOK'
    BY <1>17 DEF PreflightUnreachable, TypeOK, LocalsOK, Phase, Goto
  <2>4. WorldOK'
    BY <1>17, PartsKept DEF PreflightUnreachable
  <2>5. QED
    BY <2>1, <2>2, <2>3, <2>4 DEF TypeOK
<1>18. ASSUME NEW i \in Index, Send(r, i)
      PROVE  TypeOK'
  <2>1. TablesOK'
    BY <1>18, PartsKept DEF Send
  <2>2. MemoryOK'
    BY <1>18, PartsKept DEF Send
  <2>3. LocalsOK'
    <3>0. /\ i \in 0..MaxActions /\ 0 \in 0..MaxActions
          /\ {"policy", "skip_sim", "simulate", "signer", "record", "wait"} \subseteq Phase
      BY <1>18, RunPipelineAssumption DEF Phase, Index
    <3>1. PICK l \in Phase, c \in 0..MaxActions :
            Goto(r, l) /\ cur' = [cur EXCEPT ![r] = c]
      BY <1>18, <3>0 DEF Send
    <3>2. pc' \in [Runs -> Phase] /\ exit' \in [Runs -> Exit]
      BY <3>1, GotoType DEF TypeOK
    <3>4. QED
      BY <1>18, <3>1, <3>2 DEF Send, TypeOK, LocalsOK
  <2>4. WorldOK'
    BY <1>18 DEF Send, TypeOK, WorldOK, TxState
  <2>5. QED
    BY <2>1, <2>2, <2>3, <2>4 DEF TypeOK
<1>19. ASSUME NEW i \in Index, SendFails(r, i)
      PROVE  TypeOK'
  <2>1. TablesOK'
    BY <1>19, PartsKept DEF SendFails
  <2>2. MemoryOK'
    BY <1>19, PartsKept DEF SendFails
  <2>3. LocalsOK'
    <3>1. "broadcast_failed" \in ErrorKind
      BY DEF ErrorKind
    <3>2. fail' \in [Runs -> Failure] /\ pc' \in [Runs -> Phase] /\ exit' = exit
      BY <1>19, <3>1, FailExecutionType DEF SendFails, TypeOK
    <3>3. QED
      BY <1>19, <3>2 DEF SendFails, TypeOK, LocalsOK
  <2>4. WorldOK'
    BY <1>19 DEF SendFails, TypeOK, WorldOK, TxState
  <2>5. QED
    BY <2>1, <2>2, <2>3, <2>4 DEF TypeOK
<1>20. ASSUME NEW i \in Index, RecordBroadcast(r, i)
      PROVE  TypeOK'
  <2>1. TablesOK'
    <3>1. Carrier(r, i) \in Index
      BY <1>20, FirstType, ExecutableType DEF RecordBroadcast, At, Shape, Sending, Carrier
    <3>2. [status |-> "broadcasted", tx |-> Carrier(r, i),
           receipt |-> None, error |-> None] \in ExecRow
      BY <3>1 DEF ExecRow
    <3>3. QED
      BY <1>20, <3>2 DEF RecordBroadcast, TypeOK, TablesOK
  <2>2. MemoryOK'
    BY <1>20, PartsKept DEF RecordBroadcast
  <2>3. LocalsOK'
    <3>0. /\ i \in 0..MaxActions /\ 0 \in 0..MaxActions
          /\ {"policy", "skip_sim", "simulate", "signer", "record", "wait"} \subseteq Phase
      BY <1>20, RunPipelineAssumption DEF Phase, Index
    <3>1. PICK l \in Phase, c \in 0..MaxActions :
            Goto(r, l) /\ cur' = [cur EXCEPT ![r] = c]
      BY <1>20, <3>0 DEF RecordBroadcast
    <3>2. pc' \in [Runs -> Phase] /\ exit' \in [Runs -> Exit]
      BY <3>1, GotoType DEF TypeOK
    <3>4. QED
      BY <1>20, <3>1, <3>2 DEF RecordBroadcast, TypeOK, LocalsOK
  <2>4. WorldOK'
    BY <1>20, PartsKept DEF RecordBroadcast
  <2>5. QED
    BY <2>1, <2>2, <2>3, <2>4 DEF TypeOK
<1>21. ASSUME NEW i \in Index, RecordReceipt(r, i)
      PROVE  TypeOK'
  <2>1. TablesOK'
    <3> DEFINE mined == MinedFor(r, i)
               row == [status |-> RowStatus(mined), tx |-> exec[r][i].tx,
                       receipt |-> mined, error |-> None]
    <3>1. exec[r][i] \in ExecRow /\ exec[r][i].tx \in Index \cup {None}
      BY <1>21 DEF RecordReceipt, TypeOK, TablesOK, ExecRow
    <3>2. mined \in {"success", "reverted"}
      BY <1>21 DEF RecordReceipt, RecordsNext, At, Shape, MinedFor, Carrier, WaitedFor
    <3>3. row \in ExecRow
      BY <3>1, <3>2 DEF ExecRow, RowStatus
    <3>4. exec' = [exec EXCEPT ![r][i] = row]
      BY <1>21 DEF RecordReceipt
    <3> HIDE DEF row
    <3>5. QED
      BY <1>21, <3>3, <3>4 DEF RecordReceipt, TypeOK, TablesOK
  <2>2. MemoryOK'
    BY <1>21, PartsKept DEF RecordReceipt
  <2>3. LocalsOK'
    <3>1. /\ "receipt_failed" \in ErrorKind
          /\ {"receipt", "journal", "send"} \subseteq Phase
      BY DEF ErrorKind, Phase
    <3>2. WaitedFor(r) \in Index \cup {0}
      BY <1>21, WaitedForType DEF RecordReceipt, At, Shape, Sending
    <3>3. \/ FailExecution(r, WaitedFor(r), "receipt_failed")
          \/ \E l \in {"receipt", "journal", "send"} : Goto(r, l) /\ UNCHANGED fail
      BY <1>21 DEF RecordReceipt
    <3>4. /\ pc' \in [Runs -> Phase] /\ exit' \in [Runs -> Exit]
          /\ fail' \in [Runs -> Failure]
      <4>1. LocalsOK
        BY DEF TypeOK
      <4>2. CASE FailExecution(r, WaitedFor(r), "receipt_failed")
        BY <3>1, <3>2, <4>1, <4>2, FailExecutionType DEF LocalsOK
      <4>3. CASE \E l \in {"receipt", "journal", "send"} : Goto(r, l) /\ UNCHANGED fail
        BY <3>1, <4>1, <4>3, GotoType DEF LocalsOK
      <4>4. QED
        BY <3>3, <4>2, <4>3
    <3>5. i \in 0..MaxActions
      BY RunPipelineAssumption, <1>21 DEF Index
    <3>6. QED
      BY <1>21, <3>4, <3>5 DEF RecordReceipt, TypeOK, LocalsOK
  <2>4. WorldOK'
    BY <1>21, PartsKept DEF RecordReceipt
  <2>5. QED
    BY <2>1, <2>2, <2>3, <2>4 DEF TypeOK
<1>22. CASE ReceiptArrives(r)
  <2>1. TablesOK'
    BY <1>22, PartsKept DEF ReceiptArrives
  <2>2. MemoryOK'
    BY <1>22, PartsKept DEF ReceiptArrives
  <2>3. LocalsOK'
    BY <1>22 DEF ReceiptArrives, TypeOK, LocalsOK, Phase, Goto
  <2>4. WorldOK'
    BY <1>22, PartsKept DEF ReceiptArrives
  <2>5. QED
    BY <2>1, <2>2, <2>3, <2>4 DEF TypeOK
<1>23. CASE ReceiptFails(r)
  <2>1. TablesOK'
    BY <1>23, PartsKept DEF ReceiptFails
  <2>2. MemoryOK'
    BY <1>23, PartsKept DEF ReceiptFails
  <2>3. LocalsOK'
    <3>1. PICK err \in {"receipt_timeout", "receipt_failed"} :
            FailExecution(r, WaitedFor(r), err)
      BY <1>23 DEF ReceiptFails
    <3>2. err \in ErrorKind
      BY DEF ErrorKind
    <3>3. WaitedFor(r) \in Index \cup {0}
      BY <1>23, WaitedForType DEF ReceiptFails, At, Shape, Sending
    <3>4. fail' \in [Runs -> Failure] /\ pc' \in [Runs -> Phase] /\ exit' = exit
      BY <3>1, <3>2, <3>3, FailExecutionType DEF TypeOK
    <3>5. QED
      BY <1>23, <3>4 DEF ReceiptFails, TypeOK, LocalsOK
  <2>4. WorldOK'
    BY <1>23, PartsKept DEF ReceiptFails
  <2>5. QED
    BY <2>1, <2>2, <2>3, <2>4 DEF TypeOK
<1>24. CASE FailExec(r)
  <2>1. TablesOK'
    <3> DEFINE i == fail[r].idx
               row == [status  |-> "failed",
                       tx      |-> IF exec[r][i] = None THEN None ELSE exec[r][i].tx,
                       receipt |-> IF exec[r][i] = None THEN None
                                                        ELSE exec[r][i].receipt,
                       error   |-> fail[r].error]
    <3>1. exec' = [exec EXCEPT ![r][i] = row]
      BY <1>24 DEF FailExec
    <3>2. i \in Index => row \in ExecRow
      BY DEF TypeOK, TablesOK, LocalsOK, Failure, ExecRow
    <3> HIDE DEF i, row
    <3>3. [exec[r] EXCEPT ![i] = row] \in [Index -> ExecRow \cup {None}]
      <4>1. exec[r] \in [Index -> ExecRow \cup {None}]
        BY DEF TypeOK, TablesOK
      <4>2. CASE i \in Index
        BY <3>2, <4>1, <4>2
      <4>3. CASE i \notin Index
        BY <4>1, <4>3
      <4>4. QED
        BY <4>2, <4>3
    <3>4. exec' \in [Runs -> [Index -> ExecRow \cup {None}]]
      BY <3>1, <3>3 DEF TypeOK, TablesOK
    <3>5. QED
      BY <1>24, <3>4 DEF FailExec, TypeOK, TablesOK
  <2>2. MemoryOK'
    BY <1>24, PartsKept DEF FailExec
  <2>3. LocalsOK'
    BY <1>24 DEF FailExec, TypeOK, LocalsOK, Phase, Goto
  <2>4. WorldOK'
    BY <1>24, PartsKept DEF FailExec
  <2>5. QED
    BY <2>1, <2>2, <2>3, <2>4 DEF TypeOK
<1>25. CASE FailJournal(r)
  <2>1. TablesOK'
    <3>1. fail[r].journal \in JournalOutcome
      BY DEF TypeOK, LocalsOK, Failure
    <3>2. Append(journal[r], fail[r].journal) \in Seq(JournalOutcome)
      BY <3>1 DEF TypeOK, TablesOK
    <3>3. QED
      BY <1>25, <3>2 DEF FailJournal, TypeOK, TablesOK
  <2>2. MemoryOK'
    BY <1>25, PartsKept DEF FailJournal
  <2>3. LocalsOK'
    BY <1>25 DEF FailJournal, TypeOK, LocalsOK, Phase, Goto
  <2>4. WorldOK'
    BY <1>25, PartsKept DEF FailJournal
  <2>5. QED
    BY <2>1, <2>2, <2>3, <2>4 DEF TypeOK
<1>26. CASE FailStatus(r)
  <2>1. TablesOK'
    <3>1. fail[r].status \in Status
      BY DEF TypeOK, LocalsOK, Failure, Status
    <3>2. QED
      BY <1>26, <3>1 DEF FailStatus, TypeOK, TablesOK
  <2>2. MemoryOK'
    BY <1>26, PartsKept DEF FailStatus
  <2>3. LocalsOK'
    BY <1>26 DEF FailStatus, TypeOK, LocalsOK, Phase, Return, Exit
  <2>4. WorldOK'
    BY <1>26, PartsKept DEF FailStatus
  <2>5. QED
    BY <2>1, <2>2, <2>3, <2>4 DEF TypeOK
<1>27. CASE RecordAction(r)
  <2>1. TablesOK'
    <3>1. outcome[r] \in JournalOutcome
      BY <1>27 DEF RecordAction, At, Shape, Closing, TypeOK, LocalsOK, JournalOutcome
    <3>2. Append(journal[r], outcome[r]) \in Seq(JournalOutcome)
      BY <3>1 DEF TypeOK, TablesOK
    <3>3. QED
      BY <1>27, <3>2 DEF RecordAction, TypeOK, TablesOK
  <2>2. MemoryOK'
    BY <1>27, PartsKept DEF RecordAction
  <2>3. LocalsOK'
    BY <1>27 DEF RecordAction, TypeOK, LocalsOK, Phase, Goto
  <2>4. WorldOK'
    BY <1>27, PartsKept DEF RecordAction
  <2>5. QED
    BY <2>1, <2>2, <2>3, <2>4 DEF TypeOK
<1>28. CASE Capture(r)
  <2>1. TablesOK'
    BY <1>28 DEF Capture, TypeOK, TablesOK
  <2>2. MemoryOK'
    BY <1>28, PartsKept DEF Capture
  <2>3. LocalsOK'
    BY <1>28 DEF Capture, TypeOK, LocalsOK, Phase, Goto
  <2>4. WorldOK'
    BY <1>28, PartsKept DEF Capture
  <2>5. QED
    BY <2>1, <2>2, <2>3, <2>4 DEF TypeOK
<1>29. CASE Finish(r)
  <2>1. TablesOK'
    <3>1. "succeeded" \in Status
      BY DEF Status, Terminal
    <3>2. QED
      BY <1>29, <3>1 DEF Finish, TypeOK, TablesOK
  <2>2. MemoryOK'
    BY <1>29, PartsKept DEF Finish
  <2>3. LocalsOK'
    BY <1>29 DEF Finish, TypeOK, LocalsOK, Phase, Return, Exit
  <2>4. WorldOK'
    BY <1>29, PartsKept DEF Finish
  <2>5. QED
    BY <2>1, <2>2, <2>3, <2>4 DEF TypeOK
<1>30. CASE RpcFails(r)
  <2>1. TablesOK'
    BY <1>30, PartsKept DEF RpcFails, Abandon
  <2>2. MemoryOK'
    BY <1>30, PartsKept DEF RpcFails, Abandon
  <2>3. LocalsOK'
    BY <1>30 DEF RpcFails, TypeOK, LocalsOK, Phase, Return, Exit, Abandon
  <2>4. WorldOK'
    BY <1>30, PartsKept DEF RpcFails, Abandon
  <2>5. QED
    BY <2>1, <2>2, <2>3, <2>4 DEF TypeOK
<1>31. CASE StoreFails(r)
  <2>1. TablesOK'
    BY <1>31, PartsKept DEF StoreFails, Abandon
  <2>2. MemoryOK'
    BY <1>31, PartsKept DEF StoreFails, Abandon
  <2>3. LocalsOK'
    BY <1>31 DEF StoreFails, TypeOK, LocalsOK, Phase, Return, Exit, Abandon
  <2>4. WorldOK'
    BY <1>31, PartsKept DEF StoreFails, Abandon
  <2>5. QED
    BY <2>1, <2>2, <2>3, <2>4 DEF TypeOK
<1>32. QED
  BY <1>1, <1>2, <1>3, <1>4, <1>5, <1>6, <1>7, <1>8, <1>9, <1>10, <1>11, <1>12, <1>13, <1>14, <1>15, <1>16, <1>17, <1>18, <1>19, <1>20, <1>21, <1>22, <1>23, <1>24, <1>25, <1>26, <1>27, <1>28, <1>29, <1>30, <1>31
     DEF Step, Fault, Gate, Execution

-----------------------------------------------------------------------------
(* The frame: a step of one run leaves everything of another one alone.    *)
Frozen(q) ==
  /\ status'[q] = status[q] /\ journal'[q] = journal[q]
  /\ policyRow'[q] = policyRow[q] /\ simRow'[q] = simRow[q]
  /\ exec'[q] = exec[q] /\ captured'[q] = captured[q]
  /\ pc'[q] = pc[q] /\ snap'[q] = snap[q] /\ acts'[q] = acts[q]
  /\ outcome'[q] = outcome[q] /\ cur'[q] = cur[q] /\ tally'[q] = tally[q]
  /\ fail'[q] = fail[q] /\ exit'[q] = exit[q] /\ tx'[q] = tx[q]

LEMMA Frame ==
  ASSUME TypeOK, NEW r \in Runs, Step(r) \/ Fault(r), NEW q \in Runs, q # r
  PROVE  Frozen(q)
<1> USE DEF TypeOK, TablesOK, LocalsOK, WorldOK, Frozen, tables, memory, locals,
            world, Goto, Return, Abandon, FailWith, FailExecution
<1>1. CASE Start(r)
  BY <1>1 DEF Start
<1>2. CASE Reject(r)
  BY <1>2 DEF Reject
<1>3. CASE InsertRun(r)
  BY <1>3 DEF InsertRun
<1>4. CASE Begin(r)
  BY <1>4 DEF Begin
<1>5. CASE ExecuteNoop(r)
  BY <1>5 DEF ExecuteNoop
<1>6. CASE ExecuteBadly(r)
  BY <1>6 DEF ExecuteBadly
<1>7. ASSUME NEW list \in Outputs, ExecuteActions(r, list)
      PROVE  Frozen(q)
  BY <1>7 DEF ExecuteActions
<1>8. CASE ResolveChainId(r)
  BY <1>8 DEF ResolveChainId
<1>9. ASSUME NEW i \in Index, PolicyPass(r, i)
      PROVE  Frozen(q)
  BY <1>9 DEF PolicyPass
<1>10. ASSUME NEW i \in Index, PolicyDeny(r, i)
      PROVE  Frozen(q)
  BY <1>10 DEF PolicyDeny
<1>11. CASE SkipSim(r)
  BY <1>11 DEF SkipSim
<1>12. ASSUME NEW i \in Index, SimPass(r, i)
      PROVE  Frozen(q)
  BY <1>12 DEF SimPass
<1>13. ASSUME NEW i \in Index, SimFail(r, i)
      PROVE  Frozen(q)
  BY <1>13 DEF SimFail
<1>14. CASE SignerFails(r)
  BY <1>14 DEF SignerFails
<1>15. CASE SignerReady(r)
  BY <1>15 DEF SignerReady
<1>16. CASE Preflight(r)
  BY <1>16 DEF Preflight
<1>17. CASE PreflightUnreachable(r)
  BY <1>17 DEF PreflightUnreachable
<1>18. ASSUME NEW i \in Index, Send(r, i)
      PROVE  Frozen(q)
  BY <1>18 DEF Send
<1>19. ASSUME NEW i \in Index, SendFails(r, i)
      PROVE  Frozen(q)
  BY <1>19 DEF SendFails
<1>20. ASSUME NEW i \in Index, RecordBroadcast(r, i)
      PROVE  Frozen(q)
  BY <1>20 DEF RecordBroadcast
<1>21. ASSUME NEW i \in Index, RecordReceipt(r, i)
      PROVE  Frozen(q)
  BY <1>21 DEF RecordReceipt
<1>22. CASE ReceiptArrives(r)
  BY <1>22 DEF ReceiptArrives
<1>23. CASE ReceiptFails(r)
  BY <1>23 DEF ReceiptFails
<1>24. CASE FailExec(r)
  BY <1>24 DEF FailExec
<1>25. CASE FailJournal(r)
  BY <1>25 DEF FailJournal
<1>26. CASE FailStatus(r)
  BY <1>26 DEF FailStatus
<1>27. CASE RecordAction(r)
  BY <1>27 DEF RecordAction
<1>28. CASE Capture(r)
  BY <1>28 DEF Capture
<1>29. CASE Finish(r)
  BY <1>29 DEF Finish
<1>30. CASE RpcFails(r)
  BY <1>30 DEF RpcFails
<1>31. CASE StoreFails(r)
  BY <1>31 DEF StoreFails
<1>32. QED
  BY <1>1, <1>2, <1>3, <1>4, <1>5, <1>6, <1>7, <1>8, <1>9, <1>10, <1>11, <1>12, <1>13, <1>14, <1>15, <1>16, <1>17, <1>18, <1>19, <1>20, <1>21, <1>22, <1>23, <1>24, <1>25, <1>26, <1>27, <1>28, <1>29, <1>30, <1>31
     DEF Step, Fault, Gate, Execution

-----------------------------------------------------------------------------
(* Every step of a run keeps its shape.                                    *)
LEMMA RunStepShape ==
  ASSUME TypeInv, NEW r \in Runs, Step(r) \/ Fault(r)
  PROVE  Shape(r)'
<1> USE DEF TypeInv, TypeOK, LocalsOK, Shape, Gating, Approved, Sending, Closing, At
<1>1. CASE Start(r)
  BY <1>1, ListKept DEF Start, Goto
<1>2. CASE Reject(r)
  BY <1>2, ListKept DEF Reject, Abandon, Return
<1>3. CASE InsertRun(r)
  BY <1>3, ListKept DEF InsertRun, Goto
<1>4. CASE Begin(r)
  BY <1>4, ListKept DEF Begin, Goto
<1>5. CASE ExecuteNoop(r)
  BY <1>5, ListKept DEF ExecuteNoop, Goto
<1>6. CASE ExecuteBadly(r)
  BY <1>6, ListKept DEF ExecuteBadly, FailWith, Goto
<1>7. ASSUME NEW list \in Outputs, ExecuteActions(r, list)
      PROVE  Shape(r)'
  <2>1. acts'[r] = list /\ outcome'[r] = "actions"
    BY <1>7 DEF ExecuteActions
  <2>2. CASE pc'[r] = "chain_id"
    <3>1. PICK i \in DOMAIN list : list[i] # Noop
      BY <1>7, <2>2 DEF ExecuteActions, Goto
    <3>2. i \in Executable(r)'
      BY <2>1, <3>1 DEF Executable
    <3>3. QED
      BY <2>1, <2>2, <3>2
  <2>3. CASE pc'[r] \in {"journal", "fail_journal"}
    BY <2>1, <2>3
  <2>4. pc'[r] \in {"chain_id", "journal", "fail_journal"}
    BY <1>7 DEF ExecuteActions, Goto, FailWith
  <2>5. QED
    BY <2>2, <2>3, <2>4
<1>8. CASE ResolveChainId(r)
  BY <1>8, ListKept DEF ResolveChainId, Goto
<1>9. ASSUME NEW i \in Index, PolicyPass(r, i)
      PROVE  Shape(r)'
  BY <1>9, ListKept DEF PolicyPass, Goto
<1>10. ASSUME NEW i \in Index, PolicyDeny(r, i)
      PROVE  Shape(r)'
  BY <1>10, ListKept DEF PolicyDeny, Goto
<1>11. CASE SkipSim(r)
  BY <1>11, ListKept DEF SkipSim, FailWith, Goto
<1>12. ASSUME NEW i \in Index, SimPass(r, i)
      PROVE  Shape(r)'
  BY <1>12, ListKept DEF SimPass, Goto
<1>13. ASSUME NEW i \in Index, SimFail(r, i)
      PROVE  Shape(r)'
  BY <1>13, ListKept DEF SimFail, FailWith, Goto
<1>14. CASE SignerFails(r)
  BY <1>14, ListKept DEF SignerFails, FailExecution, FailWith, Goto
<1>15. CASE SignerReady(r)
  BY <1>15, ListKept DEF SignerReady, Goto
<1>16. CASE Preflight(r)
  BY <1>16, ListKept DEF Preflight, FailExecution, FailWith, Goto
<1>17. CASE PreflightUnreachable(r)
  BY <1>17, ListKept DEF PreflightUnreachable, Goto
<1>18. ASSUME NEW i \in Index, Send(r, i)
      PROVE  Shape(r)'
  BY <1>18, ListKept DEF Send, Goto
<1>19. ASSUME NEW i \in Index, SendFails(r, i)
      PROVE  Shape(r)'
  BY <1>19, ListKept DEF SendFails, FailExecution, FailWith, Goto
<1>20. ASSUME NEW i \in Index, RecordBroadcast(r, i)
      PROVE  Shape(r)'
  BY <1>20, ListKept DEF RecordBroadcast, Goto
<1>21. ASSUME NEW i \in Index, RecordReceipt(r, i)
      PROVE  Shape(r)'
  BY <1>21, ListKept DEF RecordReceipt, FailExecution, FailWith, Goto, WaitedFor, RecordsDone, world
<1>22. CASE ReceiptArrives(r)
  BY <1>22, ListKept DEF ReceiptArrives, Goto, WaitedFor, world
<1>23. CASE ReceiptFails(r)
  BY <1>23, ListKept DEF ReceiptFails, FailExecution, FailWith, Goto
<1>24. CASE FailExec(r)
  BY <1>24, ListKept DEF FailExec, Goto
<1>25. CASE FailJournal(r)
  BY <1>25, ListKept DEF FailJournal, Goto
<1>26. CASE FailStatus(r)
  BY <1>26, ListKept DEF FailStatus, Return
<1>27. CASE RecordAction(r)
  BY <1>27, ListKept DEF RecordAction, Goto
<1>28. CASE Capture(r)
  BY <1>28, ListKept DEF Capture, Goto
<1>29. CASE Finish(r)
  BY <1>29, ListKept DEF Finish, Return
<1>30. CASE RpcFails(r)
  BY <1>30, ListKept DEF RpcFails, Abandon, Return
<1>31. CASE StoreFails(r)
  BY <1>31, ListKept DEF StoreFails, Abandon, Return
<1>32. QED
  BY <1>1, <1>2, <1>3, <1>4, <1>5, <1>6, <1>7, <1>8, <1>9, <1>10, <1>11, <1>12, <1>13, <1>14, <1>15, <1>16, <1>17, <1>18, <1>19, <1>20, <1>21, <1>22, <1>23, <1>24, <1>25, <1>26, <1>27, <1>28, <1>29, <1>30, <1>31
     DEF Step, Fault, Gate, Execution

LEMMA FrozenShape ==
  ASSUME NEW q \in Runs, Shape(q), Frozen(q)
  PROVE  Shape(q)'
BY ListKept DEF Shape, Frozen, WaitedFor

(* The rest of the system: the policy, the node, the chain, a restart.     *)
LEMMA EnvironmentType ==
  ASSUME TypeInv, Environment
  PROVE  TypeInv'
<1> USE DEF TypeInv, TypeOK
<1>1. ASSUME NEW p \in Policies, PolicySet(p)
      PROVE  TypeInv'
  <2>1. TablesOK' /\ LocalsOK' /\ WorldOK'
    BY <1>1, PartsKept DEF PolicySet
  <2>2. MemoryOK'
    BY <1>1 DEF PolicySet, MemoryOK
  <2>3. \A q \in Runs : Shape(q)'
    BY <1>1, FrozenShape DEF PolicySet, Frozen, tables, locals, world
  <2>4. QED
    BY <2>1, <2>2, <2>3
<1>2. ASSUME NEW r \in Runs, NEW i \in Index, Mine(r, i)
      PROVE  TypeInv'
  <2>1. TablesOK' /\ LocalsOK' /\ MemoryOK'
    BY <1>2, PartsKept DEF Mine
  <2>2. WorldOK'
    BY <1>2 DEF Mine, WorldOK, TxState
  <2>3. ASSUME NEW q \in Runs
        PROVE  Shape(q)'
    <3>1. /\ pc'[q] = pc[q] /\ outcome'[q] = outcome[q] /\ acts'[q] = acts[q]
          /\ cur'[q] = cur[q]
      BY <1>2 DEF Mine, locals
    <3>2. pc[q] = "receipt" =>
            tx'[q][WaitedFor(q)] = tx[q][WaitedFor(q)]
      BY <1>2, <2>3 DEF Mine, WorldOK, Shape
    <3>3. WaitedFor(q)' = WaitedFor(q)
      BY <3>1, ListKept DEF WaitedFor
    <3>4. QED
      BY <3>1, <3>2, <3>3, ListKept DEF Shape
  <2>4. QED
    BY <2>1, <2>2, <2>3
<1>3. CASE DeployDelegate
  <2>1. TablesOK' /\ LocalsOK' /\ MemoryOK'
    BY <1>3, PartsKept DEF DeployDelegate
  <2>2. WorldOK'
    BY <1>3 DEF DeployDelegate, WorldOK
  <2>3. \A q \in Runs : Shape(q)'
    BY <1>3, FrozenShape DEF DeployDelegate, Frozen, tables, locals, world
  <2>4. QED
    BY <2>1, <2>2, <2>3
<1>4. CASE Restart
  <2>1. TablesOK' /\ WorldOK'
    BY <1>4, PartsKept DEF Restart
  <2>2. MemoryOK'
    BY <1>4 DEF Restart, MemoryOK
  <2>3. LocalsOK'
    BY <1>4 DEF Restart, LocalsOK, Phase, Exit
  <2>4. ASSUME NEW q \in Runs
        PROVE  Shape(q)'
    <3>1. pc'[q] \in {"idle", "done"}
      BY <1>4 DEF Restart, Live, LocalsOK
    <3>2. QED
      BY <3>1 DEF Shape, Gating, Approved, Sending, Closing
  <2>5. QED
    BY <2>1, <2>2, <2>3, <2>4
<1>5. QED
  BY <1>1, <1>2, <1>3, <1>4 DEF Environment

LEMMA TypeStep == TypeInv /\ [Next]_vars => TypeInv'
<1> SUFFICES ASSUME TypeInv, [Next]_vars
             PROVE  TypeInv'
  OBVIOUS
<1>1. ASSUME NEW r \in Runs, Step(r) \/ Fault(r)
      PROVE  TypeInv'
  <2>1. TypeOK'
    BY <1>1, RunStepType
  <2>2. \A q \in Runs : Shape(q)'
    BY <1>1, RunStepShape, Frame, FrozenShape DEF TypeInv
  <2>3. QED
    BY <2>1, <2>2 DEF TypeInv
<1>2. CASE Environment
  BY <1>2, EnvironmentType
<1>3. CASE UNCHANGED vars
  <2>1. TypeOK'
    BY <1>3, PartsKept DEF vars, TypeInv, TypeOK
  <2>2. \A q \in Runs : Shape(q)'
    BY <1>3, FrozenShape DEF vars, Frozen, tables, locals, world, TypeInv
  <2>3. QED
    BY <2>1, <2>2 DEF TypeInv
<1>4. QED
  BY <1>1, <1>2, <1>3 DEF Next

LEMMA TypeInvariance == Spec => []TypeInv
<1>1. QED
  BY InitTypeInv, TypeStep, PTL DEF Spec

(* The pipeline's state is well typed in every reachable state.            *)
THEOREM Typing == Spec => []TypeOK
<1>1. TypeInv => TypeOK
  BY DEF TypeInv
<1>2. QED
  BY <1>1, TypeInvariance, PTL

-----------------------------------------------------------------------------
(* Rows follow handlers.                                                   *)
LEMMA RunStepPhaseInv ==
  ASSUME TypeInv, NEW r \in Runs, RunInv(r), Step(r) \/ Fault(r)
  PROVE  PhaseInv(r)'
<1> USE DEF TypeInv, TypeOK, TablesOK, LocalsOK, RunInv, PhaseInv, Failing, At, tables
<1>1. CASE Start(r)
  BY <1>1
     DEF Start, Goto, Terminal
<1>2. CASE Reject(r)
  BY <1>2
     DEF Reject, Abandon, Return, Terminal
<1>3. CASE InsertRun(r)
  BY <1>3
     DEF InsertRun, Goto, Terminal, Terminal
<1>4. CASE Begin(r)
  BY <1>4
     DEF Begin, Goto, Terminal, CanTransition, Terminal
<1>5. CASE ExecuteNoop(r)
  BY <1>5
     DEF ExecuteNoop, Goto, Terminal
<1>6. CASE ExecuteBadly(r)
  BY <1>6
     DEF ExecuteBadly, FailWith, Goto, Terminal
<1>7. ASSUME NEW list \in Outputs, ExecuteActions(r, list)
      PROVE  PhaseInv(r)'
  BY <1>7
     DEF ExecuteActions, FailWith, Goto, Terminal
<1>8. CASE ResolveChainId(r)
  BY <1>8
     DEF ResolveChainId, Goto, Terminal
<1>9. ASSUME NEW i \in Index, PolicyPass(r, i)
      PROVE  PhaseInv(r)'
  BY <1>9
     DEF PolicyPass, Goto, Terminal
<1>10. ASSUME NEW i \in Index, PolicyDeny(r, i)
      PROVE  PhaseInv(r)'
  BY <1>10
     DEF PolicyDeny, Goto, Terminal
<1>11. CASE SkipSim(r)
  BY <1>11
     DEF SkipSim, FailWith, Goto, Terminal
<1>12. ASSUME NEW i \in Index, SimPass(r, i)
      PROVE  PhaseInv(r)'
  BY <1>12
     DEF SimPass, Goto, Terminal
<1>13. ASSUME NEW i \in Index, SimFail(r, i)
      PROVE  PhaseInv(r)'
  BY <1>13
     DEF SimFail, FailWith, Goto, Terminal
<1>14. CASE SignerFails(r)
  BY <1>14
     DEF SignerFails, FailExecution, FailWith, Goto, Terminal
<1>15. CASE SignerReady(r)
  BY <1>15
     DEF SignerReady, Goto, Terminal
<1>16. CASE Preflight(r)
  BY <1>16
     DEF Preflight, FailExecution, FailWith, Goto, Terminal
<1>17. CASE PreflightUnreachable(r)
  BY <1>17
     DEF PreflightUnreachable, Goto, Terminal
<1>18. ASSUME NEW i \in Index, Send(r, i)
      PROVE  PhaseInv(r)'
  BY <1>18
     DEF Send, Goto, Terminal
<1>19. ASSUME NEW i \in Index, SendFails(r, i)
      PROVE  PhaseInv(r)'
  BY <1>19
     DEF SendFails, FailExecution, FailWith, Goto, Terminal
<1>20. ASSUME NEW i \in Index, RecordBroadcast(r, i)
      PROVE  PhaseInv(r)'
  BY <1>20
     DEF RecordBroadcast, Goto, Terminal
<1>21. ASSUME NEW i \in Index, RecordReceipt(r, i)
      PROVE  PhaseInv(r)'
  BY <1>21
     DEF RecordReceipt, FailExecution, FailWith, Goto, Terminal
<1>22. CASE ReceiptArrives(r)
  BY <1>22
     DEF ReceiptArrives, Goto, Terminal
<1>23. CASE ReceiptFails(r)
  BY <1>23
     DEF ReceiptFails, FailExecution, FailWith, Goto, Terminal
<1>24. CASE FailExec(r)
  BY <1>24
     DEF FailExec, Goto, Terminal
<1>25. CASE FailJournal(r)
  BY <1>25
     DEF FailJournal, Goto, Terminal
<1>26. CASE FailStatus(r)
  BY <1>26
     DEF FailStatus, Return, CanTransition, Terminal, Failure, Terminal
<1>27. CASE RecordAction(r)
  BY <1>27
     DEF RecordAction, Goto, Terminal
<1>28. CASE Capture(r)
  BY <1>28
     DEF Capture, Goto, Terminal
<1>29. CASE Finish(r)
  BY <1>29
     DEF Finish, Return, CanTransition, Terminal, Terminal
<1>30. CASE RpcFails(r)
  BY <1>30
     DEF RpcFails, Abandon, Return, Terminal
<1>31. CASE StoreFails(r)
  BY <1>31
     DEF StoreFails, Abandon, Return, StorePhase, Terminal, Terminal
<1>32. QED
  BY <1>1, <1>2, <1>3, <1>4, <1>5, <1>6, <1>7, <1>8, <1>9, <1>10, <1>11, <1>12, <1>13, <1>14, <1>15, <1>16, <1>17, <1>18, <1>19, <1>20, <1>21, <1>22, <1>23, <1>24, <1>25, <1>26, <1>27, <1>28, <1>29, <1>30, <1>31
     DEF Step, Fault, Gate, Execution

-----------------------------------------------------------------------------
(* One outcome per run, and it agrees with the status.                     *)
LEMMA RunStepJournalInv ==
  ASSUME TypeInv, NEW r \in Runs, RunInv(r), Step(r) \/ Fault(r)
  PROVE  JournalInv(r)'
<1> USE DEF TypeInv, TypeOK, TablesOK, LocalsOK, RunInv, PhaseInv, JournalInv, Agrees, Failing, At, tables, Terminal, Status
<1>1. CASE Start(r)
  BY <1>1
     DEF Start, Goto
<1>2. CASE Reject(r)
  BY <1>2
     DEF Reject, Abandon, Return
<1>3. CASE InsertRun(r)
  BY <1>3
     DEF InsertRun, Goto
<1>4. CASE Begin(r)
  BY <1>4
     DEF Begin, Goto, CanTransition
<1>5. CASE ExecuteNoop(r)
  BY <1>5
     DEF ExecuteNoop, Goto
<1>6. CASE ExecuteBadly(r)
  BY <1>6
     DEF ExecuteBadly, FailWith, Goto
<1>7. ASSUME NEW list \in Outputs, ExecuteActions(r, list)
      PROVE  JournalInv(r)'
  BY <1>7
     DEF ExecuteActions, FailWith, Goto
<1>8. CASE ResolveChainId(r)
  BY <1>8
     DEF ResolveChainId, Goto
<1>9. ASSUME NEW i \in Index, PolicyPass(r, i)
      PROVE  JournalInv(r)'
  BY <1>9
     DEF PolicyPass, Goto
<1>10. ASSUME NEW i \in Index, PolicyDeny(r, i)
      PROVE  JournalInv(r)'
  BY <1>10
     DEF PolicyDeny, Goto
<1>11. CASE SkipSim(r)
  BY <1>11
     DEF SkipSim, FailWith, Goto
<1>12. ASSUME NEW i \in Index, SimPass(r, i)
      PROVE  JournalInv(r)'
  BY <1>12
     DEF SimPass, Goto
<1>13. ASSUME NEW i \in Index, SimFail(r, i)
      PROVE  JournalInv(r)'
  BY <1>13
     DEF SimFail, FailWith, Goto
<1>14. CASE SignerFails(r)
  BY <1>14
     DEF SignerFails, FailExecution, FailWith, Goto
<1>15. CASE SignerReady(r)
  BY <1>15
     DEF SignerReady, Goto
<1>16. CASE Preflight(r)
  BY <1>16
     DEF Preflight, FailExecution, FailWith, Goto
<1>17. CASE PreflightUnreachable(r)
  BY <1>17
     DEF PreflightUnreachable, Goto
<1>18. ASSUME NEW i \in Index, Send(r, i)
      PROVE  JournalInv(r)'
  BY <1>18
     DEF Send, Goto
<1>19. ASSUME NEW i \in Index, SendFails(r, i)
      PROVE  JournalInv(r)'
  BY <1>19
     DEF SendFails, FailExecution, FailWith, Goto
<1>20. ASSUME NEW i \in Index, RecordBroadcast(r, i)
      PROVE  JournalInv(r)'
  BY <1>20
     DEF RecordBroadcast, Goto
<1>21. ASSUME NEW i \in Index, RecordReceipt(r, i)
      PROVE  JournalInv(r)'
  BY <1>21
     DEF RecordReceipt, FailExecution, FailWith, Goto
<1>22. CASE ReceiptArrives(r)
  BY <1>22
     DEF ReceiptArrives, Goto
<1>23. CASE ReceiptFails(r)
  BY <1>23
     DEF ReceiptFails, FailExecution, FailWith, Goto
<1>24. CASE FailExec(r)
  BY <1>24
     DEF FailExec, Goto
<1>25. CASE FailJournal(r)
  BY <1>25
     DEF FailJournal, Goto
<1>26. CASE FailStatus(r)
  <2>1. /\ pc'[r] = "done" /\ status'[r] = fail[r].status
        /\ journal'[r] = journal[r] /\ fail[r].status # "succeeded"
    BY <1>26 DEF FailStatus, Return
  <2>2. journal[r] = <<fail[r].journal>> /\ Agrees(fail[r].journal, fail[r].status)
    BY <1>26 DEF FailStatus
  <2>3. Len(journal[r]) = 1 /\ journal[r][1] = fail[r].journal
    BY <2>2
  <2>4. QED
    BY <2>1, <2>2, <2>3
<1>27. CASE RecordAction(r)
  BY <1>27
     DEF RecordAction, Goto, Shape, Closing
<1>28. CASE Capture(r)
  BY <1>28
     DEF Capture, Goto
<1>29. CASE Finish(r)
  <2>1. /\ pc'[r] = "done" /\ status'[r] = "succeeded"
        /\ journal'[r] = journal[r] /\ outcome'[r] = outcome[r]
    BY <1>29 DEF Finish, Return
  <2>2. journal[r] = <<outcome[r]>>
    BY <1>29 DEF Finish
  <2>3. Len(journal[r]) = 1
    BY <2>2
  <2>4. QED
    BY <2>1, <2>2, <2>3
<1>30. CASE RpcFails(r)
  BY <1>30
     DEF RpcFails, Abandon, Return
<1>31. CASE StoreFails(r)
  BY <1>31
     DEF StoreFails, Abandon, Return, StorePhase
<1>32. QED
  BY <1>1, <1>2, <1>3, <1>4, <1>5, <1>6, <1>7, <1>8, <1>9, <1>10, <1>11, <1>12, <1>13, <1>14, <1>15, <1>16, <1>17, <1>18, <1>19, <1>20, <1>21, <1>22, <1>23, <1>24, <1>25, <1>26, <1>27, <1>28, <1>29, <1>30, <1>31
     DEF Step, Fault, Gate, Execution

-----------------------------------------------------------------------------
(* What was denied is inert.                                               *)
LEMMA RunStepInertInv ==
  ASSUME TypeInv, NEW r \in Runs, RunInv(r), Step(r) \/ Fault(r)
  PROVE  InertInv(r)'
<1> USE DEF TypeInv, TypeOK, TablesOK, LocalsOK, WorldOK, RunInv, PhaseInv, InertInv, Untouched, Sent, Early, Gating, Approved, Failing, Denied, At, tables, world, Terminal
<1>1. CASE Start(r)
  BY <1>1
     DEF Start, Goto
<1>2. CASE Reject(r)
  BY <1>2
     DEF Reject, Abandon, Return
<1>3. CASE InsertRun(r)
  BY <1>3
     DEF InsertRun, Goto
<1>4. CASE Begin(r)
  BY <1>4
     DEF Begin, Goto, CanTransition
<1>5. CASE ExecuteNoop(r)
  BY <1>5
     DEF ExecuteNoop, Goto
<1>6. CASE ExecuteBadly(r)
  BY <1>6
     DEF ExecuteBadly, FailWith, Goto
<1>7. ASSUME NEW list \in Outputs, ExecuteActions(r, list)
      PROVE  InertInv(r)'
  BY <1>7
     DEF ExecuteActions, FailWith, Goto
<1>8. CASE ResolveChainId(r)
  BY <1>8
     DEF ResolveChainId, Goto
<1>9. ASSUME NEW i \in Index, PolicyPass(r, i)
      PROVE  InertInv(r)'
  BY <1>9
     DEF PolicyPass, Goto
<1>10. ASSUME NEW i \in Index, PolicyDeny(r, i)
      PROVE  InertInv(r)'
  BY <1>10
     DEF PolicyDeny, Goto
<1>11. CASE SkipSim(r)
  BY <1>11
     DEF SkipSim, FailWith, Goto
<1>12. ASSUME NEW i \in Index, SimPass(r, i)
      PROVE  InertInv(r)'
  BY <1>12
     DEF SimPass, Goto
<1>13. ASSUME NEW i \in Index, SimFail(r, i)
      PROVE  InertInv(r)'
  BY <1>13
     DEF SimFail, FailWith, Goto
<1>14. CASE SignerFails(r)
  BY <1>14
     DEF SignerFails, FailExecution, FailWith, Goto
<1>15. CASE SignerReady(r)
  BY <1>15
     DEF SignerReady, Goto
<1>16. CASE Preflight(r)
  BY <1>16
     DEF Preflight, FailExecution, FailWith, Goto
<1>17. CASE PreflightUnreachable(r)
  BY <1>17
     DEF PreflightUnreachable, Goto
<1>18. ASSUME NEW i \in Index, Send(r, i)
      PROVE  InertInv(r)'
  BY <1>18
     DEF Send, Goto
<1>19. ASSUME NEW i \in Index, SendFails(r, i)
      PROVE  InertInv(r)'
  BY <1>19
     DEF SendFails, FailExecution, FailWith, Goto
<1>20. ASSUME NEW i \in Index, RecordBroadcast(r, i)
      PROVE  InertInv(r)'
  BY <1>20
     DEF RecordBroadcast, Goto
<1>21. ASSUME NEW i \in Index, RecordReceipt(r, i)
      PROVE  InertInv(r)'
  BY <1>21
     DEF RecordReceipt, FailExecution, FailWith, Goto
<1>22. CASE ReceiptArrives(r)
  BY <1>22
     DEF ReceiptArrives, Goto
<1>23. CASE ReceiptFails(r)
  BY <1>23
     DEF ReceiptFails, FailExecution, FailWith, Goto
<1>24. CASE FailExec(r)
  BY <1>24
     DEF FailExec, Goto
<1>25. CASE FailJournal(r)
  BY <1>25
     DEF FailJournal, Goto
<1>26. CASE FailStatus(r)
  BY <1>26
     DEF FailStatus, Return, CanTransition, Failure
<1>27. CASE RecordAction(r)
  BY <1>27
     DEF RecordAction, Goto
<1>28. CASE Capture(r)
  BY <1>28
     DEF Capture, Goto
<1>29. CASE Finish(r)
  BY <1>29
     DEF Finish, Return, CanTransition
<1>30. CASE RpcFails(r)
  BY <1>30
     DEF RpcFails, Abandon, Return
<1>31. CASE StoreFails(r)
  BY <1>31
     DEF StoreFails, Abandon, Return, StorePhase
<1>32. QED
  BY <1>1, <1>2, <1>3, <1>4, <1>5, <1>6, <1>7, <1>8, <1>9, <1>10, <1>11, <1>12, <1>13, <1>14, <1>15, <1>16, <1>17, <1>18, <1>19, <1>20, <1>21, <1>22, <1>23, <1>24, <1>25, <1>26, <1>27, <1>28, <1>29, <1>30, <1>31
     DEF Step, Fault, Gate, Execution

-----------------------------------------------------------------------------
(* The gates.                                                              *)
LEMMA RunStepGateInv ==
  ASSUME TypeInv, NEW r \in Runs, RunInv(r), Step(r) \/ Fault(r)
  PROVE  GateInv(r)'
<1>1. CASE Start(r)
  BY <1>1, ListKept, ExecutableType, NullAssumption
     DEF Start, Goto, AllPassed, SimPassed, TypeInv, TypeOK, TablesOK, LocalsOK, WorldOK, Shape, RunInv, InertInv, Untouched, GateInv, Sent, Early, Gating, Approved, Sending, Closing, At, tables, world
<1>2. CASE Reject(r)
  BY <1>2, ListKept, ExecutableType, NullAssumption
     DEF Reject, Abandon, Return, AllPassed, SimPassed, TypeInv, TypeOK, TablesOK, LocalsOK, WorldOK, Shape, RunInv, InertInv, Untouched, GateInv, Sent, Early, Gating, Approved, Sending, Closing, At, tables, world
<1>3. CASE InsertRun(r)
  BY <1>3, ListKept, ExecutableType, NullAssumption
     DEF InsertRun, Goto, AllPassed, SimPassed, TypeInv, TypeOK, TablesOK, LocalsOK, WorldOK, Shape, RunInv, InertInv, Untouched, GateInv, Sent, Early, Gating, Approved, Sending, Closing, At, tables, world
<1>4. CASE Begin(r)
  BY <1>4, ListKept, ExecutableType, NullAssumption
     DEF Begin, Goto, AllPassed, SimPassed, TypeInv, TypeOK, TablesOK, LocalsOK, WorldOK, Shape, RunInv, InertInv, Untouched, GateInv, Sent, Early, Gating, Approved, Sending, Closing, At, tables, world
<1>5. CASE ExecuteNoop(r)
  BY <1>5, ListKept, ExecutableType, NullAssumption
     DEF ExecuteNoop, Goto, AllPassed, SimPassed, TypeInv, TypeOK, TablesOK, LocalsOK, WorldOK, Shape, RunInv, InertInv, Untouched, GateInv, Sent, Early, Gating, Approved, Sending, Closing, At, tables, world
<1>6. CASE ExecuteBadly(r)
  BY <1>6, ListKept, ExecutableType, NullAssumption
     DEF ExecuteBadly, FailWith, Goto, AllPassed, SimPassed, TypeInv, TypeOK, TablesOK, LocalsOK, WorldOK, Shape, RunInv, InertInv, Untouched, GateInv, Sent, Early, Gating, Approved, Sending, Closing, At, tables, world
<1>7. ASSUME NEW list \in Outputs, ExecuteActions(r, list)
      PROVE  GateInv(r)'
  BY <1>7, ListKept, ExecutableType, NullAssumption
     DEF ExecuteActions, FailWith, Goto, Executable, AllPassed, SimPassed, TypeInv, TypeOK, TablesOK, LocalsOK, WorldOK, Shape, RunInv, InertInv, Untouched, GateInv, Sent, Early, Gating, Approved, Sending, Closing, At, tables, world
<1>8. CASE ResolveChainId(r)
  <2>1. /\ pc'[r] = "policy" /\ cur'[r] = 0 /\ acts'[r] = acts[r]
        /\ simRow'[r] = simRow[r] /\ tx'[r] = tx[r]
    BY <1>8 DEF ResolveChainId, Goto, TypeInv, TypeOK, LocalsOK, RunInv, GateInv, At, tables, world, Early
  <2>2. \A j \in Executable(r)' : ~(j <= cur'[r])
    <3>1. \A j \in Executable(r) : ~(j <= 0)
      BY Positions DEF TypeInv
    <3>2. QED
      BY <2>1, <3>1, ListKept
  <2>3. \A i \in Index : simRow'[r][i] = None /\ ~Sent(r, i)'
    BY <1>8, <2>1 DEF ResolveChainId, RunInv, GateInv, InertInv, Untouched, Gating, At, Sent
  <2>4. QED
    BY <2>1, <2>2, <2>3 DEF GateInv, Early, Approved, Sending, Sent
<1>9. ASSUME NEW i \in Index, PolicyPass(r, i)
      PROVE  GateInv(r)'
  <2> USE DEF TypeInv, RunInv
  <2>1. /\ acts'[r] = acts[r] /\ simRow'[r] = simRow[r] /\ tx'[r] = tx[r]
        /\ policyRow'[r] = [policyRow[r] EXCEPT ![i] = "pass"]
        /\ i \in Executable(r) /\ pc[r] = "policy"
    BY <1>9 DEF PolicyPass, IsNext, At, world, TypeOK, TablesOK
  <2>2. Executable(r)' = Executable(r)
    BY <2>1, ListKept
  <2>3. \A j \in Executable(r) : j <= i => policyRow'[r][j] = "pass"
    <3>1. \A j \in Executable(r) : j <= i => j <= cur[r] \/ j = i
      BY <1>9, Positions DEF PolicyPass, IsNext
    <3>2. \A j \in Executable(r) : j <= cur[r] => policyRow[r][j] = "pass"
      BY <2>1 DEF GateInv
    <3>3. policyRow[r] \in [Index -> {None, "pass", "fail"}]
      BY DEF TypeOK, TablesOK
    <3>4. QED
      BY <2>1, <3>1, <3>2, <3>3, ExecutableType
  <2>4. \A k \in Index : simRow'[r][k] = None /\ ~Sent(r, k)'
    BY <2>1 DEF GateInv, InertInv, Untouched, Gating, Sent
  <2>5. CASE IsLast(r, i)
    <3>1. pc'[r] = "simulate" /\ cur'[r] = 0
      BY <1>9, <2>5 DEF PolicyPass, Goto, TypeOK, LocalsOK
    <3>2. \A j \in Executable(r)' :
            policyRow'[r][j] = "pass" /\ simRow'[r][j] = None /\ ~(j <= 0)
      BY <2>2, <2>3, <2>4, <2>5, Positions, ExecutableType DEF IsLast
    <3>3. QED
      BY <2>2, <2>4, <3>1, <3>2
         DEF GateInv, Early, Approved, Sending
  <2>6. CASE ~IsLast(r, i)
    <3>1. pc'[r] = "policy" /\ cur'[r] = i
      BY <1>9, <2>6 DEF PolicyPass, Goto, TypeOK, LocalsOK
    <3>2. \A j \in Executable(r)' : j <= cur'[r] => policyRow'[r][j] = "pass"
      BY <2>2, <2>3, <3>1
    <3>3. QED
      BY <2>4, <3>1, <3>2
         DEF GateInv, Early, Approved, Sending
  <2>7. QED
    BY <2>5, <2>6
<1>10. ASSUME NEW i \in Index, PolicyDeny(r, i)
      PROVE  GateInv(r)'
  BY <1>10, ListKept, ExecutableType, NullAssumption
     DEF PolicyDeny, Goto, IsNext, IsLast, AllPassed, SimPassed, TypeInv, TypeOK, TablesOK, LocalsOK, WorldOK, Shape, RunInv, InertInv, Untouched, GateInv, Sent, Early, Gating, Approved, Sending, Closing, At, tables, world
<1>11. CASE SkipSim(r)
  BY <1>11, ListKept, ExecutableType, NullAssumption
     DEF SkipSim, FailWith, Goto, AllPassed, SimPassed, TypeInv, TypeOK, TablesOK, LocalsOK, WorldOK, Shape, RunInv, InertInv, Untouched, GateInv, Sent, Early, Gating, Approved, Sending, Closing, At, tables, world
<1>12. ASSUME NEW i \in Index, SimPass(r, i)
      PROVE  GateInv(r)'
  <2> USE DEF TypeInv, RunInv
  <2>1. /\ acts'[r] = acts[r] /\ policyRow'[r] = policyRow[r] /\ tx'[r] = tx[r]
        /\ simRow'[r] = [simRow[r] EXCEPT ![i] =
                           IF Batching(r) THEN "skipped" ELSE "pass"]
        /\ i \in Executable(r) /\ pc[r] = "simulate"
    BY <1>12 DEF SimPass, IsNext, At, world, TypeOK, TablesOK
  <2>2. Executable(r)' = Executable(r) /\ Batching(r)' = Batching(r)
    BY <2>1, ListKept
  <2>3. simRow[r] \in [Index -> {None, "pass", "fail", "skipped"}]
    BY DEF TypeOK, TablesOK
  <2>4. \A j \in Executable(r) : j <= i => SimPassed(r, j)'
    <3>1. \A j \in Executable(r) : j <= i => j <= cur[r] \/ j = i
      BY <1>12, Positions DEF SimPass, IsNext
    <3>2. \A j \in Executable(r) : j <= cur[r] => SimPassed(r, j)
      BY <2>1 DEF GateInv
    <3>3. QED
      BY <2>1, <2>2, <2>3, <3>1, <3>2, ExecutableType DEF SimPassed
  <2>5. \A j \in Executable(r) : policyRow'[r][j] = "pass"
    BY <2>1 DEF GateInv
  <2>6. \A k \in Index : ~Sent(r, k)'
    BY <2>1 DEF InertInv, Untouched, Gating, Sent
  <2>7. CASE IsLast(r, i)
    <3>1. pc'[r] = "signer" /\ cur'[r] = 0
      BY <1>12, <2>7 DEF SimPass, Goto, TypeOK, LocalsOK
    <3>2. AllPassed(r)'
      BY <2>1, <2>2, <2>4, <2>5, <2>7 DEF IsLast, AllPassed
    <3>3. QED
      BY <3>1, <3>2 DEF GateInv, Early
  <2>8. CASE ~IsLast(r, i)
    <3>1. pc'[r] = "simulate" /\ cur'[r] = i
      BY <1>12, <2>8 DEF SimPass, Goto, TypeOK, LocalsOK
    <3>2. \A j \in Executable(r) : j > i => simRow'[r][j] = None
      <4>1. \A j \in Executable(r) : j > i => j > cur[r] /\ j # i
        BY <1>12, Positions DEF SimPass, IsNext
      <4>2. \A j \in Executable(r) : j > cur[r] => simRow[r][j] = None
        BY <2>1 DEF GateInv
      <4>3. QED
        BY <2>1, <2>3, <4>1, <4>2, ExecutableType
    <3>3. QED
      BY <2>2, <2>4, <2>5, <2>6, <3>1, <3>2
         DEF GateInv, Early, Approved, Sending
  <2>9. QED
    BY <2>7, <2>8
<1>13. ASSUME NEW i \in Index, SimFail(r, i)
      PROVE  GateInv(r)'
  BY <1>13, ListKept, ExecutableType, NullAssumption
     DEF SimFail, FailWith, Goto, IsNext, IsLast, AllPassed, SimPassed, TypeInv, TypeOK, TablesOK, LocalsOK, WorldOK, Shape, RunInv, InertInv, Untouched, GateInv, Sent, Early, Gating, Approved, Sending, Closing, At, tables, world
<1>14. CASE SignerFails(r)
  BY <1>14, ListKept, ExecutableType, NullAssumption
     DEF SignerFails, FailExecution, FailWith, Goto, AllPassed, SimPassed, TypeInv, TypeOK, TablesOK, LocalsOK, WorldOK, Shape, RunInv, InertInv, Untouched, GateInv, Sent, Early, Gating, Approved, Sending, Closing, At, tables, world
<1>15. CASE SignerReady(r)
  BY <1>15, ListKept, ExecutableType, NullAssumption
     DEF SignerReady, Goto, AllPassed, SimPassed, TypeInv, TypeOK, TablesOK, LocalsOK, WorldOK, Shape, RunInv, InertInv, Untouched, GateInv, Sent, Early, Gating, Approved, Sending, Closing, At, tables, world
<1>16. CASE Preflight(r)
  BY <1>16, ListKept, ExecutableType, NullAssumption
     DEF Preflight, FailExecution, FailWith, Goto, AllPassed, SimPassed, TypeInv, TypeOK, TablesOK, LocalsOK, WorldOK, Shape, RunInv, InertInv, Untouched, GateInv, Sent, Early, Gating, Approved, Sending, Closing, At, tables, world
<1>17. CASE PreflightUnreachable(r)
  BY <1>17, ListKept, ExecutableType, NullAssumption
     DEF PreflightUnreachable, Goto, AllPassed, SimPassed, TypeInv, TypeOK, TablesOK, LocalsOK, WorldOK, Shape, RunInv, InertInv, Untouched, GateInv, Sent, Early, Gating, Approved, Sending, Closing, At, tables, world
<1>18. ASSUME NEW i \in Index, Send(r, i)
      PROVE  GateInv(r)'
  BY <1>18, ListKept, ExecutableType, NullAssumption
     DEF Send, Goto, AllPassed, SimPassed, TypeInv, TypeOK, TablesOK, LocalsOK, WorldOK, Shape, RunInv, InertInv, Untouched, GateInv, Sent, Early, Gating, Approved, Sending, Closing, At, tables, world
<1>19. ASSUME NEW i \in Index, SendFails(r, i)
      PROVE  GateInv(r)'
  BY <1>19, ListKept, ExecutableType, NullAssumption
     DEF SendFails, FailExecution, FailWith, Goto, AllPassed, SimPassed, TypeInv, TypeOK, TablesOK, LocalsOK, WorldOK, Shape, RunInv, InertInv, Untouched, GateInv, Sent, Early, Gating, Approved, Sending, Closing, At, tables, world
<1>20. ASSUME NEW i \in Index, RecordBroadcast(r, i)
      PROVE  GateInv(r)'
  BY <1>20, ListKept, ExecutableType, NullAssumption
     DEF RecordBroadcast, Goto, AllPassed, SimPassed, TypeInv, TypeOK, TablesOK, LocalsOK, WorldOK, Shape, RunInv, InertInv, Untouched, GateInv, Sent, Early, Gating, Approved, Sending, Closing, At, tables, world
<1>21. ASSUME NEW i \in Index, RecordReceipt(r, i)
      PROVE  GateInv(r)'
  BY <1>21, ListKept, ExecutableType, NullAssumption
     DEF RecordReceipt, FailExecution, FailWith, Goto, AllPassed, SimPassed, TypeInv, TypeOK, TablesOK, LocalsOK, WorldOK, Shape, RunInv, InertInv, Untouched, GateInv, Sent, Early, Gating, Approved, Sending, Closing, At, tables, world
<1>22. CASE ReceiptArrives(r)
  BY <1>22, ListKept, ExecutableType, NullAssumption
     DEF ReceiptArrives, Goto, AllPassed, SimPassed, TypeInv, TypeOK, TablesOK, LocalsOK, WorldOK, Shape, RunInv, InertInv, Untouched, GateInv, Sent, Early, Gating, Approved, Sending, Closing, At, tables, world
<1>23. CASE ReceiptFails(r)
  BY <1>23, ListKept, ExecutableType, NullAssumption
     DEF ReceiptFails, FailExecution, FailWith, Goto, AllPassed, SimPassed, TypeInv, TypeOK, TablesOK, LocalsOK, WorldOK, Shape, RunInv, InertInv, Untouched, GateInv, Sent, Early, Gating, Approved, Sending, Closing, At, tables, world
<1>24. CASE FailExec(r)
  BY <1>24, ListKept, ExecutableType, NullAssumption
     DEF FailExec, Goto, AllPassed, SimPassed, TypeInv, TypeOK, TablesOK, LocalsOK, WorldOK, Shape, RunInv, InertInv, Untouched, GateInv, Sent, Early, Gating, Approved, Sending, Closing, At, tables, world
<1>25. CASE FailJournal(r)
  BY <1>25, ListKept, ExecutableType, NullAssumption
     DEF FailJournal, Goto, AllPassed, SimPassed, TypeInv, TypeOK, TablesOK, LocalsOK, WorldOK, Shape, RunInv, InertInv, Untouched, GateInv, Sent, Early, Gating, Approved, Sending, Closing, At, tables, world
<1>26. CASE FailStatus(r)
  BY <1>26, ListKept, ExecutableType, NullAssumption
     DEF FailStatus, Return, AllPassed, SimPassed, TypeInv, TypeOK, TablesOK, LocalsOK, WorldOK, Shape, RunInv, InertInv, Untouched, GateInv, Sent, Early, Gating, Approved, Sending, Closing, At, tables, world
<1>27. CASE RecordAction(r)
  BY <1>27, ListKept, ExecutableType, NullAssumption
     DEF RecordAction, Goto, AllPassed, SimPassed, TypeInv, TypeOK, TablesOK, LocalsOK, WorldOK, Shape, RunInv, InertInv, Untouched, GateInv, Sent, Early, Gating, Approved, Sending, Closing, At, tables, world
<1>28. CASE Capture(r)
  BY <1>28, ListKept, ExecutableType, NullAssumption
     DEF Capture, Goto, AllPassed, SimPassed, TypeInv, TypeOK, TablesOK, LocalsOK, WorldOK, Shape, RunInv, InertInv, Untouched, GateInv, Sent, Early, Gating, Approved, Sending, Closing, At, tables, world
<1>29. CASE Finish(r)
  BY <1>29, ListKept, ExecutableType, NullAssumption
     DEF Finish, Return, AllPassed, SimPassed, TypeInv, TypeOK, TablesOK, LocalsOK, WorldOK, Shape, RunInv, InertInv, Untouched, GateInv, Sent, Early, Gating, Approved, Sending, Closing, At, tables, world
<1>30. CASE RpcFails(r)
  BY <1>30, ListKept, ExecutableType, NullAssumption
     DEF RpcFails, Abandon, Return, AllPassed, SimPassed, TypeInv, TypeOK, TablesOK, LocalsOK, WorldOK, Shape, RunInv, InertInv, Untouched, GateInv, Sent, Early, Gating, Approved, Sending, Closing, At, tables, world
<1>31. CASE StoreFails(r)
  BY <1>31, ListKept, ExecutableType, NullAssumption
     DEF StoreFails, Abandon, Return, AllPassed, SimPassed, TypeInv, TypeOK, TablesOK, LocalsOK, WorldOK, Shape, RunInv, InertInv, Untouched, GateInv, Sent, Early, Gating, Approved, Sending, Closing, At, tables, world
<1>32. QED
  BY <1>1, <1>2, <1>3, <1>4, <1>5, <1>6, <1>7, <1>8, <1>9, <1>10, <1>11, <1>12, <1>13, <1>14, <1>15, <1>16, <1>17, <1>18, <1>19, <1>20, <1>21, <1>22, <1>23, <1>24, <1>25, <1>26, <1>27, <1>28, <1>29, <1>30, <1>31
     DEF Step, Fault, Gate, Execution

-----------------------------------------------------------------------------
(* The chain, action by action.                                            *)
LEMMA RunStepSequenceInv ==
  ASSUME TypeInv, NEW r \in Runs, RunInv(r), Step(r) \/ Fault(r), ~Batching(r)'
  PROVE  SequenceInv(r)'
<1>1. CASE Start(r)
  BY <1>1, ListKept, ExecutableType
     DEF Start, Goto, TypeInv, TypeOK, TablesOK, LocalsOK, WorldOK, RunInv, InertInv, Untouched, ChainInv, SequenceInv, Done, Sent, Early, Gating, Approved, Closing, At, tables, world
<1>2. CASE Reject(r)
  BY <1>2, ListKept, ExecutableType
     DEF Reject, Abandon, Return, TypeInv, TypeOK, TablesOK, LocalsOK, WorldOK, RunInv, InertInv, Untouched, ChainInv, SequenceInv, Done, Sent, Early, Gating, Approved, Closing, At, tables, world
<1>3. CASE InsertRun(r)
  BY <1>3, ListKept, ExecutableType
     DEF InsertRun, Goto, TypeInv, TypeOK, TablesOK, LocalsOK, WorldOK, RunInv, InertInv, Untouched, ChainInv, SequenceInv, Done, Sent, Early, Gating, Approved, Closing, At, tables, world
<1>4. CASE Begin(r)
  BY <1>4, ListKept, ExecutableType
     DEF Begin, Goto, TypeInv, TypeOK, TablesOK, LocalsOK, WorldOK, RunInv, InertInv, Untouched, ChainInv, SequenceInv, Done, Sent, Early, Gating, Approved, Closing, At, tables, world
<1>5. CASE ExecuteNoop(r)
  BY <1>5, ExecutableType, ListKept, ExecutableType
     DEF ExecuteNoop, Goto, GateInv, Executable, TypeInv, TypeOK, TablesOK, LocalsOK, WorldOK, RunInv, InertInv, Untouched, ChainInv, SequenceInv, Done, Sent, Early, Gating, Approved, Closing, At, tables, world
<1>6. CASE ExecuteBadly(r)
  BY <1>6, ListKept, ExecutableType
     DEF ExecuteBadly, FailWith, Goto, TypeInv, TypeOK, TablesOK, LocalsOK, WorldOK, RunInv, InertInv, Untouched, ChainInv, SequenceInv, Done, Sent, Early, Gating, Approved, Closing, At, tables, world
<1>7. ASSUME NEW list \in Outputs, ExecuteActions(r, list)
      PROVE  SequenceInv(r)'
  <2>1. \A k \in Index : ~Sent(r, k)'
    BY <1>7 DEF ExecuteActions, TypeInv, RunInv, InertInv, Untouched, Early, At,
              Sent, world
  <2>2. pc'[r] \in {"chain_id", "journal", "fail_journal"}
    BY <1>7 DEF ExecuteActions, Goto, FailWith, TypeInv, TypeOK, LocalsOK
  <2>3. acts'[r] = list /\ list \in ActionList
    BY <1>7, RunPipelineAssumption DEF ExecuteActions, TypeInv, TypeOK, LocalsOK
  <2>4. Executable(r)' \subseteq Index
    BY <2>3, ListType DEF Executable
  <2>5. pc'[r] = "journal" => Executable(r)' = {}
    BY <1>7, <2>3 DEF ExecuteActions, Goto, FailWith, Executable, TypeInv, TypeOK,
                    LocalsOK
  <2>6. QED
    BY <2>1, <2>2, <2>4, <2>5 DEF SequenceInv, Closing
<1>8. CASE ResolveChainId(r)
  BY <1>8, ListKept, ExecutableType
     DEF ResolveChainId, Goto, TypeInv, TypeOK, TablesOK, LocalsOK, WorldOK, RunInv, InertInv, Untouched, ChainInv, SequenceInv, Done, Sent, Early, Gating, Approved, Closing, At, tables, world
<1>9. ASSUME NEW i \in Index, PolicyPass(r, i)
      PROVE  SequenceInv(r)'
  BY <1>9, ListKept, ExecutableType
     DEF PolicyPass, Goto, TypeInv, TypeOK, TablesOK, LocalsOK, WorldOK, RunInv, InertInv, Untouched, ChainInv, SequenceInv, Done, Sent, Early, Gating, Approved, Closing, At, tables, world
<1>10. ASSUME NEW i \in Index, PolicyDeny(r, i)
      PROVE  SequenceInv(r)'
  BY <1>10, ListKept, ExecutableType
     DEF PolicyDeny, Goto, TypeInv, TypeOK, TablesOK, LocalsOK, WorldOK, RunInv, InertInv, Untouched, ChainInv, SequenceInv, Done, Sent, Early, Gating, Approved, Closing, At, tables, world
<1>11. CASE SkipSim(r)
  BY <1>11, ListKept, ExecutableType
     DEF SkipSim, FailWith, Goto, TypeInv, TypeOK, TablesOK, LocalsOK, WorldOK, RunInv, InertInv, Untouched, ChainInv, SequenceInv, Done, Sent, Early, Gating, Approved, Closing, At, tables, world
<1>12. ASSUME NEW i \in Index, SimPass(r, i)
      PROVE  SequenceInv(r)'
  BY <1>12, ListKept, ExecutableType
     DEF SimPass, Goto, TypeInv, TypeOK, TablesOK, LocalsOK, WorldOK, RunInv, InertInv, Untouched, ChainInv, SequenceInv, Done, Sent, Early, Gating, Approved, Closing, At, tables, world
<1>13. ASSUME NEW i \in Index, SimFail(r, i)
      PROVE  SequenceInv(r)'
  BY <1>13, ListKept, ExecutableType
     DEF SimFail, FailWith, Goto, TypeInv, TypeOK, TablesOK, LocalsOK, WorldOK, RunInv, InertInv, Untouched, ChainInv, SequenceInv, Done, Sent, Early, Gating, Approved, Closing, At, tables, world
<1>14. CASE SignerFails(r)
  BY <1>14, ListKept, ExecutableType
     DEF SignerFails, FailExecution, FailWith, Goto, TypeInv, TypeOK, TablesOK, LocalsOK, WorldOK, RunInv, InertInv, Untouched, ChainInv, SequenceInv, Done, Sent, Early, Gating, Approved, Closing, At, tables, world
<1>15. CASE SignerReady(r)
  <2>1. \A k \in Index : ~Sent(r, k)'
    BY <1>15 DEF SignerReady, TypeInv, RunInv, InertInv, Untouched, Approved, At, Sent, world
  <2>2. acts'[r] = acts[r] /\ cur'[r] = 0
    BY <1>15 DEF SignerReady, RunInv, GateInv, Approved, At
  <2>3. Executable(r)' = Executable(r)
    BY <2>2, ListKept
  <2>4. \A j \in Executable(r) : j \in Index /\ ~(j <= 0)
    BY ExecutableType, Positions DEF TypeInv
  <2>5. pc'[r] \in {"preflight", "send", "fail_exec", "fail_journal"}
    BY <1>15 DEF SignerReady, Goto, FailExecution, FailWith, TypeInv, TypeOK, LocalsOK
  <2>6. QED
    BY <2>1, <2>2, <2>3, <2>4, <2>5 DEF SequenceInv, Closing
<1>16. CASE Preflight(r)
  <2>1. \A k \in Index : ~Sent(r, k)'
    BY <1>16 DEF Preflight, TypeInv, RunInv, InertInv, Untouched, Approved, At, Sent, world
  <2>2. acts'[r] = acts[r] /\ cur'[r] = 0
    BY <1>16 DEF Preflight, RunInv, GateInv, Approved, At
  <2>3. Executable(r)' = Executable(r)
    BY <2>2, ListKept
  <2>4. \A j \in Executable(r) : j \in Index /\ ~(j <= 0)
    BY ExecutableType, Positions DEF TypeInv
  <2>5. pc'[r] \in {"preflight", "send", "fail_exec", "fail_journal"}
    BY <1>16 DEF Preflight, Goto, FailExecution, FailWith, TypeInv, TypeOK, LocalsOK
  <2>6. QED
    BY <2>1, <2>2, <2>3, <2>4, <2>5 DEF SequenceInv, Closing
<1>17. CASE PreflightUnreachable(r)
  <2>1. \A k \in Index : ~Sent(r, k)'
    BY <1>17 DEF PreflightUnreachable, TypeInv, RunInv, InertInv, Untouched, Approved, At, Sent, world
  <2>2. acts'[r] = acts[r] /\ cur'[r] = 0
    BY <1>17 DEF PreflightUnreachable, RunInv, GateInv, Approved, At
  <2>3. Executable(r)' = Executable(r)
    BY <2>2, ListKept
  <2>4. \A j \in Executable(r) : j \in Index /\ ~(j <= 0)
    BY ExecutableType, Positions DEF TypeInv
  <2>5. pc'[r] \in {"preflight", "send", "fail_exec", "fail_journal"}
    BY <1>17 DEF PreflightUnreachable, Goto, FailExecution, FailWith, TypeInv, TypeOK, LocalsOK
  <2>6. QED
    BY <2>1, <2>2, <2>3, <2>4, <2>5 DEF SequenceInv, Closing
<1>18. ASSUME NEW i \in Index, Send(r, i)
      PROVE  SequenceInv(r)'
  <2> USE DEF TypeInv, RunInv
  <2>1. acts'[r] = acts[r]
    BY <1>18 DEF Send
  <2>2. Executable(r)' = Executable(r) /\ ~Batching(r)
    BY <2>1, ListKept
  <2>3. SequenceInv(r)
    BY <2>2 DEF ChainInv
  <2>4. \A j \in Executable(r) : j \in Index /\ j \in Nat
    BY ExecutableType, Positions
  <2>5. cur[r] \in Nat
    BY Positions
  <2>6. /\ i \in Executable(r) /\ i > cur[r]
        /\ \A j \in Executable(r) : j > cur[r] => i <= j
    BY <1>18, <2>2 DEF Send, SendsFor, IsNext
  <2>7. /\ tx'[r] = [tx[r] EXCEPT ![i] = "pending"] /\ exec'[r] = exec[r]
        /\ cur'[r] = i /\ pc'[r] = "record"
        /\ tx[r] \in [Index -> TxState] /\ pc[r] = "send"
    BY <1>18, <2>2 DEF Send, TypeOK, WorldOK, LocalsOK, Goto, At, tables
  <2>8. \A j \in Executable(r) : IF j <= cur[r] THEN Done(r, j) ELSE ~Sent(r, j)
    BY <2>3, <2>7 DEF SequenceInv
  <2>9. \A j \in Index : j # i => (Sent(r, j)' <=> Sent(r, j)) /\ (Done(r, j) => Done(r, j)')
    BY <2>7 DEF Sent, Done
  <2>10. \A j \in Executable(r) : j < i => j <= cur[r] /\ Done(r, j)'
    BY <2>4, <2>5, <2>6, <2>8, <2>9
  <2>11. \A j \in Executable(r) : j > i => ~Sent(r, j)'
    BY <2>4, <2>5, <2>6, <2>8, <2>9
  <2>12. Sent(r, i)'
    BY <2>4, <2>6, <2>7 DEF Sent
  <2>13. \A j \in Index : Sent(r, j)' => j \in Executable(r)
    BY <2>3, <2>6, <2>9 DEF SequenceInv
  <2>14. \A j, k \in Executable(r) : Sent(r, j)' /\ k < j => Done(r, k)'
    BY <2>4, <2>6, <2>10, <2>11
  <2>15. QED
    BY <2>2, <2>6, <2>7, <2>10, <2>11, <2>12, <2>13, <2>14
       DEF SequenceInv, Closing
<1>19. ASSUME NEW i \in Index, SendFails(r, i)
      PROVE  SequenceInv(r)'
  <2> USE DEF TypeInv, RunInv
  <2>1. acts'[r] = acts[r]
    BY <1>19 DEF SendFails
  <2>2. Executable(r)' = Executable(r) /\ ~Batching(r)
    BY <2>1, ListKept
  <2>3. SequenceInv(r)
    BY <2>2 DEF ChainInv
  <2>4. \A j \in Executable(r) : j \in Index /\ j \in Nat
    BY ExecutableType, Positions
  <2>5. cur[r] \in Nat
    BY Positions
  <2>6. /\ i \in Executable(r) /\ i > cur[r]
        /\ \A j \in Executable(r) : j > cur[r] => i <= j
    BY <1>19, <2>2 DEF SendFails, SendsFor, IsNext
  <2>7. /\ tx'[r] \in {tx[r], [tx[r] EXCEPT ![i] = "pending"]}
        /\ exec'[r] = exec[r]
        /\ pc'[r] = "fail_exec" /\ fail'[r].idx = i
        /\ tx[r] \in [Index -> TxState] /\ pc[r] = "send"
    <3>1. i # 0
      BY <2>5, <2>6
    <3>2. QED
      BY <1>19, <3>1 DEF SendFails, TypeOK, WorldOK, LocalsOK, Goto, At, tables,
                      FailExecution, FailWith
  <2>8. \A j \in Executable(r) : IF j <= cur[r] THEN Done(r, j) ELSE ~Sent(r, j)
    BY <2>3, <2>7 DEF SequenceInv
  <2>9. \A j \in Index : j # i => (Sent(r, j)' <=> Sent(r, j)) /\ (Done(r, j) => Done(r, j)')
    BY <2>7 DEF Sent, Done
  <2>10. \A j \in Executable(r) : j < i => j <= cur[r] /\ Done(r, j)'
    BY <2>4, <2>5, <2>6, <2>8, <2>9
  <2>11. \A j \in Executable(r) : j > i => ~Sent(r, j)'
    BY <2>4, <2>5, <2>6, <2>8, <2>9
  <2>12. \A j \in Index : Sent(r, j)' => j \in Executable(r)
    BY <2>3, <2>6, <2>9 DEF SequenceInv
  <2>13. \A j, k \in Executable(r) : Sent(r, j)' /\ k < j => Done(r, k)'
    BY <2>4, <2>6, <2>10, <2>11
  <2>14. \A j \in Index : Sent(r, j)' => j <= i
    BY <2>4, <2>6, <2>11, <2>12
  <2>15. QED
    BY <2>2, <2>7, <2>12, <2>13, <2>14 DEF SequenceInv, Closing
<1>20. ASSUME NEW i \in Index, RecordBroadcast(r, i)
      PROVE  SequenceInv(r)'
  <2> USE DEF TypeInv, RunInv
  <2>1. acts'[r] = acts[r]
    BY <1>20 DEF RecordBroadcast
  <2>2. Executable(r)' = Executable(r) /\ ~Batching(r)
    BY <2>1, ListKept
  <2>3. SequenceInv(r)
    BY <2>2 DEF ChainInv
  <2>4. \A j \in Executable(r) : j \in Index /\ j \in Nat
    BY ExecutableType, Positions
  <2>5. cur[r] \in Nat
    BY Positions
  <2>6. i = cur[r] /\ RecordsDone(r, i)
    BY <1>20, <2>2 DEF RecordBroadcast, RecordsNext, RecordsDone
  <2>7. /\ tx'[r] = tx[r] /\ cur'[r] = cur[r] /\ pc'[r] = "wait" /\ pc[r] = "record"
    BY <1>20, <2>2, <2>6 DEF RecordBroadcast, TypeOK, WorldOK, LocalsOK, Goto, At, world
  <2>8. \A j \in Index : j # i => exec'[r][j] = exec[r][j]
    BY <1>20 DEF RecordBroadcast, TypeOK, TablesOK
  <2>9. \A j \in Index : j # i /\ Done(r, j) => Done(r, j)'
    BY <2>7, <2>8 DEF Done
  <2>10. \A j \in Index : Sent(r, j)' <=> Sent(r, j)
    BY <2>7 DEF Sent
  <2>11. /\ cur[r] \in Executable(r) /\ Sent(r, cur[r])
         /\ \A j \in Executable(r) : j < cur[r] => Done(r, j)
         /\ \A j \in Executable(r) : j > cur[r] => ~Sent(r, j)
    BY <2>3, <2>7 DEF SequenceInv
  <2>12. \A j \in Executable(r) : j < cur[r] => Done(r, j)'
    BY <2>4, <2>5, <2>6, <2>9, <2>11
  <2>13. \A j, k \in Executable(r) : Sent(r, j) /\ k < j => k < cur[r]
    BY <2>4, <2>5, <2>11
  <2>14. QED
    BY <2>2, <2>3, <2>4, <2>7, <2>10, <2>11, <2>12, <2>13
       DEF SequenceInv, Closing
<1>21. ASSUME NEW i \in Index, RecordReceipt(r, i)
      PROVE  SequenceInv(r)'
  <2> USE DEF TypeInv, RunInv
  <2>1. acts'[r] = acts[r]
    BY <1>21 DEF RecordReceipt
  <2>2. Executable(r)' = Executable(r) /\ ~Batching(r)
    BY <2>1, ListKept
  <2>3. SequenceInv(r)
    BY <2>2 DEF ChainInv
  <2>4. \A j \in Executable(r) : j \in Index /\ j \in Nat
    BY ExecutableType, Positions
  <2>5. cur[r] \in Nat
    BY Positions
  <2>6. i = cur[r] /\ RecordsDone(r, i) /\ MinedFor(r, i) = tx[r][i]
        /\ WaitedFor(r) = i
    BY <1>21, <2>2 DEF RecordReceipt, RecordsNext, RecordsDone, MinedFor, Carrier,
                    WaitedFor
  <2>7. /\ tx'[r] = tx[r] /\ cur'[r] = cur[r] /\ pc[r] = "receipt"
    BY <1>21, <2>6 DEF RecordReceipt, TypeOK, WorldOK, LocalsOK, At, world
  <2>8. \A j \in Index : j # i => exec'[r][j] = exec[r][j]
    BY <1>21 DEF RecordReceipt, TypeOK, TablesOK
  <2>9. \A j \in Index : j # i /\ Done(r, j) => Done(r, j)'
    BY <2>7, <2>8 DEF Done
  <2>10. \A j \in Index : Sent(r, j)' <=> Sent(r, j)
    BY <2>7 DEF Sent
  <2>11. /\ cur[r] \in Executable(r) /\ Sent(r, cur[r])
         /\ \A j \in Executable(r) : j < cur[r] => Done(r, j)
         /\ \A j \in Executable(r) : j > cur[r] => ~Sent(r, j)
    BY <2>3, <2>7 DEF SequenceInv
  <2>12. \A j \in Executable(r) : j < cur[r] => Done(r, j)'
    BY <2>4, <2>5, <2>6, <2>9, <2>11
  <2>13. \A j, k \in Executable(r) : Sent(r, j) /\ k < j => k < cur[r]
    BY <2>4, <2>5, <2>11
  <2>14. \A j \in Index : Sent(r, j)' => j \in Executable(r)
    BY <2>3, <2>10 DEF SequenceInv
  <2>15. CASE EndsRun(tx[r][i])
    <3>1. i # 0
      BY <2>6, <2>11, Positions
    <3>2. pc'[r] = "fail_exec" /\ fail'[r].idx = i
      BY <1>21, <2>6, <2>15, <3>1
         DEF RecordReceipt, FailExecution, FailWith, Goto, TypeOK, LocalsOK
    <3>3. \A j \in Index : Sent(r, j)' => j <= i
      BY <2>4, <2>5, <2>6, <2>10, <2>11, <2>14
    <3>4. QED
      BY <2>2, <2>4, <2>10, <2>12, <2>13, <2>14, <3>2, <3>3
         DEF SequenceInv, Closing
  <2>16. CASE ~EndsRun(tx[r][i])
    <3>1. tx[r][i] = "success"
      BY <2>6, <2>7, <2>16 DEF Shape, EndsRun
    <3>2. exec'[r][i] = [status |-> "confirmed", tx |-> exec[r][i].tx,
                         receipt |-> "success", error |-> None]
      BY <1>21, <2>6, <3>1 DEF RecordReceipt, RowStatus, TypeOK, TablesOK
    <3>3. exec[r][i].tx \in Index \cup {None}
      BY <1>21 DEF RecordReceipt, TypeOK, TablesOK, ExecRow
    <3>4. exec'[r][i] \in ExecRow
      BY <3>2, <3>3 DEF ExecRow
    <3>5. Done(r, i)'
      BY <2>7, <3>1, <3>2, <3>4, NullAssumption DEF Done
    <3>6. \A j \in Executable(r) : j <= cur[r] => Done(r, j)'
      BY <2>4, <2>5, <2>6, <2>12, <3>5
    <3>7. pc'[r] = IF IsLast(r, i) THEN "journal" ELSE "send"
      BY <1>21, <2>2, <2>6, <2>16 DEF RecordReceipt, Goto, TypeOK, LocalsOK
    <3>8. CASE IsLast(r, i)
      <4>1. \A j \in Executable(r) : Done(r, j)'
        BY <2>6, <3>6, <3>8 DEF IsLast
      <4>2. QED
        BY <2>2, <2>14, <3>7, <3>8, <4>1 DEF SequenceInv, Closing
    <3>9. CASE ~IsLast(r, i)
      <4>1. \A j \in Executable(r) : IF j <= cur[r] THEN Done(r, j)' ELSE ~Sent(r, j)'
        BY <2>4, <2>5, <2>10, <2>11, <3>6
      <4>2. QED
        BY <2>2, <2>4, <2>7, <2>10, <2>12, <2>13, <2>14, <3>7, <3>9, <4>1
           DEF SequenceInv, Closing
    <3>10. QED
      BY <3>8, <3>9
  <2>17. QED
    BY <2>15, <2>16
<1>22. CASE ReceiptArrives(r)
  BY <1>22, ListKept, ExecutableType
     DEF ReceiptArrives, Goto, TypeInv, TypeOK, TablesOK, LocalsOK, WorldOK, RunInv, InertInv, Untouched, ChainInv, SequenceInv, Done, Sent, Early, Gating, Approved, Closing, At, tables, world
<1>23. CASE ReceiptFails(r)
  <2> USE DEF TypeInv, RunInv
  <2>1. acts'[r] = acts[r]
    BY <1>23 DEF ReceiptFails
  <2>2. Executable(r)' = Executable(r) /\ ~Batching(r)
    BY <2>1, ListKept
  <2>3. SequenceInv(r)
    BY <2>2 DEF ChainInv
  <2>4. \A j \in Executable(r) : j \in Index /\ j \in Nat
    BY ExecutableType, Positions
  <2>5. cur[r] \in Nat
    BY Positions
  <2>6. WaitedFor(r) = cur[r]
    BY <2>2 DEF WaitedFor
  <2>7. /\ tx'[r] = tx[r] /\ exec'[r] = exec[r] /\ pc[r] = "wait"
    BY <1>23 DEF ReceiptFails, At, world, tables
  <2>8. /\ cur[r] \in Executable(r)
        /\ \A j \in Executable(r) : j > cur[r] => ~Sent(r, j)
    BY <2>3, <2>7 DEF SequenceInv
  <2>9. cur[r] # 0
    BY <2>8, Positions
  <2>10. pc'[r] = "fail_exec" /\ fail'[r].idx = cur[r]
    BY <1>23, <2>6, <2>9
       DEF ReceiptFails, FailExecution, FailWith, Goto, TypeOK, LocalsOK
  <2>11. \A j \in Index : Sent(r, j) => j \in Executable(r) /\ j <= cur[r]
    BY <2>3, <2>4, <2>5, <2>8 DEF SequenceInv
  <2>12. QED
    BY <2>2, <2>3, <2>7, <2>10, <2>11 DEF SequenceInv, Closing, Sent, Done
<1>24. CASE FailExec(r)
  BY <1>24, ListKept, ExecutableType
     DEF FailExec, Goto, TypeInv, TypeOK, TablesOK, LocalsOK, WorldOK, RunInv, InertInv, Untouched, ChainInv, SequenceInv, Done, Sent, Early, Gating, Approved, Closing, At, tables, world
<1>25. CASE FailJournal(r)
  BY <1>25, ListKept, ExecutableType
     DEF FailJournal, Goto, TypeInv, TypeOK, TablesOK, LocalsOK, WorldOK, RunInv, InertInv, Untouched, ChainInv, SequenceInv, Done, Sent, Early, Gating, Approved, Closing, At, tables, world
<1>26. CASE FailStatus(r)
  BY <1>26, ListKept, ExecutableType
     DEF FailStatus, Return, TypeInv, TypeOK, TablesOK, LocalsOK, WorldOK, RunInv, InertInv, Untouched, ChainInv, SequenceInv, Done, Sent, Early, Gating, Approved, Closing, At, tables, world
<1>27. CASE RecordAction(r)
  BY <1>27, ListKept, ExecutableType
     DEF RecordAction, Goto, TypeInv, TypeOK, TablesOK, LocalsOK, WorldOK, RunInv, InertInv, Untouched, ChainInv, SequenceInv, Done, Sent, Early, Gating, Approved, Closing, At, tables, world
<1>28. CASE Capture(r)
  BY <1>28, ListKept, ExecutableType
     DEF Capture, Goto, TypeInv, TypeOK, TablesOK, LocalsOK, WorldOK, RunInv, InertInv, Untouched, ChainInv, SequenceInv, Done, Sent, Early, Gating, Approved, Closing, At, tables, world
<1>29. CASE Finish(r)
  BY <1>29, ListKept, ExecutableType
     DEF Finish, Return, TypeInv, TypeOK, TablesOK, LocalsOK, WorldOK, RunInv, InertInv, Untouched, ChainInv, SequenceInv, Done, Sent, Early, Gating, Approved, Closing, At, tables, world
<1>30. CASE RpcFails(r)
  BY <1>30, ListKept, ExecutableType
     DEF RpcFails, Abandon, Return, TypeInv, TypeOK, TablesOK, LocalsOK, WorldOK, RunInv, InertInv, Untouched, ChainInv, SequenceInv, Done, Sent, Early, Gating, Approved, Closing, At, tables, world
<1>31. CASE StoreFails(r)
  BY <1>31, ListKept, ExecutableType
     DEF StoreFails, Abandon, Return, TypeInv, TypeOK, TablesOK, LocalsOK, WorldOK, RunInv, InertInv, Untouched, ChainInv, SequenceInv, Done, Sent, Early, Gating, Approved, Closing, At, tables, world
<1>32. QED
  BY <1>1, <1>2, <1>3, <1>4, <1>5, <1>6, <1>7, <1>8, <1>9, <1>10, <1>11, <1>12, <1>13, <1>14, <1>15, <1>16, <1>17, <1>18, <1>19, <1>20, <1>21, <1>22, <1>23, <1>24, <1>25, <1>26, <1>27, <1>28, <1>29, <1>30, <1>31
     DEF Step, Fault, Gate, Execution

-----------------------------------------------------------------------------
(* The chain, as one batch.                                                *)
LEMMA RunStepBatchInv ==
  ASSUME TypeInv, NEW r \in Runs, RunInv(r), Step(r) \/ Fault(r), Batching(r)'
  PROVE  BatchInv(r)'
<1>1. CASE Start(r)
  BY <1>1, ListKept
     DEF Start, Goto, TypeInv, TypeOK, TablesOK, LocalsOK, WorldOK, RunInv, InertInv, Untouched, ChainInv, BatchInv, Sent, Early, Gating, Approved, Closing, At, tables, world
<1>2. CASE Reject(r)
  BY <1>2, ListKept
     DEF Reject, Abandon, Return, TypeInv, TypeOK, TablesOK, LocalsOK, WorldOK, RunInv, InertInv, Untouched, ChainInv, BatchInv, Sent, Early, Gating, Approved, Closing, At, tables, world
<1>3. CASE InsertRun(r)
  BY <1>3, ListKept
     DEF InsertRun, Goto, TypeInv, TypeOK, TablesOK, LocalsOK, WorldOK, RunInv, InertInv, Untouched, ChainInv, BatchInv, Sent, Early, Gating, Approved, Closing, At, tables, world
<1>4. CASE Begin(r)
  BY <1>4, ListKept
     DEF Begin, Goto, TypeInv, TypeOK, TablesOK, LocalsOK, WorldOK, RunInv, InertInv, Untouched, ChainInv, BatchInv, Sent, Early, Gating, Approved, Closing, At, tables, world
<1>5. CASE ExecuteNoop(r)
  <2>1. acts'[r] = <<>>
    BY <1>5 DEF ExecuteNoop, RunInv, GateInv, Early, At
  <2>2. QED
    BY <2>1 DEF Batching, Executable
<1>6. CASE ExecuteBadly(r)
  BY <1>6, ListKept
     DEF ExecuteBadly, FailWith, Goto, TypeInv, TypeOK, TablesOK, LocalsOK, WorldOK, RunInv, InertInv, Untouched, ChainInv, BatchInv, Sent, Early, Gating, Approved, Closing, At, tables, world
<1>7. ASSUME NEW list \in Outputs, ExecuteActions(r, list)
      PROVE  BatchInv(r)'
  <2>1. \A k \in Index : ~Sent(r, k)'
    BY <1>7 DEF ExecuteActions, TypeInv, RunInv, InertInv, Untouched, Early, At,
              Sent, world
  <2>2. pc'[r] \in {"chain_id", "fail_journal"} \/ Executable(r)' = {}
    BY <1>7 DEF ExecuteActions, Goto, FailWith, TypeInv, TypeOK, LocalsOK, Executable
  <2>3. Executable(r)' # {}
    BY DEF Batching
  <2>4. QED
    BY <2>1, <2>2, <2>3 DEF BatchInv, Closing
<1>8. CASE ResolveChainId(r)
  BY <1>8, ListKept
     DEF ResolveChainId, Goto, TypeInv, TypeOK, TablesOK, LocalsOK, WorldOK, RunInv, InertInv, Untouched, ChainInv, BatchInv, Sent, Early, Gating, Approved, Closing, At, tables, world
<1>9. ASSUME NEW i \in Index, PolicyPass(r, i)
      PROVE  BatchInv(r)'
  BY <1>9, ListKept
     DEF PolicyPass, Goto, TypeInv, TypeOK, TablesOK, LocalsOK, WorldOK, RunInv, InertInv, Untouched, ChainInv, BatchInv, Sent, Early, Gating, Approved, Closing, At, tables, world
<1>10. ASSUME NEW i \in Index, PolicyDeny(r, i)
      PROVE  BatchInv(r)'
  BY <1>10, ListKept
     DEF PolicyDeny, Goto, TypeInv, TypeOK, TablesOK, LocalsOK, WorldOK, RunInv, InertInv, Untouched, ChainInv, BatchInv, Sent, Early, Gating, Approved, Closing, At, tables, world
<1>11. CASE SkipSim(r)
  BY <1>11, ListKept
     DEF SkipSim, FailWith, Goto, TypeInv, TypeOK, TablesOK, LocalsOK, WorldOK, RunInv, InertInv, Untouched, ChainInv, BatchInv, Sent, Early, Gating, Approved, Closing, At, tables, world
<1>12. ASSUME NEW i \in Index, SimPass(r, i)
      PROVE  BatchInv(r)'
  BY <1>12, ListKept
     DEF SimPass, Goto, TypeInv, TypeOK, TablesOK, LocalsOK, WorldOK, RunInv, InertInv, Untouched, ChainInv, BatchInv, Sent, Early, Gating, Approved, Closing, At, tables, world
<1>13. ASSUME NEW i \in Index, SimFail(r, i)
      PROVE  BatchInv(r)'
  BY <1>13, ListKept
     DEF SimFail, FailWith, Goto, TypeInv, TypeOK, TablesOK, LocalsOK, WorldOK, RunInv, InertInv, Untouched, ChainInv, BatchInv, Sent, Early, Gating, Approved, Closing, At, tables, world
<1>14. CASE SignerFails(r)
  BY <1>14, ListKept
     DEF SignerFails, FailExecution, FailWith, Goto, TypeInv, TypeOK, TablesOK, LocalsOK, WorldOK, RunInv, InertInv, Untouched, ChainInv, BatchInv, Sent, Early, Gating, Approved, Closing, At, tables, world
<1>15. CASE SignerReady(r)
  BY <1>15, ListKept
     DEF SignerReady, Goto, TypeInv, TypeOK, TablesOK, LocalsOK, WorldOK, RunInv, InertInv, Untouched, ChainInv, BatchInv, Sent, Early, Gating, Approved, Closing, At, tables, world
<1>16. CASE Preflight(r)
  <2>1. \A k \in Index : ~Sent(r, k)'
    BY <1>16 DEF Preflight, TypeInv, RunInv, InertInv, Untouched, Approved, At, Sent, world
  <2>2. acts'[r] = acts[r] /\ Executable(r) # {}
    BY <1>16 DEF Preflight, TypeInv, Shape, Approved, At
  <2>3. First(r)' \in Index
    BY <2>2, ListKept, FirstType, ExecutableType DEF TypeInv
  <2>4. pc'[r] \in {"send", "fail_exec", "fail_journal"}
    BY <1>16 DEF Preflight, Goto, FailExecution, FailWith, TypeInv, TypeOK, LocalsOK
  <2>5. QED
    BY <2>1, <2>3, <2>4 DEF BatchInv, Closing
<1>17. CASE PreflightUnreachable(r)
  <2>1. \A k \in Index : ~Sent(r, k)'
    BY <1>17 DEF PreflightUnreachable, TypeInv, RunInv, InertInv, Untouched, Approved, At, Sent, world
  <2>2. acts'[r] = acts[r] /\ Executable(r) # {}
    BY <1>17 DEF PreflightUnreachable, TypeInv, Shape, Approved, At
  <2>3. First(r)' \in Index
    BY <2>2, ListKept, FirstType, ExecutableType DEF TypeInv
  <2>4. pc'[r] \in {"send", "fail_exec", "fail_journal"}
    BY <1>17 DEF PreflightUnreachable, Goto, FailExecution, FailWith, TypeInv, TypeOK, LocalsOK
  <2>5. QED
    BY <2>1, <2>3, <2>4 DEF BatchInv, Closing
<1>18. ASSUME NEW i \in Index, Send(r, i)
      PROVE  BatchInv(r)'
  BY <1>18, ListKept
     DEF Send, Goto, SendsFor, TypeInv, TypeOK, TablesOK, LocalsOK, WorldOK, RunInv, InertInv, Untouched, ChainInv, BatchInv, Sent, Early, Gating, Approved, Closing, At, tables, world
<1>19. ASSUME NEW i \in Index, SendFails(r, i)
      PROVE  BatchInv(r)'
  BY <1>19, ListKept
     DEF SendFails, FailExecution, FailWith, Goto, SendsFor, TypeInv, TypeOK, TablesOK, LocalsOK, WorldOK, RunInv, InertInv, Untouched, ChainInv, BatchInv, Sent, Early, Gating, Approved, Closing, At, tables, world
<1>20. ASSUME NEW i \in Index, RecordBroadcast(r, i)
      PROVE  BatchInv(r)'
  BY <1>20, ListKept
     DEF RecordBroadcast, Goto, TypeInv, TypeOK, TablesOK, LocalsOK, WorldOK, RunInv, InertInv, Untouched, ChainInv, BatchInv, Sent, Early, Gating, Approved, Closing, At, tables, world
<1>21. ASSUME NEW i \in Index, RecordReceipt(r, i)
      PROVE  BatchInv(r)'
  BY <1>21, ListKept
     DEF RecordReceipt, FailExecution, FailWith, Goto, TypeInv, TypeOK, TablesOK, LocalsOK, WorldOK, RunInv, InertInv, Untouched, ChainInv, BatchInv, Sent, Early, Gating, Approved, Closing, At, tables, world
<1>22. CASE ReceiptArrives(r)
  BY <1>22, ListKept
     DEF ReceiptArrives, Goto, TypeInv, TypeOK, TablesOK, LocalsOK, WorldOK, RunInv, InertInv, Untouched, ChainInv, BatchInv, Sent, Early, Gating, Approved, Closing, At, tables, world
<1>23. CASE ReceiptFails(r)
  BY <1>23, ListKept
     DEF ReceiptFails, FailExecution, FailWith, Goto, TypeInv, TypeOK, TablesOK, LocalsOK, WorldOK, RunInv, InertInv, Untouched, ChainInv, BatchInv, Sent, Early, Gating, Approved, Closing, At, tables, world
<1>24. CASE FailExec(r)
  BY <1>24, ListKept
     DEF FailExec, Goto, TypeInv, TypeOK, TablesOK, LocalsOK, WorldOK, RunInv, InertInv, Untouched, ChainInv, BatchInv, Sent, Early, Gating, Approved, Closing, At, tables, world
<1>25. CASE FailJournal(r)
  BY <1>25, ListKept
     DEF FailJournal, Goto, TypeInv, TypeOK, TablesOK, LocalsOK, WorldOK, RunInv, InertInv, Untouched, ChainInv, BatchInv, Sent, Early, Gating, Approved, Closing, At, tables, world
<1>26. CASE FailStatus(r)
  BY <1>26, ListKept
     DEF FailStatus, Return, TypeInv, TypeOK, TablesOK, LocalsOK, WorldOK, RunInv, InertInv, Untouched, ChainInv, BatchInv, Sent, Early, Gating, Approved, Closing, At, tables, world
<1>27. CASE RecordAction(r)
  BY <1>27, ListKept
     DEF RecordAction, Goto, TypeInv, TypeOK, TablesOK, LocalsOK, WorldOK, RunInv, InertInv, Untouched, ChainInv, BatchInv, Sent, Early, Gating, Approved, Closing, At, tables, world
<1>28. CASE Capture(r)
  BY <1>28, ListKept
     DEF Capture, Goto, TypeInv, TypeOK, TablesOK, LocalsOK, WorldOK, RunInv, InertInv, Untouched, ChainInv, BatchInv, Sent, Early, Gating, Approved, Closing, At, tables, world
<1>29. CASE Finish(r)
  BY <1>29, ListKept
     DEF Finish, Return, TypeInv, TypeOK, TablesOK, LocalsOK, WorldOK, RunInv, InertInv, Untouched, ChainInv, BatchInv, Sent, Early, Gating, Approved, Closing, At, tables, world
<1>30. CASE RpcFails(r)
  BY <1>30, ListKept
     DEF RpcFails, Abandon, Return, TypeInv, TypeOK, TablesOK, LocalsOK, WorldOK, RunInv, InertInv, Untouched, ChainInv, BatchInv, Sent, Early, Gating, Approved, Closing, At, tables, world
<1>31. CASE StoreFails(r)
  BY <1>31, ListKept
     DEF StoreFails, Abandon, Return, TypeInv, TypeOK, TablesOK, LocalsOK, WorldOK, RunInv, InertInv, Untouched, ChainInv, BatchInv, Sent, Early, Gating, Approved, Closing, At, tables, world
<1>32. QED
  BY <1>1, <1>2, <1>3, <1>4, <1>5, <1>6, <1>7, <1>8, <1>9, <1>10, <1>11, <1>12, <1>13, <1>14, <1>15, <1>16, <1>17, <1>18, <1>19, <1>20, <1>21, <1>22, <1>23, <1>24, <1>25, <1>26, <1>27, <1>28, <1>29, <1>30, <1>31
     DEF Step, Fault, Gate, Execution

LEMMA RunStepChainInv ==
  ASSUME TypeInv, NEW r \in Runs, RunInv(r), Step(r) \/ Fault(r)
  PROVE  ChainInv(r)'
<1>1. CASE Batching(r)'
  BY <1>1, RunStepBatchInv DEF ChainInv
<1>2. CASE ~Batching(r)'
  BY <1>2, RunStepSequenceInv DEF ChainInv
<1>3. QED
  BY <1>1, <1>2

-----------------------------------------------------------------------------
(* The invariant.                                                          *)
LEMMA RunStepInv ==
  ASSUME TypeInv, NEW r \in Runs, RunInv(r), Step(r) \/ Fault(r)
  PROVE  RunInv(r)'
BY RunStepPhaseInv, RunStepJournalInv, RunStepInertInv, RunStepGateInv,
   RunStepChainInv DEF RunInv

LEMMA FrozenInv ==
  ASSUME NEW q \in Runs, RunInv(q), Frozen(q)
  PROVE  RunInv(q)'
<1>1. /\ Executable(q)' = Executable(q) /\ First(q)' = First(q)
      /\ Batching(q)' = Batching(q)
  BY ListKept DEF Frozen
<1>2. PhaseInv(q)'
  BY DEF RunInv, PhaseInv, Frozen
<1>3. JournalInv(q)'
  BY DEF RunInv, JournalInv, Frozen
<1>4. InertInv(q)'
  BY DEF RunInv, InertInv, Untouched, Sent, Frozen
<1>5. GateInv(q)'
  BY <1>1 DEF RunInv, GateInv, AllPassed, SimPassed, Sent, Frozen
<1>6. ChainInv(q)'
  BY <1>1 DEF RunInv, ChainInv, SequenceInv, BatchInv, Done, Sent, Frozen
<1>7. QED
  BY <1>2, <1>3, <1>4, <1>5, <1>6 DEF RunInv

LEMMA MineInv ==
  ASSUME TypeInv, NEW r \in Runs, NEW i \in Index, Mine(r, i),
         NEW q \in Runs, RunInv(q)
  PROVE  RunInv(q)'
<1>1. UNCHANGED tables /\ UNCHANGED locals
  BY DEF Mine
<1>2. /\ Executable(q)' = Executable(q) /\ First(q)' = First(q)
      /\ Batching(q)' = Batching(q)
  BY <1>1, ListKept DEF locals
<1>3. \A k \in Index : /\ Sent(q, k)' <=> Sent(q, k)
                       /\ Done(q, k) => Done(q, k)'
  BY <1>1 DEF Mine, Sent, Done, tables, TypeInv, TypeOK, WorldOK
<1>4. Executable(q) \subseteq Index /\ (Executable(q) # {} => First(q) \in Index)
  BY ExecutableType, FirstType DEF TypeInv
<1>5. PhaseInv(q)'
  BY <1>1 DEF RunInv, PhaseInv, tables, locals
<1>6. JournalInv(q)'
  BY <1>1 DEF RunInv, JournalInv, tables, locals
<1>7. InertInv(q)'
  BY <1>1, <1>3 DEF RunInv, InertInv, Untouched, tables, locals
<1>8. GateInv(q)'
  BY <1>1, <1>2, <1>3 DEF RunInv, GateInv, AllPassed, SimPassed, tables, locals
<1>9. ChainInv(q)'
  <2>1. CASE Batching(q)
    <3>1. First(q) \in Index
      BY <1>4, <2>1 DEF Batching
    <3>2. BatchInv(q)
      BY <2>1 DEF RunInv, ChainInv
    <3>3. BatchInv(q)'
      BY <1>1, <1>2, <1>3, <3>1, <3>2 DEF BatchInv, locals
    <3>4. QED
      BY <1>2, <2>1, <3>3 DEF ChainInv
  <2>2. CASE ~Batching(q)
    <3>1. SequenceInv(q)
      BY <2>2 DEF RunInv, ChainInv
    <3>2. SequenceInv(q)'
      BY <1>1, <1>2, <1>3, <1>4, <3>1 DEF SequenceInv, locals
    <3>3. QED
      BY <1>2, <2>2, <3>2 DEF ChainInv
  <2>3. QED
    BY <2>1, <2>2
<1>10. QED
  BY <1>5, <1>6, <1>7, <1>8, <1>9 DEF RunInv

LEMMA RestartInv ==
  ASSUME TypeInv, Restart, NEW q \in Runs, RunInv(q)
  PROVE  RunInv(q)'
<1>1. UNCHANGED tables /\ UNCHANGED world
      /\ UNCHANGED <<acts, outcome, cur, fail>>
  BY DEF Restart
<1>2. CASE ~Live(q)
  <2>1. Frozen(q)
    BY <1>1, <1>2 DEF Restart, Frozen, tables, world, TypeInv, TypeOK, LocalsOK
  <2>2. QED
    BY <2>1, FrozenInv
<1>3. CASE Live(q)
  <2>1. pc'[q] = "done" /\ exit'[q] = "crash"
    BY <1>3 DEF Restart, TypeInv, TypeOK, LocalsOK
  <2>2. /\ Executable(q)' = Executable(q) /\ First(q)' = First(q)
        /\ Batching(q)' = Batching(q)
    BY <1>1, ListKept
  <2>3. PhaseInv(q)'
    BY <1>1, <1>3, <2>1, NullAssumption
       DEF RunInv, PhaseInv, Live, tables, Failing, Status, Terminal
  <2>4. JournalInv(q)'
    BY <1>1, <2>1 DEF RunInv, JournalInv, tables, Failing
  <2>5. InertInv(q)'
    BY <1>1, <2>1
       DEF RunInv, InertInv, Untouched, Sent, tables, world, Early, Gating,
           Approved, Failing
  <2>6. GateInv(q)'
    BY <1>1, <2>1, <2>2
       DEF RunInv, GateInv, AllPassed, SimPassed, Sent, tables, world, Early,
           Approved, Sending
  <2>7. ChainInv(q)'
    BY <1>1, <2>1, <2>2
       DEF RunInv, ChainInv, SequenceInv, BatchInv, Done, Sent, tables, world,
           Closing
  <2>8. QED
    BY <2>3, <2>4, <2>5, <2>6, <2>7 DEF RunInv
<1>4. QED
  BY <1>2, <1>3

LEMMA InitIInv == Init => IInv
<1> SUFFICES ASSUME Init
             PROVE  IInv
  OBVIOUS
<1>1. TypeInv
  BY InitTypeInv
<1>2. ASSUME NEW r \in Runs
      PROVE  RunInv(r)
  <2>1. /\ pc[r] = "idle" /\ status[r] = None /\ exit[r] = None
        /\ journal[r] = <<>> /\ acts[r] = <<>> /\ cur[r] = 0 /\ ~captured[r]
        /\ \A i \in Index : simRow[r][i] = None /\ ~Sent(r, i) /\ exec[r][i] = None
    BY DEF Init, Sent
  <2>2. Executable(r) = {} /\ ~Batching(r)
    BY <2>1 DEF Executable, Batching
  <2>3. None \notin Terminal /\ None \notin Denied /\ None # "succeeded"
        /\ None \notin {"ok", "error"}
    BY NullAssumption DEF Status, Terminal, Denied
  <2>4. QED
    BY <2>1, <2>2, <2>3
       DEF RunInv, PhaseInv, JournalInv, InertInv, Untouched, GateInv, ChainInv,
           SequenceInv, Terminal, Early, Gating, Approved, Sending, Closing,
           Failing
<1>3. QED
  BY <1>1, <1>2 DEF IInv

LEMMA StepIInv == IInv /\ [Next]_vars => IInv'
<1> SUFFICES ASSUME IInv, [Next]_vars
             PROVE  IInv'
  OBVIOUS
<1>1. TypeInv'
  BY TypeStep DEF IInv
<1>2. ASSUME NEW q \in Runs
      PROVE  RunInv(q)'
  <2>1. TypeInv /\ TypeOK /\ RunInv(q)
    BY DEF IInv, TypeInv
  <2>2. ASSUME NEW r \in Runs, Step(r) \/ Fault(r)
        PROVE  RunInv(q)'
    <3>1. CASE q = r
      BY <2>1, <2>2, <3>1, RunStepInv
    <3>2. CASE q # r
      <4>1. Frozen(q)
        BY <2>1, <2>2, <3>2, Frame
      <4>2. QED
        BY <2>1, <4>1, FrozenInv
    <3>3. QED
      BY <3>1, <3>2
  <2>3. ASSUME NEW p \in Policies, PolicySet(p)
        PROVE  RunInv(q)'
    <3>1. Frozen(q)
      BY <2>3 DEF PolicySet, Frozen, tables, locals, world
    <3>2. QED
      BY <2>1, <3>1, FrozenInv
  <2>4. ASSUME NEW r \in Runs, NEW i \in Index, Mine(r, i)
        PROVE  RunInv(q)'
    BY <2>1, <2>4, MineInv
  <2>5. ASSUME DeployDelegate
        PROVE  RunInv(q)'
    <3>1. Frozen(q)
      BY <2>5 DEF DeployDelegate, Frozen, tables, locals
    <3>2. QED
      BY <2>1, <3>1, FrozenInv
  <2>6. ASSUME Restart
        PROVE  RunInv(q)'
    BY <2>1, <2>6, RestartInv
  <2>7. ASSUME UNCHANGED vars
        PROVE  RunInv(q)'
    <3>1. Frozen(q)
      BY <2>7 DEF vars, Frozen, tables, locals, world
    <3>2. QED
      BY <2>1, <3>1, FrozenInv
  <2>8. QED
    BY <2>2, <2>3, <2>4, <2>5, <2>6, <2>7 DEF Next, Environment
<1>3. QED
  BY <1>1, <1>2 DEF IInv

LEMMA Invariance == Spec => []IInv
<1>1. QED
  BY InitIInv, StepIInv, PTL DEF Spec

-----------------------------------------------------------------------------
(* What the invariant gives.                                               *)

(* No transaction leaves before every action of its run passed both gates. *)
THEOREM GatesFirst == Spec => []GatesBeforeChain
<1>1. IInv => GatesBeforeChain
  <2> SUFFICES ASSUME IInv, NEW r \in Runs, NEW i \in Index, Sent(r, i),
                      NEW j \in Executable(r)
               PROVE  /\ policyRow[r][j] = "pass"
                      /\ \/ simRow[r][j] = "pass"
                         \/ /\ simRow[r][j] = "skipped"
                            /\ AaDelegate /\ Executable(r) # {j}
    BY DEF GatesBeforeChain
  <2>1. policyRow[r][j] = "pass" /\ SimPassed(r, j)
    BY DEF IInv, RunInv, GateInv, AllPassed
  <2>2. Batching(r) => AaDelegate /\ Executable(r) # {j}
    BY DEF Batching
  <2>3. QED
    BY <2>1, <2>2 DEF SimPassed
<1>2. QED
  BY <1>1, Invariance, PTL

(* Without a batch the sent actions are a prefix whose earlier members are *)
(* mined and confirmed.                                                    *)
THEOREM PrefixOnChain == Spec => []SequentialPrefix
<1>1. IInv => SequentialPrefix
  <2> SUFFICES ASSUME IInv, NEW r \in Runs, NEW i \in Index, Sent(r, i),
                      ~Batching(r), NEW j \in Executable(r), j < i
               PROVE  tx[r][j] = "success" /\ exec[r][j].status = "confirmed"
    BY DEF SequentialPrefix
  <2>1. SequenceInv(r)
    BY DEF IInv, RunInv, ChainInv
  <2>2. Done(r, j)
    BY <2>1 DEF SequenceInv
  <2>3. QED
    BY <2>2 DEF Done
<1>2. QED
  BY <1>1, Invariance, PTL

(* A denied run left no trace on the chain, in the rows or in the records. *)
THEOREM DenialIsInert == Spec => []DeniedIsInert
<1>1. IInv => DeniedIsInert
  BY DEF IInv, RunInv, InertInv, Untouched, Denied, DeniedIsInert
<1>2. QED
  BY <1>1, Invariance, PTL

(* A run has one journal outcome at most, and a terminal status agrees     *)
(* with it.                                                                *)
THEOREM JournalTruthful == Spec => []JournalAgrees
<1>1. IInv => JournalAgrees
  <2> SUFFICES ASSUME IInv, NEW r \in Runs
               PROVE  /\ Len(journal[r]) <= 1
                      /\ status[r] \in Terminal =>
                           Len(journal[r]) = 1 /\ Agrees(journal[r][1], status[r])
    BY DEF JournalAgrees, Agrees, Terminal
  <2>1. QED
    BY DEF IInv, RunInv, JournalInv
<1>2. QED
  BY <1>1, Invariance, PTL

(* A handler answers, and only then, after its run has settled.            *)
THEOREM AnswersSettle == Spec => []AnsweredMeansSettled
<1>1. IInv => AnsweredMeansSettled
  BY DEF IInv, RunInv, PhaseInv, AnsweredMeansSettled
<1>2. QED
  BY <1>1, Invariance, PTL

(* What the caller was told, the journal and the status agree, and a       *)
(* denial means that nothing happened, for any number of runs.             *)
THEOREM AnswersAreTruthful == Spec => []AnswersTruthful
<1>1. JournalAgrees /\ AnsweredMeansSettled /\ DeniedIsInert => AnswersTruthful
  BY DEF AnswersTruthful
<1>2. QED
  BY <1>1, JournalTruthful, AnswersSettle, DenialIsInert, PTL

LEMMA Halted ==
  ASSUME NEW r \in Runs, pc[r] = "done"
  PROVE  ~Step(r) /\ ~Fault(r)
BY DEF Step, Fault, Gate, Execution, At, StorePhase, Start, Reject, InsertRun,
       Begin, ExecuteNoop, ExecuteBadly, ExecuteActions, ResolveChainId,
       PolicyPass, PolicyDeny, SkipSim, SimPass, SimFail, SignerFails,
       SignerReady, Preflight, PreflightUnreachable, Send, SendFails,
       RecordBroadcast, RecordReceipt, ReceiptArrives, ReceiptFails, FailExec,
       FailJournal, FailStatus, RecordAction, Capture, Finish, RpcFails,
       StoreFails

(* A settled run is history: nothing of it changes and nothing more leaves.*)
THEOREM SettledForever == Spec => SettledIsFrozen
<1> DEFINE Kept(r) ==
      /\ <<status[r], journal[r], exec[r]>>' = <<status[r], journal[r], exec[r]>>
      /\ \A i \in Index : tx[r][i] = "unsent" => tx'[r][i] = "unsent"
<1>1. IInv /\ [Next]_vars =>
        [\A r \in Runs : status[r] \in Terminal => Kept(r)]_vars
  <2> SUFFICES ASSUME IInv, Next, NEW r \in Runs, status[r] \in Terminal
               PROVE  Kept(r)
    OBVIOUS
  <2>1. pc[r] = "done"
    BY NullAssumption DEF IInv, RunInv, PhaseInv, Terminal, Status
  <2>2. TypeOK
    BY DEF IInv, TypeInv
  <2>3. ASSUME NEW q \in Runs, Step(q) \/ Fault(q)
        PROVE  Kept(r)
    <3>1. q # r
      BY <2>1, <2>3, Halted
    <3>2. QED
      BY <2>2, <2>3, <3>1, Frame DEF Frozen
  <2>4. ASSUME NEW q \in Runs, NEW i \in Index, Mine(q, i)
        PROVE  Kept(r)
    BY <2>2, <2>4 DEF Mine, tables, TypeOK, WorldOK
  <2>5. ASSUME UNCHANGED tables, UNCHANGED tx
        PROVE  Kept(r)
    BY <2>5 DEF tables
  <2>6. QED
    BY <2>3, <2>4, <2>5
       DEF Next, Environment, PolicySet, DeployDelegate, Restart, world
<1>2. QED
  BY <1>1, Invariance, PTL DEF Spec, SettledIsFrozen

-----------------------------------------------------------------------------
(* The pipeline implements the contract.  Seen from the contract a step of *)
(* a run is one of its actions or nothing.                                 *)
Unseen(r) ==
  /\ status'[r] = status[r] /\ Executable(r)' = Executable(r)
  /\ GatesPassed(r)' <=> GatesPassed(r)
  /\ Handed(r)' = Handed(r)

Moved(r, from, to) ==
  /\ status[r] = from /\ status'[r] = to
  /\ Executable(r)' = Executable(r)
  /\ GatesPassed(r)' <=> GatesPassed(r)
  /\ Handed(r)' = Handed(r)

Asked(r) ==
  /\ status[r] = "running" /\ status'[r] = status[r]
  /\ Executable(r) = {} /\ Executable(r)' \in (SUBSET Index) \ {{}}
  /\ GatesPassed(r)' <=> GatesPassed(r)
  /\ Handed(r)' = Handed(r)

Granted(r) ==
  /\ status[r] = "running" /\ status'[r] = status[r]
  /\ Executable(r) # {} /\ Executable(r)' = Executable(r)
  /\ GatesPassed(r)'
  /\ Handed(r)' = Handed(r)

SentOff(r, S) ==
  /\ status[r] = "running" /\ status'[r] = status[r]
  /\ Executable(r)' = Executable(r)
  /\ GatesPassed(r) /\ GatesPassed(r)'
  /\ S \subseteq Executable(r) /\ S \cap Handed(r) = {}
  /\ \A i \in S, j \in Executable(r) \ (S \cup Handed(r)) : i < j
  /\ Handed(r)' = Handed(r) \cup S

Settled(r) ==
  \E st \in Terminal :
    /\ Moved(r, "running", st)
    /\ st \in Denied => Handed(r) = {}
    /\ st = "succeeded" => Handed(r) = Executable(r)

Seen(r) ==
  \/ Unseen(r) \/ Moved(r, None, "queued") \/ Moved(r, "queued", "running")
  \/ Asked(r) \/ Granted(r) \/ Settled(r)
  \/ \E S \in (SUBSET Index) \ {{}} : SentOff(r, S)

LEMMA CarrierType ==
  ASSUME TypeOK, NEW r \in Runs, NEW i \in Executable(r)
  PROVE  Carrier(r, i) \in Index
BY ExecutableType, FirstType DEF Carrier

LEMMA NothingHanded ==
  ASSUME TypeOK, NEW r \in Runs, \A i \in Index : ~Sent(r, i)
  PROVE  Handed(r) = {}
BY CarrierType DEF Handed

LEMMA ViewKept ==
  ASSUME NEW r, acts'[r] = acts[r]
  PROVE  /\ policyRow'[r] = policyRow[r] /\ simRow'[r] = simRow[r] =>
              (GatesPassed(r)' <=> GatesPassed(r))
         /\ tx'[r] = tx[r] => Handed(r)' = Handed(r)
         /\ Executable(r)' = Executable(r)
BY ListKept DEF GatesPassed, Handed, Carrier, Sent

LEMMA Ungranted ==
  ASSUME NEW r, NEW i \in Executable(r),
         policyRow[r][i] # "pass" \/ simRow[r][i] \notin {"pass", "skipped"}
  PROVE  ~GatesPassed(r)
BY DEF GatesPassed

(* A transaction that leaves is a Send of the contract.                    *)
LEMMA LeavesSeen ==
  ASSUME TypeInv, NEW r \in Runs, RunInv(r), NEW i \in Index, pc[r] = "send",
         SendsFor(r, i), tx'[r] = [tx[r] EXCEPT ![i] = "pending"],
         UNCHANGED tables, acts' = acts
  PROVE  \E S \in (SUBSET Index) \ {{}} : SentOff(r, S)
<1>1. /\ status'[r] = status[r] /\ status[r] = "running"
      /\ policyRow'[r] = policyRow[r] /\ simRow'[r] = simRow[r]
  BY DEF tables, RunInv, PhaseInv
<1>2. GatesPassed(r) /\ GatesPassed(r)'
  <2>1. GatesPassed(r)
    BY DEF RunInv, GateInv, Sending, AllPassed, SimPassed, GatesPassed
  <2>2. QED
    BY <1>1, <2>1, ViewKept
<1>3. /\ Executable(r)' = Executable(r) /\ First(r)' = First(r)
      /\ Batching(r)' = Batching(r)
  BY ListKept
<1>4. Executable(r) \subseteq Index /\ Executable(r) # {} /\ tx[r] \in [Index -> TxState]
  BY <1>2, ExecutableType DEF GatesPassed, TypeInv, TypeOK, WorldOK
<1>5. \A k \in Index : Sent(r, k)' <=> Sent(r, k) \/ k = i
  BY <1>4 DEF Sent
<1>6. CASE Batching(r)
  <2>1. i = First(r) /\ ~Sent(r, i)
    BY <1>6 DEF SendsFor, RunInv, ChainInv, BatchInv
  <2>2. Handed(r) = {} /\ Handed(r)' = Executable(r)
    BY <1>3, <1>5, <1>6, <2>1 DEF Handed, Carrier
  <2>3. SentOff(r, Executable(r))
    BY <1>1, <1>2, <1>3, <2>2 DEF SentOff
  <2>4. Executable(r) \in (SUBSET Index) \ {{}}
    BY <1>4
  <2>5. QED
    BY <2>3, <2>4
<1>7. CASE ~Batching(r)
  <2>1. /\ i \in Executable(r) /\ i > cur[r]
        /\ \A j \in Executable(r) : j > cur[r] => i <= j
    BY <1>7 DEF SendsFor, IsNext
  <2>2. \A j \in Executable(r) : IF j <= cur[r] THEN Done(r, j) ELSE ~Sent(r, j)
    BY <1>7 DEF RunInv, ChainInv, SequenceInv
  <2>3. \A j \in Executable(r) : j \in Nat /\ cur[r] \in Nat
    BY Positions DEF TypeInv
  <2>4. Handed(r) = { j \in Executable(r) : Sent(r, j) }
    BY <1>7 DEF Handed, Carrier
  <2>5. Handed(r)' = { j \in Executable(r) : Sent(r, j)' }
    BY <1>3, <1>7 DEF Handed, Carrier
  <2>6. ~Sent(r, i)
    BY <2>1, <2>2, <2>3
  <2>7. Handed(r)' = Handed(r) \cup {i} /\ {i} \cap Handed(r) = {}
    BY <1>4, <1>5, <2>1, <2>4, <2>5, <2>6
  <2>8. \A j \in Executable(r) \ ({i} \cup Handed(r)) : i < j
    <3> SUFFICES ASSUME NEW j \in Executable(r), j # i, ~Sent(r, j)
                 PROVE  i < j
      BY <2>4
    <3>1. ~(j <= cur[r])
      BY <2>2 DEF Done, Sent
    <3>2. QED
      BY <2>1, <2>3, <3>1
  <2>9. SentOff(r, {i})
    BY <1>1, <1>2, <1>3, <2>1, <2>7, <2>8 DEF SentOff
  <2>10. {i} \in (SUBSET Index) \ {{}}
    OBVIOUS
  <2>11. QED
    BY <2>9, <2>10
<1>8. QED
  BY <1>6, <1>7

LEMMA RunStepSeen ==
  ASSUME TypeInv, NEW r \in Runs, RunInv(r), Step(r) \/ Fault(r)
  PROVE  Seen(r)
<1>1. CASE Start(r)
  BY <1>1, ViewKept DEF Start, Goto, tables, world, Seen, Unseen
<1>2. CASE Reject(r)
  BY <1>2, ViewKept DEF Reject, Abandon, Return, tables, world, Seen, Unseen
<1>3. CASE InsertRun(r)
  BY <1>3, ViewKept
     DEF InsertRun, world, TypeInv, TypeOK, TablesOK, RunInv, PhaseInv, At, Seen, Moved
<1>4. CASE Begin(r)
  BY <1>4, ViewKept
     DEF Begin, CanTransition, world, TypeInv, TypeOK, TablesOK, Seen, Moved
<1>5. CASE ExecuteNoop(r)
  BY <1>5, ViewKept DEF ExecuteNoop, Goto, tables, world, Seen, Unseen
<1>6. CASE ExecuteBadly(r)
  BY <1>6, ViewKept DEF ExecuteBadly, FailWith, Goto, tables, world, Seen, Unseen
<1>7. ASSUME NEW list \in Outputs, ExecuteActions(r, list)
      PROVE  Seen(r)
  <2>1. /\ pc[r] = "execute" /\ acts'[r] = list /\ list \in ActionList
        /\ status'[r] = status[r] /\ simRow'[r] = simRow[r] /\ tx'[r] = tx[r]
    BY <1>7, RunPipelineAssumption
       DEF ExecuteActions, At, tables, world, TypeInv, TypeOK, LocalsOK
  <2>2. acts[r] = <<>> /\ Executable(r) = {}
    BY <2>1 DEF RunInv, GateInv, Early, Executable
  <2>3. status[r] = "running"
    BY <2>1 DEF RunInv, PhaseInv
  <2>4. \A i \in Index : simRow'[r][i] = None /\ ~Sent(r, i) /\ ~Sent(r, i)'
    BY <2>1 DEF RunInv, GateInv, InertInv, Untouched, Early, Sent
  <2>5. Executable(r)' \subseteq Index
    BY <2>1, ListType DEF Executable
  <2>6. ~GatesPassed(r) /\ ~GatesPassed(r)'
    <3>1. ~GatesPassed(r)
      BY <2>2 DEF GatesPassed
    <3>2. ~GatesPassed(r)'
      BY <2>4, <2>5, NullAssumption DEF GatesPassed
    <3>3. QED
      BY <3>1, <3>2
  <2>7. Handed(r) = {} /\ Handed(r)' = {}
    <3>1. Handed(r) = {}
      BY <2>2 DEF Handed
    <3>2. ASSUME NEW i \in Executable(r)'
          PROVE  First(r)' \in Index
      <4>1. Executable(r)' \in SUBSET Nat
        BY <2>5, RunPipelineAssumption DEF Index
      <4>2. \E x \in Executable(r)' : \A y \in Executable(r)' : x <= y
        BY <3>2, <4>1, LeastInt
      <4>3. QED
        BY <2>5, <4>2 DEF First
    <3>3. Handed(r)' = {}
      BY <2>4, <2>5, <3>2 DEF Handed, Carrier
    <3>4. QED
      BY <3>1, <3>3
  <2>8. CASE Executable(r)' = {}
    BY <2>1, <2>2, <2>6, <2>7, <2>8 DEF Seen, Unseen
  <2>9. CASE Executable(r)' # {}
    <3>1. Executable(r)' \in (SUBSET Index) \ {{}}
      BY <2>5, <2>9
    <3>2. Asked(r)
      BY <2>1, <2>2, <2>3, <2>6, <2>7, <3>1 DEF Asked
    <3>3. QED
      BY <3>2 DEF Seen
  <2>10. QED
    BY <2>8, <2>9
<1>8. CASE ResolveChainId(r)
  BY <1>8, ViewKept DEF ResolveChainId, Goto, tables, world, Seen, Unseen
<1>9. ASSUME NEW i \in Index, PolicyPass(r, i)
      PROVE  Seen(r)
  <2>1. /\ acts'[r] = acts[r] /\ tx'[r] = tx[r] /\ status'[r] = status[r]
        /\ simRow'[r] = simRow[r] /\ pc[r] = "policy" /\ i \in Executable(r)
    BY <1>9 DEF PolicyPass, IsNext, At, world
  <2>2. i \in Index /\ simRow[r][i] = None
    BY <2>1, ExecutableType DEF RunInv, GateInv, TypeInv
  <2>3. ~GatesPassed(r)
    BY <2>1, <2>2, NullAssumption DEF GatesPassed
  <2>4. ~GatesPassed(r)'
    BY <2>1, <2>2, ViewKept, NullAssumption DEF GatesPassed
  <2>5. QED
    BY <2>1, <2>3, <2>4, ViewKept DEF Seen, Unseen
<1>10. ASSUME NEW i \in Index, PolicyDeny(r, i)
      PROVE  Seen(r)
  <2>1. /\ acts'[r] = acts[r] /\ tx'[r] = tx[r] /\ status'[r] = status[r]
        /\ simRow'[r] = simRow[r] /\ pc[r] = "policy" /\ i \in Executable(r)
    BY <1>10 DEF PolicyDeny, IsNext, At, world
  <2>2. i \in Index /\ simRow[r][i] = None
    BY <2>1, ExecutableType DEF RunInv, GateInv, TypeInv
  <2>3. ~GatesPassed(r)
    BY <2>1, <2>2, NullAssumption DEF GatesPassed
  <2>4. ~GatesPassed(r)'
    BY <2>1, <2>2, ViewKept, NullAssumption DEF GatesPassed
  <2>5. QED
    BY <2>1, <2>3, <2>4, ViewKept DEF Seen, Unseen
<1>11. CASE SkipSim(r)
  <2>1. /\ acts'[r] = acts[r] /\ tx'[r] = tx[r] /\ status'[r] = status[r]
        /\ policyRow'[r] = policyRow[r] /\ pc[r] = "skip_sim"
    BY <1>11 DEF SkipSim, At, world
  <2>2. cur[r] \in Executable(r) /\ policyRow[r][cur[r]] = "fail"
    BY <2>1 DEF RunInv, GateInv
  <2>3. ~GatesPassed(r)
    BY <2>2 DEF GatesPassed
  <2>4. ~GatesPassed(r)'
    BY <2>1, <2>2, ViewKept DEF GatesPassed
  <2>5. QED
    BY <2>1, <2>3, <2>4, ViewKept DEF Seen, Unseen
<1>12. ASSUME NEW i \in Index, SimPass(r, i)
      PROVE  Seen(r)
  <2>1. /\ acts'[r] = acts[r] /\ tx'[r] = tx[r] /\ status'[r] = status[r]
        /\ pc[r] = "simulate" /\ i \in Executable(r) /\ i > cur[r]
        /\ simRow'[r] = [simRow[r] EXCEPT ![i] = IF Batching(r) THEN "skipped" ELSE "pass"]
    BY <1>12 DEF SimPass, IsNext, At, world, TypeInv, TypeOK, TablesOK
  <2>2. i \in Index /\ simRow[r][i] = None
    BY <2>1, ExecutableType DEF RunInv, GateInv, TypeInv
  <2>3. simRow[r] \in [Index -> {None, "pass", "fail", "skipped"}]
    BY DEF TypeInv, TypeOK, TablesOK
  <2>4. ~GatesPassed(r)
    BY <2>1, <2>2, NullAssumption DEF GatesPassed
  <2>5. CASE IsLast(r, i)
    <3>1. pc'[r] = "signer"
      BY <1>12, <2>5 DEF SimPass, Goto, TypeInv, TypeOK, LocalsOK
    <3>2. GatesPassed(r)'
      BY <1>12, <3>1, RunStepGateInv
         DEF GateInv, AllPassed, SimPassed, GatesPassed, Approved, Step, Gate
    <3>3. status[r] = "running"
      BY <2>1 DEF RunInv, PhaseInv
    <3>4. QED
      BY <2>1, <3>2, <3>3, ViewKept DEF Seen, Granted
  <2>6. CASE ~IsLast(r, i)
    <3>1. PICK j \in Executable(r) : ~(j <= i)
      BY <2>6 DEF IsLast
    <3>2. j \in Index /\ j > cur[r] /\ j # i
      BY <2>1, <3>1, ExecutableType, Positions DEF TypeInv
    <3>3. simRow[r][j] = None
      BY <2>1, <3>2 DEF RunInv, GateInv
    <3>4. simRow'[r][j] = None
      BY <2>1, <2>3, <3>2, <3>3
    <3>5. ~GatesPassed(r)'
      BY <2>1, <3>4, ViewKept, NullAssumption DEF GatesPassed
    <3>6. QED
      BY <2>1, <2>4, <3>5, ViewKept DEF Seen, Unseen
  <2>7. QED
    BY <2>5, <2>6
<1>13. ASSUME NEW i \in Index, SimFail(r, i)
      PROVE  Seen(r)
  <2>1. /\ acts'[r] = acts[r] /\ tx'[r] = tx[r] /\ status'[r] = status[r]
        /\ pc[r] = "simulate" /\ i \in Executable(r) /\ i > cur[r]
        /\ simRow'[r] = [simRow[r] EXCEPT ![i] = "fail"]
    BY <1>13 DEF SimFail, IsNext, At, world, TypeInv, TypeOK, TablesOK
  <2>2. i \in Index /\ simRow[r][i] = None
    BY <2>1, ExecutableType DEF RunInv, GateInv, TypeInv
  <2>3. simRow[r] \in [Index -> {None, "pass", "fail", "skipped"}]
    BY DEF TypeInv, TypeOK, TablesOK
  <2>4. ~GatesPassed(r)
    BY <2>1, <2>2, NullAssumption DEF GatesPassed
  <2>5. ~GatesPassed(r)'
    BY <2>1, <2>2, <2>3, ViewKept DEF GatesPassed
  <2>6. QED
    BY <2>1, <2>4, <2>5, ViewKept DEF Seen, Unseen
<1>14. CASE SignerFails(r)
  BY <1>14, ViewKept DEF SignerFails, FailExecution, FailWith, Goto, tables, world, Seen, Unseen
<1>15. CASE SignerReady(r)
  BY <1>15, ViewKept DEF SignerReady, Goto, tables, world, Seen, Unseen
<1>16. CASE Preflight(r)
  BY <1>16, ViewKept DEF Preflight, FailExecution, FailWith, Goto, tables, world, Seen, Unseen
<1>17. CASE PreflightUnreachable(r)
  BY <1>17, ViewKept DEF PreflightUnreachable, Goto, tables, world, Seen, Unseen
<1>18. ASSUME NEW i \in Index, Send(r, i)
      PROVE  Seen(r)
  <2>1. /\ pc[r] = "send" /\ SendsFor(r, i) /\ tx'[r] = [tx[r] EXCEPT ![i] = "pending"]
    BY <1>18 DEF Send, At, TypeInv, TypeOK, WorldOK
  <2>2. UNCHANGED tables /\ acts' = acts
    BY <1>18 DEF Send
  <2>3. QED
    BY <2>1, <2>2, LeavesSeen DEF Seen
<1>19. ASSUME NEW i \in Index, SendFails(r, i)
      PROVE  Seen(r)
  <2>1. UNCHANGED tables /\ acts' = acts /\ pc[r] = "send" /\ SendsFor(r, i)
    BY <1>19 DEF SendFails, At
  <2>2. CASE tx' = tx
    BY <2>1, <2>2, ViewKept DEF tables, Seen, Unseen
  <2>3. CASE tx' = [tx EXCEPT ![r][i] = "pending"]
    <3>1. tx'[r] = [tx[r] EXCEPT ![i] = "pending"]
      BY <2>3 DEF TypeInv, TypeOK, WorldOK
    <3>2. QED
      BY <2>1, <3>1, LeavesSeen DEF Seen
  <2>4. QED
    BY <1>19, <2>2, <2>3 DEF SendFails
<1>20. ASSUME NEW i \in Index, RecordBroadcast(r, i)
      PROVE  Seen(r)
  BY <1>20, ViewKept DEF RecordBroadcast, Goto, tables, world, Seen, Unseen
<1>21. ASSUME NEW i \in Index, RecordReceipt(r, i)
      PROVE  Seen(r)
  BY <1>21, ViewKept DEF RecordReceipt, FailExecution, FailWith, Goto, tables, world, Seen, Unseen
<1>22. CASE ReceiptArrives(r)
  BY <1>22, ViewKept DEF ReceiptArrives, Goto, tables, world, Seen, Unseen
<1>23. CASE ReceiptFails(r)
  BY <1>23, ViewKept DEF ReceiptFails, FailExecution, FailWith, Goto, tables, world, Seen, Unseen
<1>24. CASE FailExec(r)
  BY <1>24, ViewKept DEF FailExec, Goto, tables, world, Seen, Unseen
<1>25. CASE FailJournal(r)
  BY <1>25, ViewKept DEF FailJournal, Goto, tables, world, Seen, Unseen
<1>26. CASE FailStatus(r)
  <2>1. /\ pc[r] = "fail_status" /\ status[r] = "running"
        /\ status'[r] = fail[r].status /\ fail[r].status \in Terminal
        /\ fail[r].status # "succeeded"
    BY <1>26 DEF FailStatus, At, CanTransition, TypeInv, TypeOK, TablesOK, LocalsOK,
              Failure, RunInv, PhaseInv, Failing
  <2>2. fail[r].status \in Denied => \A i \in Index : ~Sent(r, i)
    BY <2>1 DEF RunInv, InertInv, Failing, Untouched
  <2>3. fail[r].status \in Denied => Handed(r) = {}
    BY <2>2, NothingHanded DEF TypeInv
  <2>4. Moved(r, "running", fail[r].status)
    BY <1>26, <2>1, ViewKept DEF FailStatus, Moved, world
  <2>5. QED
    BY <2>1, <2>3, <2>4 DEF Seen, Settled
<1>27. CASE RecordAction(r)
  BY <1>27, ViewKept DEF RecordAction, Goto, tables, world, Seen, Unseen
<1>28. CASE Capture(r)
  BY <1>28, ViewKept DEF Capture, Goto, tables, world, Seen, Unseen
<1>29. CASE Finish(r)
  <2>1. /\ pc[r] = "finish" /\ status[r] = "running" /\ status'[r] = "succeeded"
    BY <1>29 DEF Finish, At, CanTransition, TypeInv, TypeOK, TablesOK
  <2>2. \A i \in Executable(r) : Sent(r, Carrier(r, i))
    <3>1. CASE Batching(r)
      BY <2>1, <3>1 DEF RunInv, ChainInv, BatchInv, Closing, Carrier
    <3>2. CASE ~Batching(r)
      BY <2>1, <3>2 DEF RunInv, ChainInv, SequenceInv, Closing, Carrier, Done, Sent
    <3>3. QED
      BY <3>1, <3>2
  <2>3. Handed(r) = Executable(r)
    BY <2>2 DEF Handed
  <2>4. Moved(r, "running", "succeeded") /\ "succeeded" \in Terminal \ Denied
    BY <1>29, <2>1, ViewKept DEF Finish, Moved, world, Terminal, Denied
  <2>5. QED
    BY <2>3, <2>4 DEF Seen, Settled
<1>30. CASE RpcFails(r)
  BY <1>30, ViewKept DEF RpcFails, Abandon, Return, tables, world, Seen, Unseen
<1>31. CASE StoreFails(r)
  BY <1>31, ViewKept DEF StoreFails, Abandon, Return, tables, world, Seen, Unseen
<1>32. QED
  BY <1>1, <1>2, <1>3, <1>4, <1>5, <1>6, <1>7, <1>8, <1>9, <1>10, <1>11, <1>12, <1>13, <1>14, <1>15, <1>16, <1>17, <1>18, <1>19, <1>20, <1>21, <1>22, <1>23, <1>24, <1>25, <1>26, <1>27, <1>28, <1>29, <1>30, <1>31
     DEF Step, Fault, Gate, Execution

(* A step of the environment is unseen.                                    *)
LEMMA EnvironmentUnseen ==
  ASSUME TypeInv, Environment, NEW r \in Runs
  PROVE  Unseen(r)
<1>1. UNCHANGED tables /\ acts' = acts
  BY DEF Environment, PolicySet, Mine, DeployDelegate, Restart, locals
<1>2. CASE UNCHANGED tx
  BY <1>1, <1>2, ViewKept DEF Unseen, tables
<1>3. ASSUME NEW q \in Runs, NEW i \in Index, Mine(q, i)
      PROVE  Unseen(r)
  <2>1. \A k \in Index : Sent(r, k)' <=> Sent(r, k)
    BY <1>3 DEF Mine, Sent, TypeInv, TypeOK, WorldOK
  <2>2. /\ Executable(r)' = Executable(r) /\ First(r)' = First(r)
        /\ Batching(r)' = Batching(r)
    BY <1>1, ListKept
  <2>3. \A k \in Executable(r) : Carrier(r, k) \in Index /\ Carrier(r, k)' = Carrier(r, k)
    BY <2>2, CarrierType DEF Carrier, TypeInv
  <2>4. Handed(r)' = Handed(r)
    <3>1. Handed(r)' = { k \in Executable(r) : Sent(r, Carrier(r, k))' }
      BY <2>2 DEF Handed
    <3>2. QED
      BY <2>1, <2>3, <3>1 DEF Handed, Sent
  <2>5. QED
    BY <1>1, <2>4, ViewKept DEF Unseen, tables
<1>4. QED
  BY <1>2, <1>3 DEF Environment, PolicySet, DeployDelegate, Restart, world

(* The per-run views put together as the contract's state.                 *)
LEMMA SeenImplements ==
  ASSUME NEW r \in Runs, Seen(r), \A q \in Runs : q # r => Unseen(q),
         status \in [Runs -> Status \cup {None}],
         status' \in [Runs -> Status \cup {None}]
  PROVE  [Contract!Next]_(Contract!vars)
<1> DEFINE wanted == [q \in Runs |-> Executable(q)]
           granted == [q \in Runs |-> GatesPassed(q)]
           sent == [q \in Runs |-> Handed(q)]
<1>0. \A q \in Runs : GatesPassed(q) \in BOOLEAN /\ GatesPassed(q)' \in BOOLEAN
  BY DEF GatesPassed
<1>1. \A q \in Runs : q # r =>
        /\ status'[q] = status[q] /\ Executable(q)' = Executable(q)
        /\ GatesPassed(q)' = GatesPassed(q) /\ Handed(q)' = Handed(q)
  BY <1>0 DEF Unseen
<1>2. /\ status'[r] = status[r] => status' = status
      /\ \A v : status'[r] = v => status' = [status EXCEPT ![r] = v]
  BY <1>1
<1>3. /\ Executable(r)' = Executable(r) => wanted' = wanted
      /\ wanted' = [wanted EXCEPT ![r] = Executable(r)']
  BY <1>1
<1>4. /\ GatesPassed(r)' = GatesPassed(r) => granted' = granted
      /\ granted' = [granted EXCEPT ![r] = GatesPassed(r)']
  BY <1>1
<1>5. /\ Handed(r)' = Handed(r) => sent' = sent
      /\ sent' = [sent EXCEPT ![r] = Handed(r)']
  BY <1>1
<1>6. (GatesPassed(r)' <=> GatesPassed(r)) => granted' = granted
  BY <1>0, <1>4
<1>7. wanted[r] = Executable(r) /\ granted[r] = GatesPassed(r) /\ sent[r] = Handed(r)
  OBVIOUS
<1> HIDE DEF wanted, granted, sent
<1>8. CASE Unseen(r)
  <2>1. status' = status /\ wanted' = wanted /\ granted' = granted /\ sent' = sent
    BY <1>2, <1>3, <1>5, <1>6, <1>8 DEF Unseen
  <2>2. QED
    BY <2>1 DEF Contract!vars, wanted, granted, sent
<1>9. ASSUME NEW from, NEW st, Moved(r, from, st)
      PROVE  /\ status' = [status EXCEPT ![r] = st]
             /\ wanted' = wanted /\ granted' = granted /\ sent' = sent
  BY <1>2, <1>3, <1>5, <1>6, <1>9 DEF Moved
<1>10. CASE Moved(r, None, "queued")
  <2>1. Contract!Submit(r)
    BY <1>9, <1>10 DEF Contract!Submit, Moved, wanted, granted, sent
  <2>2. QED
    BY <2>1 DEF Contract!Next
<1>11. CASE Moved(r, "queued", "running")
  <2>1. Contract!Begin(r)
    BY <1>9, <1>11 DEF Contract!Begin, Moved, wanted, granted, sent
  <2>2. QED
    BY <2>1 DEF Contract!Next
<1>12. CASE Asked(r)
  <2>1. status' = status /\ granted' = granted /\ sent' = sent
    BY <1>2, <1>5, <1>6, <1>12 DEF Asked
  <2>2. wanted[r] = {} /\ wanted' = [wanted EXCEPT ![r] = Executable(r)']
    BY <1>3, <1>7, <1>12 DEF Asked
  <2>3. Contract!Ask(r, Executable(r)')
    BY <1>12, <2>1, <2>2 DEF Contract!Ask, Asked, wanted, granted, sent
  <2>4. QED
    BY <1>12, <2>3 DEF Contract!Next, Asked
<1>13. CASE Granted(r)
  <2>1. status' = status /\ wanted' = wanted /\ sent' = sent
    BY <1>2, <1>3, <1>5, <1>13 DEF Granted
  <2>2. GatesPassed(r)' = TRUE
    BY <1>0, <1>13 DEF Granted
  <2>3. wanted[r] # {} /\ granted' = [granted EXCEPT ![r] = TRUE]
    BY <1>4, <1>7, <1>13, <2>2 DEF Granted
  <2>4. Contract!Grant(r)
    BY <1>13, <2>1, <2>3 DEF Contract!Grant, Granted, wanted, granted, sent
  <2>5. QED
    BY <2>4 DEF Contract!Next
<1>14. ASSUME NEW S \in (SUBSET Index) \ {{}}, SentOff(r, S)
       PROVE  [Contract!Next]_(Contract!vars)
  <2>1. (GatesPassed(r)' <=> GatesPassed(r)) /\ Executable(r)' = Executable(r)
    BY <1>14 DEF SentOff
  <2>2. status' = status /\ wanted' = wanted /\ granted' = granted
    BY <1>2, <1>3, <1>6, <1>14, <2>1 DEF SentOff
  <2>3. sent' = [sent EXCEPT ![r] = sent[r] \cup S]
    BY <1>5, <1>7, <1>14 DEF SentOff
  <2>4. /\ granted[r] /\ S \subseteq wanted[r] /\ S \cap sent[r] = {}
        /\ \A i \in S, j \in wanted[r] \ (S \cup sent[r]) : i < j
    BY <1>7, <1>14 DEF SentOff
  <2>5. Contract!Send(r, S)
    BY <1>14, <2>2, <2>3, <2>4
       DEF Contract!Send, SentOff, wanted, granted, sent
  <2>6. QED
    BY <2>5 DEF Contract!Next
<1>15. CASE Settled(r)
  <2>1. PICK st \in Terminal :
          /\ Moved(r, "running", st)
          /\ st \in Denied => Handed(r) = {}
          /\ st = "succeeded" => Handed(r) = Executable(r)
    BY <1>15 DEF Settled
  <2>2. /\ status[r] = "running"
        /\ status' = [status EXCEPT ![r] = st]
        /\ wanted' = wanted /\ granted' = granted /\ sent' = sent
    BY <1>9, <2>1 DEF Moved
  <2>3. /\ st \in Denied => sent[r] = {}
        /\ st = "succeeded" => sent[r] = wanted[r]
    BY <1>7, <2>1
  <2>4. Contract!Finish(r, st)
    BY <2>2, <2>3
       DEF Contract!Finish, Contract!Denied, Denied, wanted, granted, sent
  <2>5. QED
    BY <2>4 DEF Contract!Next, Contract!Denied, Terminal
<1>16. QED
  BY <1>8, <1>10, <1>11, <1>12, <1>13, <1>14, <1>15 DEF Seen

(* Every behaviour of the pipeline is one the contract allows: a terminal  *)
(* status is final, nothing leaves ungranted, out of order or twice, a     *)
(* denied run sent nothing, a succeeded one everything.                    *)
THEOREM Refinement == Spec => ImplementsContract
<1>1. Init => Contract!Init
  <2> SUFFICES ASSUME Init
               PROVE  Contract!Init
    OBVIOUS
  <2>1. \A r \in Runs : Executable(r) = {}
    BY DEF Init, Executable
  <2>2. \A r \in Runs : GatesPassed(r) = FALSE /\ Handed(r) = {}
    BY <2>1 DEF GatesPassed, Handed
  <2>3. QED
    BY <2>1, <2>2 DEF Init, Contract!Init
<1>2. IInv /\ IInv' /\ [Next]_vars => [Contract!Next]_(Contract!vars)
  <2> SUFFICES ASSUME IInv, IInv', [Next]_vars
               PROVE  [Contract!Next]_(Contract!vars)
    OBVIOUS
  <2>1. TypeInv /\ TypeOK
    BY DEF IInv, TypeInv
  <2>2. /\ status \in [Runs -> Status \cup {None}]
        /\ status' \in [Runs -> Status \cup {None}]
    BY DEF IInv, TypeInv, TypeOK, TablesOK
  <2>3. ASSUME NEW q \in Runs, Frozen(q)
        PROVE  Unseen(q)
    BY <2>3, ViewKept DEF Frozen, Unseen
  <2>4. ASSUME NEW r \in Runs, Step(r) \/ Fault(r)
        PROVE  [Contract!Next]_(Contract!vars)
    <3>1. Seen(r)
      BY <2>1, <2>4, RunStepSeen DEF IInv
    <3>2. \A q \in Runs : q # r => Unseen(q)
      BY <2>1, <2>3, <2>4, Frame
    <3>3. QED
      BY <2>2, <3>1, <3>2, SeenImplements
  <2>5. ASSUME \A q \in Runs : Unseen(q)
        PROVE  [Contract!Next]_(Contract!vars)
    <3>1. CASE Runs = {}
      BY <2>2, <3>1 DEF Contract!vars
    <3>2. ASSUME NEW r \in Runs
          PROVE  [Contract!Next]_(Contract!vars)
      BY <2>2, <2>5, SeenImplements DEF Seen
    <3>3. QED
      BY <3>1, <3>2
  <2>6. CASE Environment
    BY <2>1, <2>5, <2>6, EnvironmentUnseen
  <2>7. CASE UNCHANGED vars
    <3>1. \A q \in Runs : Frozen(q)
      BY <2>7 DEF vars, Frozen, tables, locals, world
    <3>2. QED
      BY <2>3, <2>5, <3>1
  <2>8. QED
    BY <2>4, <2>6, <2>7 DEF Next
<1>3. QED
  BY <1>1, <1>2, Invariance, PTL DEF Spec, ImplementsContract, Contract!Spec

-----------------------------------------------------------------------------
(* The spend of a list is a recursive function of the length of its prefix.*)
SumAt(f, list, k, n) == IF n = 0 THEN 0 ELSE f[n - 1] + SpendOf(list[n], k)

Sums(f, list, k, m) == f = [n \in 0..m |-> SumAt(f, list, k, n)]

(* The recursion has a solution up to every length.                        *)
LEMMA SumsExist ==
  ASSUME NEW list, NEW k, NEW m \in Nat
  PROVE  \E f : Sums(f, list, k, m)
<1> DEFINE Bad == {n \in Nat : ~\E f : Sums(f, list, k, n)}
<1>1. SUFFICES ASSUME Bad # {} PROVE FALSE
  OBVIOUS
<1>2. PICK l \in Bad : \A n \in Bad : l <= n
  <2>1. Bad \in SUBSET Nat
    OBVIOUS
  <2> HIDE DEF Bad
  <2>2. QED
    BY <2>1, <1>1, LeastInt
<1>3. CASE l = 0
  <2> DEFINE f == [n \in 0..0 |-> 0]
  <2>1. Sums(f, list, k, 0)
    BY DEF Sums, SumAt
  <2>2. QED
    BY <2>1, <1>2, <1>3
<1>4. CASE l # 0
  <2>1. l - 1 \in Nat /\ l - 1 \notin Bad
    BY <1>2, <1>4
  <2>2. PICK f : Sums(f, list, k, l - 1)
    BY <2>1
  <2> DEFINE g == [n \in 0..l |-> IF n = l THEN SumAt(f, list, k, l) ELSE f[n]]
  <2>3. \A n \in 0..l : g[n] = SumAt(g, list, k, n)
    <3> SUFFICES ASSUME NEW n \in 0..l PROVE g[n] = SumAt(g, list, k, n)
      OBVIOUS
    <3>1. n # 0 => n - 1 \in 0..l /\ n - 1 # l /\ g[n - 1] = f[n - 1]
      OBVIOUS
    <3>2. SumAt(g, list, k, n) = SumAt(f, list, k, n)
      BY <3>1 DEF SumAt
    <3>3. n # l => f[n] = SumAt(f, list, k, n)
      BY <2>2 DEF Sums
    <3>4. QED
      BY <3>2, <3>3
  <2>4. Sums(g, list, k, l)
    <3>1. g = [n \in 0..l |-> g[n]]
      OBVIOUS
    <3> HIDE DEF g
    <3>2. QED
      BY <3>1, <2>3 DEF Sums
  <2>5. QED
    BY <2>4, <1>2
<1>5. QED
  BY <1>3, <1>4

LEMMA SpendUpToIs ==
  ASSUME NEW list, Len(list) \in Nat, NEW k
  PROVE  /\ SpendUpTo(list, k)[0] = 0
         /\ \A n \in 1..Len(list) :
              SpendUpTo(list, k)[n] = SpendUpTo(list, k)[n - 1] + SpendOf(list[n], k)
<1>1. SpendUpTo(list, k) = CHOOSE f : Sums(f, list, k, Len(list))
  BY DEF SpendUpTo, Sums, SumAt
<1>2. Sums(SpendUpTo(list, k), list, k, Len(list))
  BY <1>1, SumsExist
<1>3. \A n \in 0..Len(list) :
        SpendUpTo(list, k)[n] = SumAt(SpendUpTo(list, k), list, k, n)
  BY <1>2 DEF Sums
<1>4. QED
  BY <1>3 DEF SumAt

LEMMA ListLength ==
  ASSUME NEW list \in ActionList
  PROVE  Len(list) \in Nat /\ DOMAIN list = 1..Len(list)
<1>1. PICK n \in 0..MaxActions : list \in [1..n -> Item]
  BY DEF ActionList
<1>2. n \in Nat
  BY <1>1, RunPipelineAssumption
<1>3. QED
  BY <1>1, <1>2

LEMMA SpendOfType ==
  ASSUME NEW list \in ActionList, NEW n \in DOMAIN list, NEW k
  PROVE  SpendOf(list[n], k) \in U256
<1>1. list[n] # Noop => list[n] \in Decision
  BY ListType, RunPipelineAssumption DEF Item
<1>2. QED
  BY <1>1, SpendType, MaxU256Assumption DEF SpendOf, U256

(* Prefix sums are natural numbers.                                        *)
LEMMA SpendUpToType ==
  ASSUME NEW list \in ActionList, NEW k, NEW n \in 0..Len(list)
  PROVE  SpendUpTo(list, k)[n] \in Nat
<1> DEFINE u == SpendUpTo(list, k)
           Bad == {m \in 0..Len(list) : u[m] \notin Nat}
<1>1. Len(list) \in Nat /\ DOMAIN list = 1..Len(list)
  BY ListLength
<1>2. u[0] = 0 /\ \A m \in 1..Len(list) : u[m] = u[m - 1] + SpendOf(list[m], k)
  BY <1>1, SpendUpToIs
<1> HIDE DEF u
<1>3. SUFFICES ASSUME Bad # {} PROVE FALSE
  BY DEF u
<1>4. PICK l \in Bad : \A m \in Bad : l <= m
  <2>1. Bad \in SUBSET Nat
    BY <1>1
  <2> HIDE DEF Bad
  <2>2. QED
    BY <2>1, <1>3, LeastInt
<1>5. l \in 1..Len(list) /\ l - 1 \in 0..Len(list) /\ l - 1 \notin Bad
  BY <1>1, <1>2, <1>4
<1>6. SpendOf(list[l], k) \in Nat
  BY <1>1, <1>5, SpendOfType, MaxU256Assumption DEF U256
<1>7. QED
  BY <1>2, <1>4, <1>5, <1>6

(* Over a stretch of the list that spends nothing the sum stands still.    *)
LEMMA SpendStandsStill ==
  ASSUME NEW list \in ActionList, NEW k, NEW n \in 0..Len(list), NEW m \in 0..Len(list),
         n <= m, \A l \in (n + 1)..m : SpendOf(list[l], k) = 0
  PROVE  SpendUpTo(list, k)[m] = SpendUpTo(list, k)[n]
<1> DEFINE u == SpendUpTo(list, k)
           Bad == {l \in n..m : u[l] # u[n]}
<1>1. Len(list) \in Nat
  BY ListLength
<1>2. \A l \in 1..Len(list) : u[l] = u[l - 1] + SpendOf(list[l], k)
  BY <1>1, SpendUpToIs
<1>3. \A l \in 0..Len(list) : u[l] \in Nat
  BY SpendUpToType
<1> HIDE DEF u
<1>4. SUFFICES ASSUME Bad # {} PROVE FALSE
  BY <1>1 DEF u
<1>5. PICK l \in Bad : \A j \in Bad : l <= j
  <2>1. Bad \in SUBSET Nat
    BY <1>1
  <2> HIDE DEF Bad
  <2>2. QED
    BY <2>1, <1>4, LeastInt
<1>6. l \in (n + 1)..m /\ l \in 1..Len(list) /\ l - 1 \in n..m /\ l - 1 \notin Bad
  BY <1>1, <1>5
<1>7. u[l] = u[l - 1] + 0 /\ u[l - 1] = u[n] /\ u[n] \in Nat
  BY <1>2, <1>3, <1>6
<1>8. QED
  BY <1>5, <1>7

-----------------------------------------------------------------------------
(* What the evaluator allows and counts.                                   *)

(* What is allowed late in a run is allowed by itself.                     *)
LEMMA AllowedAlone ==
  ASSUME NEW p \in LoadedPolicy, NEW d \in Decision, NEW t \in Tally, Allowed(p, d, t)
  PROVE  Allowed(p, d, EmptyTally)
<1>1. AllowsSpend(p, d, t) => AllowsSpend(p, d, EmptyTally)
  <2> SUFFICES ASSUME AllowsSpend(p, d, t), CountsAsSpend(d),
                      Erc20SpendCap(p, d.chain, d.to) # None
               PROVE  NextSpend(d, EmptyTally) <= Erc20SpendCap(p, d.chain, d.to)
    BY DEF AllowsSpend
  <2>1. d.amount \in U256 /\ SpendKey(d) \in ChainContract
    BY SpendType
  <2>2. t[SpendKey(d)] \in U256 /\ EmptyTally[SpendKey(d)] = 0
    BY <2>1 DEF Tally, EmptyTally
  <2>3. Erc20SpendCap(p, d.chain, d.to) \in U256
    BY <2>1 DEF Erc20SpendCap, LoadedPolicy, SpendKey
  <2>4. NextSpend(d, t) <= Erc20SpendCap(p, d.chain, d.to)
    BY DEF AllowsSpend
  <2>5. NextSpend(d, EmptyTally) <= NextSpend(d, t) /\ NextSpend(d, t) \in U256
        /\ NextSpend(d, EmptyTally) \in U256
    BY <2>1, <2>2, MaxU256Assumption DEF NextSpend, SaturatingAdd, U256
  <2>6. QED
    BY <2>3, <2>4, <2>5, MaxU256Assumption DEF U256
<1>2. QED
  BY <1>1 DEF Allowed, Evaluate

(* The tally follows the sum up to the type's limit, and a cap below the   *)
(* limit bounds the sum itself.                                            *)
Capped(n) == IF n > MaxU256 THEN MaxU256 ELSE n

LEMMA TallyFollows ==
  ASSUME NEW p \in LoadedPolicy, NEW d \in Decision, d # Noop, NEW t \in Tally,
         Allowed(p, d, t), NEW k \in ChainContract, NEW n \in Nat, t[k] = Capped(n)
  PROVE  /\ TallyAfter(p, d, t)[k] = Capped(n + SpendOf(d, k))
         /\ p.erc20[k] # None /\ p.erc20[k] < MaxU256 /\ n <= p.erc20[k]
              => n + SpendOf(d, k) <= p.erc20[k]
<1>1. CASE CountsAsSpend(d) /\ SpendKey(d) = k
  <2>1. SpendOf(d, k) = d.amount /\ d.amount \in U256
    BY <1>1, SpendType DEF SpendOf
  <2>2. NextSpend(d, t) = SaturatingAdd(Capped(n), d.amount)
    BY <1>1 DEF NextSpend
  <2>3. SaturatingAdd(Capped(n), d.amount) = Capped(n + d.amount)
    BY <2>1, MaxU256Assumption DEF SaturatingAdd, Capped, U256
  <2>4. TallyAfter(p, d, t)[k] = NextSpend(d, t)
    BY <1>1 DEF TallyAfter, Tally
  <2>5. ASSUME p.erc20[k] # None, p.erc20[k] < MaxU256
        PROVE  n + d.amount <= p.erc20[k]
    <3>1. p.erc20[k] \in U256 /\ p.erc20[k] = Erc20SpendCap(p, d.chain, d.to)
      BY <1>1, <2>5 DEF LoadedPolicy, Erc20SpendCap, SpendKey
    <3>2. AllowsSpend(p, d, t)
      BY DEF Allowed, Evaluate
    <3>3. Capped(n + d.amount) <= p.erc20[k]
      BY <1>1, <2>2, <2>3, <2>5, <3>1, <3>2 DEF AllowsSpend
    <3>4. QED
      BY <2>1, <2>5, <3>1, <3>3, MaxU256Assumption DEF Capped, U256
  <2>6. QED
    BY <2>1, <2>2, <2>3, <2>4, <2>5
<1>2. CASE ~(CountsAsSpend(d) /\ SpendKey(d) = k)
  <2>1. SpendOf(d, k) = 0
    BY <1>2 DEF SpendOf
  <2>2. TallyAfter(p, d, t)[k] = t[k]
    BY <1>2 DEF TallyAfter, Tally
  <2>3. QED
    BY <2>1, <2>2
<1>3. QED
  BY <1>1, <1>2
-----------------------------------------------------------------------------
(* The spend of a run against its snapshot, while the policy gate walks the*)
(* list and ever after.                                                    *)
WithinUpTo(r, n) ==
  /\ \A j \in Executable(r) :
       j <= n => Allowed(snap[r], acts[r][j], EmptyTally)
  /\ \A k \in ChainContract :
       snap[r].erc20[k] # None /\ snap[r].erc20[k] < MaxU256
         => SpendUpTo(acts[r], k)[n] <= snap[r].erc20[k]

Judged == {"simulate"} \cup Approved \cup Sending
Unspent == Early \cup {"chain_id"}

SpendInv(r) ==
  /\ pc[r] \in Unspent => tally[r] = EmptyTally
  /\ pc[r] \in Gating => snap[r] # None
  /\ pc[r] = "policy" =>
       /\ cur[r] \in 0..Len(acts[r])
       /\ WithinUpTo(r, cur[r])
       /\ \A k \in ChainContract : tally[r][k] = Capped(SpendUpTo(acts[r], k)[cur[r]])
  /\ pc[r] \in Judged => snap[r] # None /\ WithinUpTo(r, Len(acts[r]))
  /\ (\E i \in Index : Sent(r, i)) =>
       snap[r] # None /\ WithinUpTo(r, Len(acts[r]))

AllSpend == IInv /\ \A r \in Runs : SpendInv(r)

(* A step outside the policy gate that leaves snapshot and list alone.     *)
LEMMA SpendKept ==
  ASSUME TypeOK, NEW r \in Runs, SpendInv(r),
         snap'[r] = snap[r], acts'[r] = acts[r],
         pc'[r] \in Unspent => pc[r] \in Unspent /\ tally'[r] = tally[r],
         pc'[r] \in Gating => pc[r] \in Gating,
         pc'[r] # "policy", pc'[r] \in Judged => pc[r] \in Judged,
         \A i \in Index : Sent(r, i)' => Sent(r, i) \/ pc[r] \in Judged
  PROVE  SpendInv(r)'
<1>1. WithinUpTo(r, Len(acts[r]))' <=> WithinUpTo(r, Len(acts[r]))
  <2>1. Executable(r)' = Executable(r)
    BY ListKept
  <2>2. QED
    BY <2>1 DEF WithinUpTo
<1>2. QED
  BY <1>1 DEF SpendInv

(* A run nobody touched, in the policy gate or not.                        *)
LEMMA SpendFrozen ==
  ASSUME NEW q \in Runs, SpendInv(q), Frozen(q)
  PROVE  SpendInv(q)'
<1>1. Executable(q)' = Executable(q)
  BY ListKept DEF Frozen
<1>2. QED
  BY <1>1 DEF SpendInv, WithinUpTo, Frozen, Sent

(* A run before its first action is judged.                                *)
LEMMA SpendEarly ==
  ASSUME TypeOK, NEW r \in Runs, RunInv(r), SpendInv(r), pc[r] \in Unspent,
         tally'[r] = tally[r], tx'[r] = tx[r],
         pc'[r] \notin {"policy"} \cup Judged,
         pc'[r] \in Gating => snap'[r] # None
  PROVE  SpendInv(r)'
<1>1. \A i \in Index : ~Sent(r, i)'
  BY DEF RunInv, InertInv, Untouched, Sent, Unspent, Gating
<1>2. tally'[r] = EmptyTally
  BY DEF SpendInv
<1>3. QED
  BY <1>1, <1>2 DEF SpendInv

(* The gate passes one action more: what is judged grows by that action,   *)
(* the skipped positions between hold no executable action.                *)
LEMMA SpendPass ==
  ASSUME TypeOK, NEW r \in Runs, RunInv(r), SpendInv(r), NEW i \in Index, PolicyPass(r, i)
  PROVE  SpendInv(r)'
<1> DEFINE list == acts[r]
           p == snap[r]
           d == list[i]
           t == tally[r]
<1>1. /\ list \in ActionList /\ Len(list) \in Nat /\ DOMAIN list = 1..Len(list)
      /\ t \in Tally
  BY ListLength DEF TypeOK, LocalsOK
<1>2. /\ pc[r] = "policy" /\ i \in Executable(r) /\ i > cur[r]
      /\ \A j \in Executable(r) : j > cur[r] => i <= j
      /\ Allowed(p, d, t)
  BY DEF PolicyPass, At, IsNext, GatePolicy, GateTally
<1>3. /\ p \in LoadedPolicy /\ d \in Decision /\ d # Noop
  <2>1. p # None /\ p \in Policies \cup {None}
    BY <1>2 DEF SpendInv, Gating, TypeOK, LocalsOK
  <2>2. d \in Decision /\ d # Noop
    BY <1>2, ExecutableType DEF Executable
  <2>3. QED
    BY <2>1, <2>2, RunPipelineAssumption
<1>4. /\ acts'[r] = list /\ snap'[r] = p /\ tx'[r] = tx[r]
      /\ tally'[r] = TallyAfter(p, d, t)
  BY DEF PolicyPass, GatePolicy, GateTally, world, TypeOK, LocalsOK
<1>5. cur[r] \in 0..Len(list) /\ i \in 1..Len(list) /\ i - 1 \in 0..Len(list)
      /\ cur[r] <= i - 1
  BY <1>1, <1>2 DEF SpendInv, Executable
<1>6. ASSUME NEW k \in ChainContract
      PROVE  /\ SpendUpTo(list, k)[cur[r]] \in Nat
             /\ SpendUpTo(list, k)[i] = SpendUpTo(list, k)[cur[r]] + SpendOf(d, k)
  <2>1. \A l \in (cur[r] + 1)..(i - 1) : SpendOf(list[l], k) = 0
    <3> SUFFICES ASSUME NEW l \in (cur[r] + 1)..(i - 1) PROVE list[l] = Noop
      BY DEF SpendOf
    <3>1. l \in 1..Len(list) /\ l > cur[r] /\ ~(i <= l)
      BY <1>1, <1>5
    <3>2. l \notin Executable(r)
      BY <1>2, <3>1
    <3>3. QED
      BY <1>1, <3>1, <3>2 DEF Executable
  <2> HIDE DEF list
  <2>2. SpendUpTo(list, k)[i - 1] = SpendUpTo(list, k)[cur[r]]
    BY <1>1, <1>5, <2>1, SpendStandsStill
  <2>3. SpendUpTo(list, k)[i] = SpendUpTo(list, k)[i - 1] + SpendOf(d, k)
    BY <1>1, <1>5, SpendUpToIs
  <2>4. QED
    BY <1>1, <1>5, <2>2, <2>3, SpendUpToType
<1>7. \A k \in ChainContract : tally'[r][k] = Capped(SpendUpTo(list, k)[i])
  <2> SUFFICES ASSUME NEW k \in ChainContract
               PROVE  tally'[r][k] = Capped(SpendUpTo(list, k)[i])
    OBVIOUS
  <2>1. t[k] = Capped(SpendUpTo(list, k)[cur[r]])
    BY <1>2 DEF SpendInv
  <2> HIDE DEF list, p, d, t
  <2>2. QED
    BY <1>1, <1>2, <1>3, <1>4, <1>6, <2>1, TallyFollows
<1>8. Executable(r)' = Executable(r)
  BY <1>4, ListKept
<1>9. WithinUpTo(r, cur[r])
  BY <1>2 DEF SpendInv
<1>10. \A j \in Executable(r) : j <= i => Allowed(p, list[j], EmptyTally)
  <2>1. Allowed(p, d, EmptyTally)
    BY <1>1, <1>2, <1>3, AllowedAlone
  <2>2. \A j \in Executable(r) : j <= i => j <= cur[r] \/ j = i
    BY <1>2, Positions
  <2>3. QED
    BY <1>9, <2>1, <2>2 DEF WithinUpTo
<1>11. ASSUME NEW k \in ChainContract, p.erc20[k] # None, p.erc20[k] < MaxU256
       PROVE  SpendUpTo(list, k)[i] <= p.erc20[k]
  <2>1. SpendUpTo(list, k)[cur[r]] <= p.erc20[k]
    BY <1>9, <1>11 DEF WithinUpTo
  <2>2. t[k] = Capped(SpendUpTo(list, k)[cur[r]])
    BY <1>2 DEF SpendInv
  <2> HIDE DEF list, p, d, t
  <2>3. QED
    BY <1>1, <1>2, <1>3, <1>6, <1>11, <2>1, <2>2, TallyFollows
<1>12. \A k \in Index : ~Sent(r, k)'
  BY <1>2, <1>4 DEF RunInv, InertInv, Untouched, Gating, Sent
<1>13. CASE IsLast(r, i)
  <2>1. pc'[r] = "simulate"
    BY <1>13 DEF PolicyPass, Goto, TypeOK, LocalsOK
  <2>2. \A j \in Executable(r) : j <= i
    BY <1>13 DEF IsLast
  <2>3. ASSUME NEW k \in ChainContract
        PROVE  SpendUpTo(list, k)[Len(list)] = SpendUpTo(list, k)[i]
    <3>1. \A l \in (i + 1)..Len(list) : SpendOf(list[l], k) = 0
      <4> SUFFICES ASSUME NEW l \in (i + 1)..Len(list) PROVE list[l] = Noop
        BY DEF SpendOf
      <4>1. l \in 1..Len(list) /\ ~(l <= i)
        BY <1>1, <1>5
      <4>2. l \notin Executable(r)
        BY <2>2, <4>1
      <4>3. QED
        BY <1>1, <4>1, <4>2 DEF Executable
    <3>2. i \in 0..Len(list) /\ Len(list) \in 0..Len(list) /\ i <= Len(list)
      BY <1>1, <1>5
    <3> HIDE DEF list
    <3>3. QED
      BY <1>1, <3>1, <3>2, SpendStandsStill
  <2>4. WithinUpTo(r, Len(acts[r]))'
    <3>1. \A j \in Executable(r) : Allowed(p, list[j], EmptyTally)
      BY <1>10, <2>2
    <3>2. \A k \in ChainContract :
            p.erc20[k] # None /\ p.erc20[k] < MaxU256
              => SpendUpTo(list, k)[Len(list)] <= p.erc20[k]
      BY <1>11, <2>3
    <3>3. QED
      BY <1>4, <1>8, <3>1, <3>2 DEF WithinUpTo
  <2>5. snap'[r] # None
    BY <1>2, <1>4 DEF SpendInv, Gating
  <2>6. QED
    BY <1>12, <2>1, <2>4, <2>5 DEF SpendInv, Unspent, Early, Judged
<1>14. CASE ~IsLast(r, i)
  <2>1. pc'[r] = "policy" /\ cur'[r] = i
    BY <1>14 DEF PolicyPass, Goto, TypeOK, LocalsOK
  <2>2. WithinUpTo(r, cur[r])'
    BY <1>4, <1>8, <1>10, <1>11, <2>1 DEF WithinUpTo
  <2>3. snap'[r] # None
    BY <1>2, <1>4 DEF SpendInv, Gating
  <2>4. cur'[r] \in 0..Len(acts'[r])
    BY <1>1, <1>4, <1>5, <2>1
  <2>5. \A k \in ChainContract : tally'[r][k] = Capped(SpendUpTo(acts'[r], k)[cur'[r]])
    BY <1>4, <1>7, <2>1
  <2>6. QED
    BY <1>12, <2>1, <2>2, <2>3, <2>4, <2>5
       DEF SpendInv, Unspent, Early, Judged, Approved, Sending
<1>15. QED
  BY <1>13, <1>14

(* Every step of a run keeps its spend within its snapshot.                *)
LEMMA RunStepSpend ==
  ASSUME TypeInv, NEW r \in Runs, RunInv(r), SpendInv(r), Step(r) \/ Fault(r)
  PROVE  SpendInv(r)'
<1> USE DEF At, Goto, Return, Abandon, FailWith, FailExecution
<1>1. TypeOK /\ pc \in [Runs -> Phase] /\ snap \in [Runs -> Policies \cup {None}]
      /\ acts \in [Runs -> ActionList] /\ tx \in [Runs -> [Index -> TxState]]
  BY DEF TypeInv, TypeOK, LocalsOK, WorldOK
<1>2. CASE Start(r)
  BY <1>1, <1>2, SpendEarly DEF Start, Unspent, Early, Gating, Judged, Approved, Sending, locals, tables, world
<1>3. CASE Reject(r)
  BY <1>1, <1>3, SpendEarly DEF Reject, Unspent, Early, Gating, Judged, Approved, Sending, locals, tables, world
<1>4. CASE InsertRun(r)
  BY <1>1, <1>4, SpendEarly DEF InsertRun, Unspent, Early, Gating, Judged, Approved, Sending, locals, tables, world
<1>5. CASE Begin(r)
  BY <1>1, <1>5, SpendEarly DEF Begin, Unspent, Early, Gating, Judged, Approved, Sending, locals, tables, world
<1>6. CASE ExecuteNoop(r)
  BY <1>1, <1>6, SpendEarly DEF ExecuteNoop, Unspent, Early, Gating, Judged, Approved, Sending, locals, tables, world
<1>7. CASE ExecuteBadly(r)
  BY <1>1, <1>7, SpendEarly DEF ExecuteBadly, Unspent, Early, Gating, Judged, Approved, Sending, locals, tables, world
<1>8. ASSUME NEW list \in Outputs, ExecuteActions(r, list)
      PROVE  SpendInv(r)'
  BY <1>1, <1>8, SpendEarly DEF ExecuteActions, Unspent, Early, Gating, Judged, Approved, Sending, locals, tables, world
<1>9. CASE ResolveChainId(r)
  <2>1. /\ pc'[r] = "policy" /\ acts'[r] = acts[r] /\ snap'[r] = snap[r]
        /\ cur'[r] = 0 /\ tally'[r] = EmptyTally /\ snap[r] # None
        /\ \A i \in Index : ~Sent(r, i)'
    BY <1>1, <1>9
       DEF ResolveChainId, RunInv, GateInv, InertInv, Untouched, Sent, SpendInv, Unspent, Early, Gating, Judged, Approved, Sending, locals, tables, world
  <2>2. Len(acts[r]) \in Nat
    BY <1>1, ListLength
  <2>3. \A k \in ChainContract : SpendUpTo(acts[r], k)[0] = 0
    BY <2>2, SpendUpToIs
  <2>4. WithinUpTo(r, 0)'
    <3>1. Executable(r)' = Executable(r)
      BY <2>1, ListKept
    <3>2. \A j \in Executable(r) : ~(j <= 0)
      BY <1>1, Positions
    <3>3. ASSUME NEW k \in ChainContract, snap[r].erc20[k] # None
          PROVE  0 <= snap[r].erc20[k]
      BY <1>1, <2>1, <3>3, RunPipelineAssumption DEF LoadedPolicy, U256
    <3>4. QED
      BY <2>1, <2>3, <3>1, <3>2, <3>3 DEF WithinUpTo
  <2>5. Capped(0) = 0 /\ \A k \in ChainContract : EmptyTally[k] = 0
    BY MaxU256Assumption DEF Capped, EmptyTally
  <2>6. 0 \in 0..Len(acts[r])
    BY <2>2
  <2>7. QED
    BY <2>1, <2>3, <2>4, <2>5, <2>6
       DEF SpendInv, Unspent, Early, Judged, Approved, Sending
<1>10. ASSUME NEW i \in Index, PolicyPass(r, i)
      PROVE  SpendInv(r)'
  BY <1>1, <1>10, SpendPass
<1>11. ASSUME NEW i \in Index, PolicyDeny(r, i)
      PROVE  SpendInv(r)'
  BY <1>1, <1>11, SpendKept DEF PolicyDeny, Sent, Unspent, Early, Gating, Judged, Approved, Sending, locals, tables, world
<1>12. CASE SkipSim(r)
  BY <1>1, <1>12, SpendKept DEF SkipSim, Sent, Unspent, Early, Gating, Judged, Approved, Sending, locals, tables, world
<1>13. ASSUME NEW i \in Index, SimPass(r, i)
      PROVE  SpendInv(r)'
  BY <1>1, <1>13, SpendKept DEF SimPass, Sent, Unspent, Early, Gating, Judged, Approved, Sending, locals, tables, world
<1>14. ASSUME NEW i \in Index, SimFail(r, i)
      PROVE  SpendInv(r)'
  BY <1>1, <1>14, SpendKept DEF SimFail, Sent, Unspent, Early, Gating, Judged, Approved, Sending, locals, tables, world
<1>15. CASE SignerFails(r)
  BY <1>1, <1>15, SpendKept DEF SignerFails, Sent, Unspent, Early, Gating, Judged, Approved, Sending, locals, tables, world
<1>16. CASE SignerReady(r)
  BY <1>1, <1>16, SpendKept DEF SignerReady, Sent, Unspent, Early, Gating, Judged, Approved, Sending, locals, tables, world
<1>17. CASE Preflight(r)
  BY <1>1, <1>17, SpendKept DEF Preflight, Sent, Unspent, Early, Gating, Judged, Approved, Sending, locals, tables, world
<1>18. CASE PreflightUnreachable(r)
  BY <1>1, <1>18, SpendKept DEF PreflightUnreachable, Sent, Unspent, Early, Gating, Judged, Approved, Sending, locals, tables, world
<1>19. ASSUME NEW i \in Index, Send(r, i)
      PROVE  SpendInv(r)'
  BY <1>1, <1>19, SpendKept DEF Send, Sent, Unspent, Early, Gating, Judged, Approved, Sending, locals, tables, world
<1>20. ASSUME NEW i \in Index, SendFails(r, i)
      PROVE  SpendInv(r)'
  BY <1>1, <1>20, SpendKept DEF SendFails, Sent, Unspent, Early, Gating, Judged, Approved, Sending, locals, tables, world
<1>21. ASSUME NEW i \in Index, RecordBroadcast(r, i)
      PROVE  SpendInv(r)'
  BY <1>1, <1>21, SpendKept DEF RecordBroadcast, Sent, Unspent, Early, Gating, Judged, Approved, Sending, locals, tables, world
<1>22. ASSUME NEW i \in Index, RecordReceipt(r, i)
      PROVE  SpendInv(r)'
  BY <1>1, <1>22, SpendKept DEF RecordReceipt, Sent, Unspent, Early, Gating, Judged, Approved, Sending, locals, tables, world
<1>23. CASE ReceiptArrives(r)
  BY <1>1, <1>23, SpendKept DEF ReceiptArrives, Sent, Unspent, Early, Gating, Judged, Approved, Sending, locals, tables, world
<1>24. CASE ReceiptFails(r)
  BY <1>1, <1>24, SpendKept DEF ReceiptFails, Sent, Unspent, Early, Gating, Judged, Approved, Sending, locals, tables, world
<1>25. CASE FailExec(r)
  BY <1>1, <1>25, SpendKept DEF FailExec, Sent, Unspent, Early, Gating, Judged, Approved, Sending, locals, tables, world
<1>26. CASE FailJournal(r)
  BY <1>1, <1>26, SpendKept DEF FailJournal, Sent, Unspent, Early, Gating, Judged, Approved, Sending, locals, tables, world
<1>27. CASE FailStatus(r)
  BY <1>1, <1>27, SpendKept DEF FailStatus, Sent, Unspent, Early, Gating, Judged, Approved, Sending, locals, tables, world
<1>28. CASE RecordAction(r)
  BY <1>1, <1>28, SpendKept DEF RecordAction, Sent, Unspent, Early, Gating, Judged, Approved, Sending, locals, tables, world
<1>29. CASE Capture(r)
  BY <1>1, <1>29, SpendKept DEF Capture, Sent, Unspent, Early, Gating, Judged, Approved, Sending, locals, tables, world
<1>30. CASE Finish(r)
  BY <1>1, <1>30, SpendKept DEF Finish, Sent, Unspent, Early, Gating, Judged, Approved, Sending, locals, tables, world
<1>31. CASE RpcFails(r)
  BY <1>1, <1>31, SpendKept DEF RpcFails, Sent, Unspent, Early, Gating, Judged, Approved, Sending, locals, tables, world
<1>32. CASE StoreFails(r)
  BY <1>1, <1>32, SpendKept DEF StoreFails, Sent, Unspent, Early, Gating, Judged, Approved, Sending, locals, tables, world
<1>33. QED
  BY <1>2, <1>3, <1>4, <1>5, <1>6, <1>7, <1>8, <1>9, <1>10, <1>11, <1>12, <1>13, <1>14, <1>15, <1>16, <1>17, <1>18, <1>19, <1>20, <1>21, <1>22, <1>23, <1>24, <1>25, <1>26, <1>27, <1>28, <1>29, <1>30, <1>31, <1>32
     DEF Step, Fault, Gate, Execution

LEMMA InitSpend == Init => AllSpend
<1> SUFFICES ASSUME Init, NEW r \in Runs PROVE SpendInv(r)
  BY InitIInv DEF AllSpend
<1>1. pc[r] = "idle" /\ tally[r] = EmptyTally /\ \A i \in Index : ~Sent(r, i)
  BY DEF Init, Sent
<1>2. QED
  BY <1>1 DEF SpendInv, Unspent, Early, Gating, Judged, Approved, Sending

LEMMA StepSpend == AllSpend /\ [Next]_vars => AllSpend'
<1> SUFFICES ASSUME AllSpend, [Next]_vars
             PROVE  AllSpend'
  OBVIOUS
<1>1. IInv'
  BY StepIInv DEF AllSpend
<1>2. ASSUME NEW q \in Runs
      PROVE  SpendInv(q)'
  <2>1. TypeInv /\ TypeOK /\ RunInv(q) /\ SpendInv(q)
    BY DEF AllSpend, IInv, TypeInv
  <2>2. ASSUME NEW r \in Runs, Step(r) \/ Fault(r)
        PROVE  SpendInv(q)'
    <3>1. CASE q = r
      BY <2>1, <2>2, <3>1, RunStepSpend
    <3>2. CASE q # r
      BY <2>1, <2>2, <3>2, Frame, SpendFrozen
    <3>3. QED
      BY <3>1, <3>2
  <2>3. ASSUME NEW p \in Policies, PolicySet(p)
        PROVE  SpendInv(q)'
    BY <2>1, <2>3, SpendFrozen DEF PolicySet, Frozen, tables, locals, world
  <2>4. ASSUME NEW r \in Runs, NEW i \in Index, Mine(r, i)
        PROVE  SpendInv(q)'
    <3>1. UNCHANGED locals
      BY <2>4 DEF Mine
    <3>2. \A k \in Index : Sent(q, k)' => Sent(q, k)
      BY <2>1, <2>4 DEF Mine, Sent, TypeOK, WorldOK
    <3>3. Executable(q)' = Executable(q)
      BY <3>1, ListKept DEF locals
    <3>4. QED
      BY <2>1, <3>1, <3>2, <3>3 DEF SpendInv, WithinUpTo, locals
  <2>5. ASSUME DeployDelegate
        PROVE  SpendInv(q)'
    BY <2>1, <2>5, SpendFrozen DEF DeployDelegate, Frozen, tables, locals
  <2>6. ASSUME Restart
        PROVE  SpendInv(q)'
    <3>1. /\ snap' = snap /\ acts' = acts /\ tally' = tally /\ tx' = tx /\ cur' = cur
      BY <2>6 DEF Restart, world
    <3>2. pc'[q] = "done" \/ pc'[q] = pc[q]
      BY <2>1, <2>6 DEF Restart, TypeOK, LocalsOK
    <3>3. Executable(q)' = Executable(q)
      BY <3>1, ListKept
    <3>4. QED
      BY <2>1, <3>1, <3>2, <3>3
         DEF SpendInv, WithinUpTo, Sent, Unspent, Early, Gating, Judged, Approved, Sending
  <2>7. ASSUME UNCHANGED vars
        PROVE  SpendInv(q)'
    BY <2>1, <2>7, SpendFrozen DEF vars, Frozen, tables, locals, world
  <2>8. QED
    BY <2>2, <2>3, <2>4, <2>5, <2>6, <2>7 DEF Next, Environment
<1>3. QED
  BY <1>1, <1>2 DEF AllSpend

(* What reached the chain is what the snapshot of its run permits, each    *)
(* action by itself and their amounts together.                            *)
THEOREM SpendWithinSnapshot == Spec => []ChainWithinSnapshot
<1>1. AllSpend => ChainWithinSnapshot
  <2> SUFFICES ASSUME AllSpend, NEW r \in Runs, \E i \in Index : Sent(r, i)
               PROVE  /\ snap[r] # None
                      /\ \A j \in Executable(r) : Allowed(snap[r], acts[r][j], EmptyTally)
                      /\ \A k \in ChainContract :
                           snap[r].erc20[k] # None /\ snap[r].erc20[k] < MaxU256
                             => RunSpend(r, k) <= snap[r].erc20[k]
    BY DEF ChainWithinSnapshot
  <2>1. snap[r] # None /\ WithinUpTo(r, Len(acts[r]))
    BY DEF AllSpend, SpendInv
  <2>2. \A j \in Executable(r) : j <= Len(acts[r])
    <3>1. acts[r] \in ActionList
      BY DEF AllSpend, IInv, TypeInv, TypeOK, LocalsOK
    <3>2. QED
      BY <3>1, ListLength DEF Executable
  <2>3. QED
    BY <2>1, <2>2 DEF WithinUpTo, RunSpend
<1>2. QED
  BY <1>1, InitSpend, StepSpend, PTL DEF Spec
=============================================================================
