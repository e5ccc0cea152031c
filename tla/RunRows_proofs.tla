---------------------------- MODULE RunRows_proofs ----------------------------
(***************************************************************************)
(* Proofs about the execution rows of a run, on top of the invariant of    *)
(* RunPipeline_proofs: what a row claims is what the chain shows, the rows *)
(* of a batch agree, and the memoised answer about the delegate is sound.  *)
(* At the end, that the triage of a settled run tells what its rows tell.  *)
(***************************************************************************)
EXTENDS RunPipeline_proofs, Triage

(* The states of one execution row.                                        *)
Blank(r, j) == exec[r][j] = None

Fresh(r, j) ==
  /\ exec[r][j] # None
  /\ exec[r][j].status = "broadcasted" /\ exec[r][j].receipt = None
  /\ exec[r][j].tx = Carrier(r, j)

Mined(r, j) ==
  /\ exec[r][j] # None
  /\ exec[r][j].receipt \in {"success", "reverted"}
  /\ exec[r][j].receipt = tx[r][Carrier(r, j)]
  /\ exec[r][j].status = RowStatus(exec[r][j].receipt)
  /\ exec[r][j].tx = Carrier(r, j)

Good(r, j) == Mined(r, j) /\ exec[r][j].receipt = "success"

(* What any row may claim.                                                 *)
RowOK(r, j) == exec[r][j] # None =>
  /\ exec[r][j].status = "confirmed" <=> exec[r][j].receipt = "success"
  /\ exec[r][j].tx # None => exec[r][j].tx = Carrier(r, j) /\ Sent(r, Carrier(r, j))
  /\ exec[r][j].receipt # None =>
       exec[r][j].tx # None /\ tx[r][Carrier(r, j)] = exec[r][j].receipt

(* Which rows there are, by phase.                                         *)
SendRows(r) ==
  \A j \in Executable(r) : IF j <= cur[r] THEN Good(r, j) ELSE Blank(r, j)

RecordRows(r) ==
  \A j \in Executable(r) :
    IF Batching(r) THEN IF j <= cur[r] THEN Fresh(r, j) ELSE Blank(r, j)
    ELSE IF j < cur[r] THEN Good(r, j) ELSE Blank(r, j)

WaitRows(r) ==
  /\ Batching(r) => cur[r] = 0
  /\ \A j \in Executable(r) :
       IF Batching(r) \/ j = cur[r] THEN Fresh(r, j)
       ELSE IF j < cur[r] THEN Good(r, j) ELSE Blank(r, j)

ReceiptRows(r) ==
  \A j \in Executable(r) :
    IF Batching(r) THEN IF j <= cur[r] THEN Mined(r, j) ELSE Fresh(r, j)
    ELSE IF j = cur[r] THEN Fresh(r, j)
    ELSE IF j < cur[r] THEN Good(r, j) ELSE Blank(r, j)

Unconfirmed(r, j) == exec[r][j] # None => exec[r][j].status # "confirmed"

FailRows(r) ==
  /\ fail[r].idx \in Executable(r)
  /\ Unconfirmed(r, fail[r].idx)
  /\ Batching(r) =>
       \/ \A j \in Executable(r) : Blank(r, j)
       \/ \A j \in Executable(r) :
            exec[r][j] # None /\ exec[r][j].tx = First(r) /\ Unconfirmed(r, j)

AllGood(r) == \A j \in Executable(r) : Good(r, j)

PhaseRows(r) ==
  /\ pc[r] = "send" => SendRows(r)
  /\ pc[r] = "record" => RecordRows(r)
  /\ pc[r] = "wait" => WaitRows(r)
  /\ pc[r] = "receipt" => ReceiptRows(r)
  /\ pc[r] = "fail_exec" => FailRows(r)
  /\ pc[r] \in Closing => AllGood(r)
  /\ captured[r] \/ status[r] = "succeeded" => AllGood(r)

(* Why a transaction may be without its row.                               *)
Explained(r, i) ==
  \/ exec[r][i] # None /\ exec[r][i].tx = i
  \/ /\ pc[r] \in {"fail_journal", "fail_status", "done"}
     /\ exec[r][i] # None /\ exec[r][i].error = "broadcast_failed"
  \/ pc[r] = "record"
  \/ /\ pc[r] = "fail_exec" /\ fail[r].idx = i
     /\ fail[r].error = "broadcast_failed"
  \/ exit[r] \in {"storage", "crash"}

Agree(r) == Batching(r) =>
  \A i, j \in Executable(r) : exec[r][i] # None /\ exec[r][j] # None
    => /\ exec[r][i].tx = exec[r][j].tx
       /\ exec[r][i].status = "confirmed" => exec[r][j].status # "failed"

RowsInv(r) ==
  /\ \A j \in Index : RowOK(r, j)
  /\ \A i \in Index : Sent(r, i) => Explained(r, i)
  /\ Agree(r)
  /\ PhaseRows(r)

AllRows == IInv /\ \A r \in Runs : RowsInv(r)

-----------------------------------------------------------------------------
(* A run that has not touched chain and rows.                              *)
LEMMA UntouchedRows ==
  ASSUME TypeOK', NEW r \in Runs, Untouched(r)', ~captured'[r],
         status'[r] # "succeeded", pc'[r] \notin {"record", "wait", "receipt"},
         pc'[r] \in Closing => Executable(r)' = {},
         pc'[r] = "fail_exec" => fail'[r].idx \in Executable(r)',
         pc'[r] = "send" => cur'[r] = 0,
         Executable(r)' \subseteq Index
  PROVE  RowsInv(r)'
<1>1. \A i \in Index : Blank(r, i)' /\ ~Sent(r, i)'
  BY DEF Untouched, Blank
<1>2. \A j \in Index : RowOK(r, j)'
  BY <1>1 DEF RowOK, Blank
<1>3. Agree(r)'
  BY <1>1 DEF Agree, Blank
<1>4. \A j \in Executable(r)' : j \in Nat /\ ~(j <= 0) /\ j \in Index
  BY RunPipelineAssumption DEF Index
<1>5. pc'[r] = "send" => SendRows(r)'
  BY <1>1, <1>4 DEF SendRows
<1>6. pc'[r] = "fail_exec" => FailRows(r)'
  BY <1>1, <1>4 DEF FailRows, Unconfirmed, Blank
<1>7. pc'[r] \in Closing => AllGood(r)'
  BY DEF AllGood
<1>8. QED
  BY <1>1, <1>2, <1>3, <1>5, <1>6, <1>7 DEF RowsInv, PhaseRows

(* What depends on list, rows and transactions only.                       *)
LEMMA RowsKept ==
  ASSUME NEW r, acts'[r] = acts[r], exec'[r] = exec[r], tx'[r] = tx[r]
  PROVE  /\ Executable(r)' = Executable(r) /\ First(r)' = First(r)
         /\ Batching(r)' = Batching(r)
         /\ \A j : /\ Carrier(r, j)' = Carrier(r, j)
                   /\ Blank(r, j)' <=> Blank(r, j)
                   /\ Fresh(r, j)' <=> Fresh(r, j)
                   /\ Mined(r, j)' <=> Mined(r, j)
                   /\ Good(r, j)' <=> Good(r, j)
                   /\ RowOK(r, j)' <=> RowOK(r, j)
                   /\ Sent(r, j)' <=> Sent(r, j)
                   /\ Unconfirmed(r, j)' <=> Unconfirmed(r, j)
         /\ Agree(r)' <=> Agree(r)
         /\ AllGood(r)' <=> AllGood(r)
<1>1. /\ Executable(r)' = Executable(r) /\ First(r)' = First(r)
      /\ Batching(r)' = Batching(r)
  BY ListKept
<1>2. \A j : Carrier(r, j)' = Carrier(r, j)
  BY <1>1 DEF Carrier
<1>3. \A j : /\ Blank(r, j)' <=> Blank(r, j)
             /\ Fresh(r, j)' <=> Fresh(r, j)
             /\ Mined(r, j)' <=> Mined(r, j)
             /\ Good(r, j)' <=> Good(r, j)
             /\ RowOK(r, j)' <=> RowOK(r, j)
             /\ Sent(r, j)' <=> Sent(r, j)
             /\ Unconfirmed(r, j)' <=> Unconfirmed(r, j)
  BY <1>2 DEF Blank, Fresh, Mined, Good, RowOK, Sent, Unconfirmed
<1>4. Agree(r)' <=> Agree(r)
  BY <1>1 DEF Agree
<1>5. AllGood(r)' <=> AllGood(r)
  BY <1>1, <1>3 DEF AllGood
<1>6. QED
  BY <1>1, <1>2, <1>3, <1>4, <1>5

(* A step of the failure or success tail, or one that abandons the run.    *)
LEMMA TailRows ==
  ASSUME NEW r \in Runs, RowsInv(r),
         acts'[r] = acts[r], exec'[r] = exec[r], tx'[r] = tx[r],
         pc[r] # "record" \/ exit'[r] \in {"storage", "crash"},
         pc[r] # "fail_exec" \/ exit'[r] \in {"storage", "crash"},
         exit'[r] = exit[r] \/ exit[r] \notin {"storage", "crash"}
           \/ exit'[r] \in {"storage", "crash"},
         pc'[r] \in {"fail_journal", "fail_status", "done"} \cup Closing,
         pc'[r] \in Closing => pc[r] \in Closing,
         captured'[r] => captured[r] \/ pc[r] \in Closing,
         status'[r] = "succeeded" => status[r] = "succeeded" \/ pc[r] \in Closing
  PROVE  RowsInv(r)'
<1>1. \A j \in Index : RowOK(r, j)'
  BY RowsKept DEF RowsInv
<1>2. \A i \in Index : Sent(r, i)' => Explained(r, i)'
  BY RowsKept DEF RowsInv, Explained, Closing
<1>3. Agree(r)'
  BY RowsKept DEF RowsInv
<1>4. PhaseRows(r)'
  BY RowsKept DEF RowsInv, PhaseRows, Closing
<1>5. QED
  BY <1>1, <1>2, <1>3, <1>4 DEF RowsInv

(* A run before its first transaction.                                     *)
LEMMA EarlyRows ==
  ASSUME TypeInv, NEW r \in Runs, RunInv(r), TypeOK',
         pc[r] \in Early \cup Gating \cup Approved,
         exec'[r] = exec[r], tx'[r] = tx[r], captured'[r] = captured[r],
         status'[r] = status[r] \/ status'[r] \in {"queued", "running"},
         pc'[r] \notin {"record", "wait", "receipt"},
         pc'[r] \in Closing => Executable(r)' = {},
         pc'[r] = "fail_exec" => fail'[r].idx \in Executable(r)',
         pc'[r] = "send" => cur'[r] = cur[r] /\ pc[r] \in Approved,
         Executable(r)' \subseteq Index
  PROVE  RowsInv(r)'
<1>1. Untouched(r) /\ ~captured[r]
  BY DEF RunInv, InertInv, Early, Gating, Approved
<1>2. Untouched(r)' /\ ~captured'[r]
  BY <1>1 DEF Untouched, Sent
<1>3. status[r] # "succeeded"
  BY NullAssumption DEF RunInv, PhaseInv, Early, Gating, Approved, Status, Terminal
<1>4. status'[r] # "succeeded"
  BY <1>3
<1>5. pc'[r] = "send" => cur'[r] = 0
  BY DEF RunInv, GateInv
<1>6. QED
  BY <1>2, <1>4, <1>5, UntouchedRows

LEMMA EarlyKept ==
  ASSUME TypeInv, NEW r \in Runs, acts'[r] = acts[r]
  PROVE  /\ Executable(r)' = Executable(r)
         /\ Executable(r)' \subseteq Index
BY ListKept, ExecutableType DEF TypeInv

(* A run that is being executed has captured nothing and not succeeded.    *)
LEMMA NotYet ==
  ASSUME NEW r \in Runs, RunInv(r), pc[r] \in Sending \cup {"fail_exec"}
  PROVE  ~captured[r] /\ status[r] # "succeeded"
BY DEF RunInv, InertInv, PhaseInv, Sending, Terminal

(* Rows carry list indices and never None where there is a value.          *)
LEMMA RowType ==
  ASSUME TypeOK, NEW r \in Runs, NEW j \in Index, exec[r][j] # None
  PROVE  exec[r][j] \in ExecRow
BY DEF TypeOK, TablesOK

LEMMA CarrierIndex ==
  ASSUME TypeOK, NEW r \in Runs, NEW j \in Index
  PROVE  Carrier(r, j) \in Index
BY ExecutableType, FirstType DEF Carrier, Batching

(* The transaction that leaves had not left before.                        *)
LEMMA Leaves ==
  ASSUME TypeInv, NEW r \in Runs, RunInv(r), RowsInv(r), NEW i \in Index,
         pc[r] = "send", SendsFor(r, i)
  PROVE  /\ i \in Executable(r) /\ ~Sent(r, i) /\ Blank(r, i)
         /\ Batching(r) => \A j \in Executable(r) : Blank(r, j)
         /\ \A k \in Index : Sent(r, k) =>
              exec[r][k] # None /\ exec[r][k].tx = k
<1> USE DEF TypeInv
<1>1. /\ cur[r] \in Nat
      /\ \A j \in Executable(r) : j \in Nat /\ j \in Index
  BY Positions, ExecutableType
<1>2. SendRows(r)
  BY DEF RowsInv, PhaseRows
<1>3. exit[r] = None
  BY DEF RunInv, PhaseInv
<1>4. CASE Batching(r)
  <2>1. i = First(r) /\ i \in Executable(r) /\ ~Sent(r, i)
    BY <1>4, FirstType DEF SendsFor, RunInv, ChainInv, BatchInv, Batching
  <2>2. \A j \in Executable(r) : ~Good(r, j)
    BY <1>4, <2>1 DEF Good, Mined, Carrier, Sent
  <2>3. \A j \in Executable(r) : Blank(r, j)
    BY <1>2, <2>2 DEF SendRows
  <2>4. \A k \in Index : ~Sent(r, k)
    BY <1>4, <2>1 DEF RunInv, ChainInv, BatchInv
  <2>5. QED
    BY <2>1, <2>3, <2>4
<1>5. CASE ~Batching(r)
  <2>1. i \in Executable(r) /\ i > cur[r]
    BY <1>5 DEF SendsFor, IsNext
  <2>2. SequenceInv(r)
    BY <1>5 DEF RunInv, ChainInv
  <2>3. ~(i <= cur[r])
    BY <1>1, <2>1
  <2>4. ~Sent(r, i) /\ Blank(r, i)
    BY <1>2, <2>1, <2>2, <2>3 DEF SequenceInv, SendRows
  <2>5. ASSUME NEW k \in Index, Sent(r, k)
        PROVE  exec[r][k] # None /\ exec[r][k].tx = k
    <3>1. k \in Executable(r) /\ k <= cur[r]
      BY <1>1, <2>2, <2>5 DEF SequenceInv
    <3>2. QED
      BY <1>2, <1>5, <3>1 DEF SendRows, Good, Mined, Carrier
  <2>6. QED
    BY <1>5, <2>1, <2>4, <2>5
<1>6. QED
  BY <1>4, <1>5

(* Sending leaves what the rows say as true as it was.                     *)
LEMMA LeavesRows ==
  ASSUME TypeInv, NEW r \in Runs, RowsInv(r), NEW i \in Index, ~Sent(r, i),
         tx'[r] \in {tx[r], [tx[r] EXCEPT ![i] = "pending"]},
         acts'[r] = acts[r], exec'[r] = exec[r]
  PROVE  /\ \A j \in Index : RowOK(r, j)'
         /\ \A j : Good(r, j) /\ Carrier(r, j) \in Index => Good(r, j)'
         /\ \A j : Blank(r, j) => Blank(r, j)'
         /\ Agree(r)'
         /\ \A k \in Index : Sent(r, k)' => Sent(r, k) \/ k = i
<1>1. /\ Executable(r)' = Executable(r) /\ First(r)' = First(r)
      /\ Batching(r)' = Batching(r)
  BY ListKept
<1>2. \A j : Carrier(r, j)' = Carrier(r, j)
  BY <1>1 DEF Carrier
<1>3. tx[r] \in [Index -> TxState] /\ tx[r][i] = "unsent"
  BY DEF TypeInv, TypeOK, WorldOK, Sent
<1>4. \A k \in Index : k # i => tx'[r][k] = tx[r][k]
  BY <1>3
<1>5. \A k \in Index : (Sent(r, k)' => Sent(r, k) \/ k = i) /\ (Sent(r, k) => Sent(r, k)')
  BY <1>3, <1>4 DEF Sent
<1>6. ASSUME NEW j \in Index
      PROVE  RowOK(r, j)'
  <2>1. CASE exec[r][j] = None
    BY <2>1 DEF RowOK
  <2>2. CASE exec[r][j] # None
    <3>1. RowOK(r, j)
      BY DEF RowsInv
    <3>2. exec[r][j].tx # None => Carrier(r, j) # i /\ Sent(r, Carrier(r, j))
      BY <2>2, <3>1 DEF RowOK
    <3>3. exec[r][j].tx # None =>
            /\ tx'[r][Carrier(r, j)] = tx[r][Carrier(r, j)]
            /\ Sent(r, Carrier(r, j))'
      BY <1>2, <1>4, <3>2, CarrierIndex DEF Sent, TypeInv
    <3>4. QED
      BY <1>2, <2>2, <3>1, <3>3 DEF RowOK
  <2>3. QED
    BY <2>1, <2>2
<1>7. ASSUME NEW j, Good(r, j), Carrier(r, j) \in Index
      PROVE  Good(r, j)'
  <2>1. Carrier(r, j) # i
    BY <1>3, <1>7 DEF Good, Mined
  <2>2. QED
    BY <1>2, <1>4, <1>7, <2>1 DEF Good, Mined
<1>8. QED
  BY <1>1, <1>5, <1>6, <1>7 DEF Agree, Blank, RowsInv

-----------------------------------------------------------------------------
(* Every step of a run keeps its rows truthful.                            *)
LEMMA RunStepRows ==
  ASSUME TypeInv, NEW r \in Runs, RunInv(r), RowsInv(r), Step(r) \/ Fault(r)
  PROVE  RowsInv(r)'
<1>0. TypeOK'
  BY RunStepType
<1>1. CASE Start(r)
  BY <1>0, <1>1, EarlyRows, EarlyKept
     DEF Start, Goto, TypeInv, TypeOK, TablesOK, LocalsOK, WorldOK, tables, world, At, Early, Gating, Approved, Closing
<1>2. CASE Reject(r)
  BY <1>0, <1>2, EarlyRows, EarlyKept
     DEF Reject, Abandon, Return, TypeInv, TypeOK, TablesOK, LocalsOK, WorldOK, tables, world, At, Early, Gating, Approved, Closing
<1>3. CASE InsertRun(r)
  BY <1>0, <1>3, EarlyRows, EarlyKept
     DEF InsertRun, Goto, TypeInv, TypeOK, TablesOK, LocalsOK, WorldOK, tables, world, At, Early, Gating, Approved, Closing
<1>4. CASE Begin(r)
  BY <1>0, <1>4, EarlyRows, EarlyKept
     DEF Begin, Goto, TypeInv, TypeOK, TablesOK, LocalsOK, WorldOK, tables, world, At, Early, Gating, Approved, Closing
<1>5. CASE ExecuteNoop(r)
  <2>1. acts'[r] = <<>>
    BY <1>5 DEF ExecuteNoop, RunInv, GateInv, Early, At
  <2>2. Executable(r)' = {}
    BY <2>1 DEF Executable
  <2>3. QED
    BY <1>0, <1>5, <2>2, EarlyRows
       DEF ExecuteNoop, Goto, TypeInv, TypeOK, TablesOK, LocalsOK, WorldOK, tables, world, At, Early, Gating, Approved, Closing
<1>6. CASE ExecuteBadly(r)
  BY <1>0, <1>6, EarlyRows, EarlyKept
     DEF ExecuteBadly, FailWith, Goto, TypeInv, TypeOK, TablesOK, LocalsOK, WorldOK, tables, world, At, Early, Gating, Approved, Closing
<1>7. ASSUME NEW list \in Outputs, ExecuteActions(r, list)
      PROVE  RowsInv(r)'
  <2>1. acts'[r] = list /\ list \in ActionList
    BY <1>7, RunPipelineAssumption DEF ExecuteActions, TypeInv, TypeOK, LocalsOK
  <2>2. Executable(r)' \subseteq Index
    BY <2>1, ListType DEF Executable
  <2>3. /\ pc'[r] \in {"chain_id", "journal", "fail_journal"}
        /\ pc'[r] = "journal" => Executable(r)' = {}
    BY <1>7, <2>1 DEF ExecuteActions, Goto, FailWith, Executable, TypeInv, TypeOK,
                      LocalsOK
  <2>4. QED
    BY <1>0, <1>7, <2>2, <2>3, EarlyRows
       DEF ExecuteActions, At, tables, world, Early, Closing
<1>8. CASE ResolveChainId(r)
  BY <1>0, <1>8, EarlyRows, EarlyKept
     DEF ResolveChainId, Goto, TypeInv, TypeOK, TablesOK, LocalsOK, WorldOK, tables, world, At, Early, Gating, Approved, Closing
<1>9. ASSUME NEW i \in Index, PolicyPass(r, i)
      PROVE  RowsInv(r)'
  <2>1. pc'[r] \in {"policy", "simulate"}
    BY <1>9 DEF PolicyPass, Goto, TypeInv, TypeOK, LocalsOK
  <2>2. QED
    BY <1>0, <1>9, <2>1, EarlyRows, EarlyKept
       DEF PolicyPass, At, tables, world, Gating, Closing
<1>10. ASSUME NEW i \in Index, PolicyDeny(r, i)
      PROVE  RowsInv(r)'
  BY <1>0, <1>10, EarlyRows, EarlyKept
     DEF PolicyDeny, Goto, TypeInv, TypeOK, TablesOK, LocalsOK, WorldOK, tables, world, At, Early, Gating, Approved, Closing
<1>11. CASE SkipSim(r)
  BY <1>0, <1>11, EarlyRows, EarlyKept
     DEF SkipSim, FailWith, Goto, TypeInv, TypeOK, TablesOK, LocalsOK, WorldOK, tables, world, At, Early, Gating, Approved, Closing
<1>12. ASSUME NEW i \in Index, SimPass(r, i)
      PROVE  RowsInv(r)'
  <2>1. pc'[r] \in {"simulate", "signer"}
    BY <1>12 DEF SimPass, Goto, TypeInv, TypeOK, LocalsOK
  <2>2. QED
    BY <1>0, <1>12, <2>1, EarlyRows, EarlyKept
       DEF SimPass, At, tables, world, Gating, Closing
<1>13. ASSUME NEW i \in Index, SimFail(r, i)
      PROVE  RowsInv(r)'
  BY <1>0, <1>13, EarlyRows, EarlyKept
     DEF SimFail, FailWith, Goto, TypeInv, TypeOK, TablesOK, LocalsOK, WorldOK, tables, world, At, Early, Gating, Approved, Closing
<1>14. CASE SignerFails(r)
  <2>1. pc[r] \in Approved
    BY <1>14 DEF SignerFails, At, Approved
  <2>2. First(r) \in Executable(r) /\ First(r) # 0
    BY <2>1, FirstType, Positions DEF TypeInv, Shape
  <2>3. pc'[r] = "fail_exec" => fail'[r].idx \in Executable(r)
    BY <1>14, <2>2 DEF SignerFails, FailExecution, FailWith, Goto, TypeInv, TypeOK, TablesOK, LocalsOK, WorldOK, tables, world, At, Early, Gating, Approved, Closing
  <2>4. pc'[r] \in {"send", "fail_exec"}
    BY <1>14, <2>2 DEF SignerFails, FailExecution, FailWith, Goto, TypeInv, TypeOK, TablesOK, LocalsOK, WorldOK, tables, world, At, Early, Gating, Approved, Closing
  <2>5. QED
    BY <1>0, <1>14, <2>1, <2>3, <2>4, EarlyRows, EarlyKept DEF SignerFails, tables, world, Closing
<1>15. CASE SignerReady(r)
  BY <1>0, <1>15, EarlyRows, EarlyKept
     DEF SignerReady, Goto, TypeInv, TypeOK, TablesOK, LocalsOK, WorldOK, tables, world, At, Early, Gating, Approved, Closing
<1>16. CASE Preflight(r)
  <2>1. pc[r] \in Approved
    BY <1>16 DEF Preflight, At, Approved
  <2>2. First(r) \in Executable(r) /\ First(r) # 0
    BY <2>1, FirstType, Positions DEF TypeInv, Shape
  <2>3. pc'[r] = "fail_exec" => fail'[r].idx \in Executable(r)
    BY <1>16, <2>2 DEF Preflight, FailExecution, FailWith, Goto, TypeInv, TypeOK, TablesOK, LocalsOK, WorldOK, tables, world, At, Early, Gating, Approved, Closing
  <2>4. pc'[r] \in {"send", "fail_exec"}
    BY <1>16, <2>2 DEF Preflight, FailExecution, FailWith, Goto, TypeInv, TypeOK, TablesOK, LocalsOK, WorldOK, tables, world, At, Early, Gating, Approved, Closing
  <2>5. QED
    BY <1>0, <1>16, <2>1, <2>3, <2>4, EarlyRows, EarlyKept DEF Preflight, tables, world, Closing
<1>17. CASE PreflightUnreachable(r)
  BY <1>0, <1>17, EarlyRows, EarlyKept
     DEF PreflightUnreachable, Goto, TypeInv, TypeOK, TablesOK, LocalsOK, WorldOK, tables, world, At, Early, Gating, Approved, Closing
<1>18. ASSUME NEW i \in Index, Send(r, i)
      PROVE  RowsInv(r)'
  <2>1. /\ pc[r] = "send" /\ SendsFor(r, i) /\ pc'[r] = "record"
        /\ tx'[r] = [tx[r] EXCEPT ![i] = "pending"]
        /\ cur'[r] = (IF Batching(r) THEN 0 ELSE i)
        /\ acts'[r] = acts[r] /\ exec'[r] = exec[r]
        /\ captured'[r] = captured[r] /\ status'[r] = status[r]
    BY <1>18 DEF Send, Goto, At, tables, TypeInv, TypeOK, LocalsOK, WorldOK
  <2>2. /\ i \in Executable(r) /\ ~Sent(r, i) /\ Blank(r, i)
        /\ Batching(r) => \A j \in Executable(r) : Blank(r, j)
    BY <2>1, Leaves
  <2>3. /\ \A j \in Index : RowOK(r, j)'
        /\ \A j : Good(r, j) /\ Carrier(r, j) \in Index => Good(r, j)'
        /\ \A j : Blank(r, j) => Blank(r, j)'
        /\ Agree(r)'
    BY <2>1, <2>2, LeavesRows
  <2>4. Executable(r)' = Executable(r) /\ Batching(r)' = Batching(r)
    BY <2>1, ListKept
  <2>5. SendRows(r) /\ cur[r] \in Nat /\ \A j \in Executable(r) : j \in Nat
    BY <2>1, Positions DEF RowsInv, PhaseRows, TypeInv
  <2>6. RecordRows(r)'
    <3>1. ASSUME NEW j \in Executable(r), ~Batching(r)
          PROVE  IF j < i THEN Good(r, j)' ELSE Blank(r, j)'
      <4>1. i > cur[r] /\ (j > cur[r] => i <= j)
        BY <2>1, <3>1 DEF SendsFor, IsNext
      <4>2. Carrier(r, j) \in Index
        BY CarrierIndex, ExecutableType DEF TypeInv
      <4>3. j < i <=> j <= cur[r]
        BY <2>2, <2>5, <4>1
      <4>4. QED
        BY <2>3, <2>5, <4>2, <4>3 DEF SendRows
    <3>2. ASSUME NEW j \in Executable(r), Batching(r)
          PROVE  Blank(r, j)' /\ ~(j <= 0)
      BY <2>2, <2>3, <3>2, Positions DEF TypeInv
    <3>3. QED
      BY <2>1, <2>4, <3>1, <3>2 DEF RecordRows
  <2>7. PhaseRows(r)'
    BY <2>1, <2>6, NotYet DEF PhaseRows, Closing, Sending
  <2>8. QED
    BY <2>1, <2>3, <2>7 DEF RowsInv, Explained
<1>19. ASSUME NEW i \in Index, SendFails(r, i)
      PROVE  RowsInv(r)'
  <2>1. /\ pc[r] = "send" /\ SendsFor(r, i)
        /\ tx'[r] \in {tx[r], [tx[r] EXCEPT ![i] = "pending"]}
        /\ acts'[r] = acts[r] /\ exec'[r] = exec[r]
        /\ captured'[r] = captured[r] /\ status'[r] = status[r]
    BY <1>19 DEF SendFails, Goto, At, tables, TypeInv, TypeOK, LocalsOK, WorldOK
  <2>2. /\ i \in Executable(r) /\ ~Sent(r, i) /\ Blank(r, i)
        /\ Batching(r) => \A j \in Executable(r) : Blank(r, j)
        /\ \A k \in Index : Sent(r, k) =>
             exec[r][k] # None /\ exec[r][k].tx = k
    BY <2>1, Leaves
  <2>3. /\ \A j \in Index : RowOK(r, j)'
        /\ \A j : Blank(r, j) => Blank(r, j)'
        /\ Agree(r)'
        /\ \A k \in Index : Sent(r, k)' => Sent(r, k) \/ k = i
    BY <2>1, <2>2, LeavesRows
  <2>4. Executable(r)' = Executable(r) /\ Batching(r)' = Batching(r)
    BY <2>1, ListKept
  <2>5. i # 0
    BY <2>2, Positions DEF TypeInv
  <2>6. pc'[r] = "fail_exec" /\ fail'[r].idx = i /\ fail'[r].error = "broadcast_failed"
    BY <1>19, <2>5
       DEF SendFails, FailExecution, FailWith, Goto, TypeInv, TypeOK, LocalsOK
  <2>7. FailRows(r)'
    BY <2>2, <2>3, <2>4, <2>6 DEF FailRows, Unconfirmed, Blank
  <2>8. PhaseRows(r)'
    BY <2>1, <2>6, <2>7, NotYet DEF PhaseRows, Closing, Sending
  <2>9. \A k \in Index : Sent(r, k)' => Explained(r, k)'
    BY <2>1, <2>2, <2>3, <2>6 DEF Explained
  <2>10. QED
    BY <2>3, <2>8, <2>9 DEF RowsInv
<1>20. ASSUME NEW i \in Index, RecordBroadcast(r, i)
      PROVE  RowsInv(r)'
  <2> DEFINE new == [status |-> "broadcasted", tx |-> Carrier(r, i),
                     receipt |-> None, error |-> None]
  <2> HIDE DEF new
  <2>1. /\ pc[r] = "record" /\ RecordsNext(r, i)
        /\ exec'[r] = [exec[r] EXCEPT ![i] = new]
        /\ exec[r] \in [Index -> ExecRow \cup {None}]
        /\ acts'[r] = acts[r] /\ tx'[r] = tx[r] /\ exit'[r] = exit[r]
        /\ captured'[r] = captured[r] /\ status'[r] = status[r]
    BY <1>20 DEF RecordBroadcast, new, Goto, At, world, TypeInv, TypeOK, TablesOK, LocalsOK, WorldOK
  <2>2. /\ cur[r] \in Nat /\ Executable(r) \subseteq Index
        /\ \A j \in Executable(r) : j \in Nat
    BY Positions, ExecutableType DEF TypeInv
  <2>3. i \in Executable(r) /\ Sent(r, Carrier(r, i))
    BY <2>1 DEF RecordsNext, IsNext, RunInv, ChainInv, SequenceInv, BatchInv, Carrier
  <2>4. /\ Executable(r)' = Executable(r) /\ Batching(r)' = Batching(r)
        /\ First(r)' = First(r) /\ \A j : Carrier(r, j)' = Carrier(r, j)
    BY <2>1, ListKept DEF Carrier
  <2>5. exec'[r][i] = new /\ \A j : j # i => exec'[r][j] = exec[r][j]
    BY <2>1
  <2>6. new # None
    <3>1. Carrier(r, i) \in Index
      BY CarrierIndex DEF TypeInv
    <3>2. new \in ExecRow
      BY <3>1 DEF new, ExecRow
    <3>3. QED
      BY <3>2, NullAssumption
  <2>7. Fresh(r, i)'
    BY <2>4, <2>5, <2>6 DEF Fresh, new
  <2>8. \A j : j # i => /\ Fresh(r, j) => Fresh(r, j)'
                        /\ Good(r, j) => Good(r, j)'
                        /\ Blank(r, j) => Blank(r, j)'
    BY <2>1, <2>4, <2>5 DEF Fresh, Good, Mined, Blank
  <2>9. ASSUME NEW j \in Index
        PROVE  RowOK(r, j)'
    <3>1. CASE j = i
      BY <2>1, <2>3, <2>4, <2>5, <3>1, NullAssumption DEF RowOK, new, Sent
    <3>2. CASE j # i
      BY <2>1, <2>4, <2>5, <3>2 DEF RowOK, RowsInv, Sent
    <3>3. QED
      BY <3>1, <3>2
  <2>10. RecordRows(r)
    BY <2>1 DEF RowsInv, PhaseRows
  <2>11. Agree(r)'
    <3>1. ASSUME Batching(r), NEW j \in Executable(r)
          PROVE  Fresh(r, j)' \/ Blank(r, j)'
      BY <2>7, <2>8, <2>10, <3>1 DEF RecordRows
    <3>2. ASSUME Batching(r), NEW j \in Executable(r), exec'[r][j] # None
          PROVE  exec'[r][j].tx = First(r) /\ exec'[r][j].status = "broadcasted"
      BY <2>4, <3>1, <3>2 DEF Fresh, Blank, Carrier
    <3>3. QED
      BY <2>4, <3>2 DEF Agree
  <2>12. CASE RecordsDone(r, i)
    <3>1. pc'[r] = "wait" /\ cur'[r] = IF Batching(r) THEN 0 ELSE i
      BY <1>20, <2>12 DEF RecordBroadcast, Goto, TypeInv, TypeOK, LocalsOK
    <3>2. ASSUME NEW j \in Executable(r), Batching(r)
          PROVE  Fresh(r, j)'
      <4>1. j # i => j <= cur[r]
        BY <2>1, <2>2, <2>12, <3>2 DEF RecordsDone, RecordsNext, IsNext, IsLast
      <4>2. QED
        BY <2>7, <2>8, <2>10, <3>2, <4>1 DEF RecordRows
    <3>3. ASSUME NEW j \in Executable(r), ~Batching(r)
          PROVE  IF j = i THEN Fresh(r, j)'
                 ELSE IF j < i THEN Good(r, j)' ELSE Blank(r, j)'
      BY <2>1, <2>7, <2>8, <2>10, <3>3 DEF RecordRows, RecordsNext
    <3>4. WaitRows(r)'
      BY <2>4, <3>1, <3>2, <3>3 DEF WaitRows
    <3>5. PhaseRows(r)'
      BY <2>1, <3>1, <3>4, NotYet DEF PhaseRows, Closing, Sending
    <3>6. ASSUME NEW k \in Index, Sent(r, k)
          PROVE  exec'[r][k] # None /\ exec'[r][k].tx = k
      <4>1. CASE Batching(r)
        <5>1. k = First(r) /\ k \in Executable(r)
          BY <3>6, <4>1, FirstType DEF RunInv, ChainInv, BatchInv, Batching, TypeInv
        <5>2. QED
          BY <2>4, <3>2, <4>1, <5>1 DEF Fresh, Carrier
      <4>2. CASE ~Batching(r)
        <5>1. k \in Executable(r) /\ k <= i
          BY <2>1, <2>2, <3>6, <4>2 DEF RunInv, ChainInv, SequenceInv, RecordsNext
        <5>2. k = i \/ k < i
          BY <2>2, <2>3, <5>1
        <5>3. QED
          BY <2>4, <3>3, <4>2, <5>1, <5>2 DEF Fresh, Good, Mined, Carrier
      <4>3. QED
        BY <4>1, <4>2
    <3>7. \A k \in Index : Sent(r, k)' => Explained(r, k)'
      BY <2>1, <3>6 DEF Explained, Sent
    <3>8. QED
      BY <2>9, <2>11, <3>5, <3>7 DEF RowsInv
  <2>13. CASE ~RecordsDone(r, i)
    <3>1. Batching(r) /\ pc'[r] = "record" /\ cur'[r] = i
      BY <1>20, <2>13 DEF RecordBroadcast, RecordsDone, Goto, TypeInv, TypeOK, LocalsOK
    <3>2. \A j \in Executable(r) : j <= i /\ j # i => j <= cur[r]
      BY <2>1, <2>2, <2>3, <3>1 DEF RecordsNext, IsNext
    <3>3. \A j \in Executable(r) : ~(j <= i) => j # i /\ ~(j <= cur[r])
      BY <2>1, <2>2, <2>3, <3>1 DEF RecordsNext, IsNext
    <3>4. RecordRows(r)'
      BY <2>4, <2>7, <2>8, <2>10, <3>1, <3>2, <3>3 DEF RecordRows
    <3>5. PhaseRows(r)'
      BY <2>1, <3>1, <3>4, NotYet DEF PhaseRows, Closing, Sending
    <3>6. QED
      BY <2>9, <2>11, <3>1, <3>5 DEF RowsInv, Explained
  <2>14. QED
    BY <2>12, <2>13
<1>21. ASSUME NEW i \in Index, RecordReceipt(r, i)
      PROVE  RowsInv(r)'
  <2> DEFINE mined == MinedFor(r, i)
             new == [status |-> RowStatus(mined), tx |-> exec[r][i].tx,
                     receipt |-> mined, error |-> None]
  <2> HIDE DEF new, mined
  <2>1. /\ pc[r] = "receipt" /\ RecordsNext(r, i) /\ exec[r][i] # None
        /\ exec'[r] = [exec[r] EXCEPT ![i] = new]
        /\ exec[r] \in [Index -> ExecRow \cup {None}]
        /\ acts'[r] = acts[r] /\ tx'[r] = tx[r] /\ exit'[r] = exit[r]
        /\ captured'[r] = captured[r] /\ status'[r] = status[r]
        /\ cur'[r] = i
    BY <1>21 DEF RecordReceipt, FailExecution, FailWith, new, mined, Goto, At, world,
                 TypeInv, TypeOK, TablesOK, LocalsOK, WorldOK
  <2>2. /\ cur[r] \in Nat /\ Executable(r) \subseteq Index
        /\ \A j \in Executable(r) : j \in Nat /\ j # 0
    BY Positions, ExecutableType DEF TypeInv
  <2>3. i \in Executable(r) /\ Sent(r, Carrier(r, i))
    BY <2>1 DEF RecordsNext, IsNext, RunInv, ChainInv, SequenceInv, BatchInv, Carrier
  <2>4. /\ Executable(r)' = Executable(r) /\ Batching(r)' = Batching(r)
        /\ First(r)' = First(r) /\ \A j : Carrier(r, j)' = Carrier(r, j)
    BY <2>1, ListKept DEF Carrier
  <2>5. exec'[r][i] = new /\ \A j : j # i => exec'[r][j] = exec[r][j]
    BY <2>1
  <2>6. /\ mined = tx[r][Carrier(r, i)] /\ mined \in {"success", "reverted"}
        /\ WaitedFor(r) = Carrier(r, i) /\ WaitedFor(r) \in Executable(r)
    BY <2>1, <2>3, FirstType
       DEF mined, MinedFor, TypeInv, Shape, WaitedFor, Carrier, RecordsNext, Batching
  <2>7. ReceiptRows(r)
    BY <2>1 DEF RowsInv, PhaseRows
  <2>8. exec[r][i].tx = Carrier(r, i)
    BY <2>1, <2>2, <2>3, <2>7 DEF ReceiptRows, RecordsNext, IsNext, Fresh
  <2>9. new # None
    <3>1. Carrier(r, i) \in Index
      BY CarrierIndex DEF TypeInv
    <3>2. new \in ExecRow
      BY <2>6, <2>8, <3>1 DEF new, ExecRow, RowStatus
    <3>3. QED
      BY <3>2, NullAssumption
  <2>10. Mined(r, i)' /\ (mined = "success" => Good(r, i)')
    BY <2>1, <2>4, <2>5, <2>6, <2>8, <2>9 DEF Mined, Good, new
  <2>11. \A j : j # i => /\ Fresh(r, j) => Fresh(r, j)'
                         /\ Mined(r, j) => Mined(r, j)'
                         /\ Good(r, j) => Good(r, j)'
                         /\ Blank(r, j) => Blank(r, j)'
    BY <2>1, <2>4, <2>5 DEF Fresh, Good, Mined, Blank
  <2>12. ASSUME NEW j \in Index
         PROVE  RowOK(r, j)'
    <3>1. CASE j = i
      <4>1. exec[r][i].tx # None
        BY <2>8, CarrierIndex, NoneAssumption, RunPipelineAssumption DEF TypeInv, Index
      <4>2. QED
        BY <2>1, <2>3, <2>4, <2>5, <2>6, <2>8, <3>1, <4>1 DEF RowOK, new, Sent, RowStatus
    <3>2. CASE j # i
      BY <2>1, <2>4, <2>5, <3>2 DEF RowOK, RowsInv, Sent
    <3>3. QED
      BY <3>1, <3>2
  <2>13. ASSUME Batching(r), NEW j \in Executable(r)
         PROVE  /\ j <= i => Mined(r, j)'
                /\ ~(j <= i) => Fresh(r, j)'
    <3>1. j # i => (j <= i <=> j <= cur[r])
      BY <2>1, <2>2, <2>3, <2>13 DEF RecordsNext, IsNext
    <3>2. QED
      BY <2>2, <2>7, <2>10, <2>11, <2>13, <3>1 DEF ReceiptRows
  <2>14. ASSUME Batching(r), NEW j \in Executable(r)
         PROVE  /\ exec'[r][j] # None /\ exec'[r][j].tx = First(r)
                /\ \/ exec'[r][j].status = RowStatus(mined)
                   \/ exec'[r][j].status = "broadcasted"
    BY <2>1, <2>4, <2>6, <2>13, <2>14 DEF Mined, Fresh, Carrier
  <2>15. Agree(r)'
    BY <2>4, <2>14 DEF Agree, RowStatus
  <2>16. ASSUME ~Batching(r), NEW j \in Executable(r)
         PROVE  /\ i = cur[r]
                /\ j < i => Good(r, j)'
                /\ ~(j <= i) => Blank(r, j)'
    BY <2>1, <2>2, <2>7, <2>11, <2>16 DEF ReceiptRows, RecordsNext
  <2>17. ASSUME NEW k \in Index, Sent(r, k)
         PROVE  exec'[r][k] # None /\ exec'[r][k].tx = k
    <3>1. CASE Batching(r)
      <4>1. k = First(r) /\ k \in Executable(r)
        BY <2>17, <3>1, FirstType DEF RunInv, ChainInv, BatchInv, Batching, TypeInv
      <4>2. QED
        BY <2>14, <3>1, <4>1
    <3>2. CASE ~Batching(r)
      <4>1. k \in Executable(r) /\ k <= i
        BY <2>1, <2>2, <2>17, <3>2 DEF RunInv, ChainInv, SequenceInv, RecordsNext
      <4>2. k = i \/ k < i
        BY <2>2, <2>3, <4>1
      <4>3. QED
        BY <2>4, <2>10, <2>16, <3>2, <4>1, <4>2 DEF Good, Mined, Carrier
    <3>3. QED
      BY <3>1, <3>2
  <2>18. \A k \in Index : Sent(r, k)' => Explained(r, k)'
    BY <2>1, <2>17 DEF Explained, Sent
  <2>19. ASSUME RecordsDone(r, i), Batching(r), NEW j \in Executable(r)
         PROVE  Mined(r, j)'
    BY <2>13, <2>19 DEF RecordsDone, IsLast
  <2>20. PhaseRows(r)'
    <3>1. ~captured'[r] /\ status'[r] # "succeeded"
      BY <2>1, NotYet DEF Sending
    <3>2. CASE ~RecordsDone(r, i)
      <4>1. Batching(r) /\ pc'[r] = "receipt"
        BY <1>21, <3>2 DEF RecordReceipt, RecordsDone, Goto, TypeInv, TypeOK, LocalsOK
      <4>2. ReceiptRows(r)'
        BY <2>1, <2>4, <2>13, <4>1 DEF ReceiptRows
      <4>3. QED
        BY <3>1, <4>1, <4>2 DEF PhaseRows, Closing
    <3>3. CASE RecordsDone(r, i) /\ mined = "reverted"
      <4>1. WaitedFor(r) # 0
        BY <2>2, <2>6
      <4>2. pc'[r] = "fail_exec" /\ fail'[r].idx = WaitedFor(r)
        BY <1>21, <3>3, <4>1
           DEF RecordReceipt, EndsRun, mined, FailExecution, FailWith, Goto, TypeInv,
               TypeOK, LocalsOK
      <4>3. ~Batching(r) => WaitedFor(r) = i /\ Unconfirmed(r, i)'
        BY <2>5, <2>6, <3>3 DEF Carrier, Unconfirmed, new, RowStatus
      <4>4. Batching(r) => \A j \in Executable(r) :
              exec'[r][j] # None /\ exec'[r][j].tx = First(r) /\ Unconfirmed(r, j)'
        BY <2>14, <3>3 DEF Unconfirmed, RowStatus
      <4>5. FailRows(r)'
        BY <2>4, <2>6, <4>2, <4>3, <4>4 DEF FailRows
      <4>6. QED
        BY <3>1, <4>2, <4>5 DEF PhaseRows, Closing
    <3>4. CASE RecordsDone(r, i) /\ mined = "success"
      <4>1. pc'[r] = IF Batching(r) \/ IsLast(r, i) THEN "journal" ELSE "send"
        BY <1>21, <3>4 DEF RecordReceipt, EndsRun, mined, Goto, TypeInv, TypeOK, LocalsOK
      <4>2. CASE Batching(r)
        <5>1. \A j \in Executable(r) : Good(r, j)'
          BY <2>1, <2>4, <2>6, <2>19, <3>4, <4>2 DEF Good, Mined, Carrier
        <5>2. QED
          BY <2>4, <3>1, <4>1, <4>2, <5>1 DEF PhaseRows, AllGood
      <4>3. CASE ~Batching(r)
        <5>1. \A j \in Executable(r) : IF j <= i THEN Good(r, j)' ELSE Blank(r, j)'
          <6>1. \A j \in Executable(r) : j <= i => j = i \/ j < i
            BY <2>2, <2>3
          <6>2. QED
            BY <2>10, <2>16, <3>4, <4>3, <6>1
        <5>2. SendRows(r)' /\ (IsLast(r, i) => AllGood(r)')
          BY <2>1, <2>4, <5>1 DEF SendRows, IsLast, AllGood
        <5>3. QED
          BY <3>1, <4>1, <4>3, <5>2 DEF PhaseRows, Closing
      <4>4. QED
        BY <4>2, <4>3
    <3>5. QED
      BY <2>6, <3>2, <3>3, <3>4
  <2>21. QED
    BY <2>12, <2>15, <2>18, <2>20 DEF RowsInv
<1>22. CASE ReceiptArrives(r)
  <2>1. /\ pc[r] = "wait" /\ pc'[r] = "receipt" /\ cur'[r] = cur[r]
        /\ acts'[r] = acts[r] /\ tx'[r] = tx[r] /\ exit'[r] = exit[r]
        /\ exec'[r] = exec[r] /\ captured'[r] = captured[r] /\ status'[r] = status[r]
    BY <1>22 DEF ReceiptArrives, Goto, At, tables, world, TypeInv, TypeOK, LocalsOK
  <2>2. WaitRows(r) /\ \A j \in Executable(r) : j \in Nat /\ ~(j <= 0)
    BY <2>1, Positions DEF RowsInv, PhaseRows, TypeInv
  <2>3. ReceiptRows(r)'
    BY <2>1, <2>2, RowsKept DEF WaitRows, ReceiptRows
  <2>4. PhaseRows(r)'
    BY <2>1, <2>3, NotYet DEF PhaseRows, Closing, Sending
  <2>5. QED
    BY <2>1, <2>4, RowsKept DEF RowsInv, Explained
<1>23. CASE ReceiptFails(r)
  <2>1. /\ pc[r] = "wait"
        /\ acts'[r] = acts[r] /\ tx'[r] = tx[r] /\ exit'[r] = exit[r]
        /\ exec'[r] = exec[r] /\ captured'[r] = captured[r] /\ status'[r] = status[r]
    BY <1>23 DEF ReceiptFails, FailExecution, FailWith, Goto, At, tables, world, TypeInv,
                 TypeOK, LocalsOK
  <2>2. WaitRows(r)
    BY <2>1 DEF RowsInv, PhaseRows
  <2>3. WaitedFor(r) \in Executable(r)
    BY <2>1, FirstType DEF WaitedFor, RunInv, ChainInv, SequenceInv, Batching, TypeInv
  <2>4. WaitedFor(r) # 0
    BY <2>3, Positions DEF TypeInv
  <2>5. pc'[r] = "fail_exec" /\ fail'[r].idx = WaitedFor(r)
    BY <1>23, <2>4
       DEF ReceiptFails, FailExecution, FailWith, Goto, TypeInv, TypeOK, LocalsOK
  <2>6. Fresh(r, WaitedFor(r)) /\ (Batching(r) => \A j \in Executable(r) : Fresh(r, j))
    BY <2>2, <2>3 DEF WaitRows, WaitedFor
  <2>7. /\ Unconfirmed(r, WaitedFor(r))
        /\ Batching(r) => \A j \in Executable(r) :
             exec[r][j] # None /\ exec[r][j].tx = First(r) /\ Unconfirmed(r, j)
    BY <2>6 DEF Unconfirmed, Fresh, Carrier
  <2>8. FailRows(r)'
    BY <2>1, <2>3, <2>5, <2>7, RowsKept DEF FailRows
  <2>9. PhaseRows(r)'
    BY <2>1, <2>5, <2>8, NotYet DEF PhaseRows, Closing, Sending
  <2>10. QED
    BY <2>1, <2>9, RowsKept DEF RowsInv, Explained
<1>24. CASE FailExec(r)
  <2> DEFINE i == fail[r].idx
             new == [status |-> "failed",
                     tx |-> IF exec[r][i] = None THEN None ELSE exec[r][i].tx,
                     receipt |-> IF exec[r][i] = None THEN None ELSE exec[r][i].receipt,
                     error |-> fail[r].error]
  <2>1. /\ pc[r] = "fail_exec" /\ pc'[r] = "fail_journal"
        /\ exec'[r] = [exec[r] EXCEPT ![i] = new]
        /\ exec[r] \in [Index -> ExecRow \cup {None}]
        /\ acts'[r] = acts[r] /\ tx'[r] = tx[r] /\ exit'[r] = exit[r]
        /\ captured'[r] = captured[r] /\ status'[r] = status[r]
    BY <1>24 DEF FailExec, Goto, At, world, TypeInv, TypeOK, TablesOK, LocalsOK
  <2>2. FailRows(r) /\ i \in Executable(r) /\ i \in Index /\ Unconfirmed(r, i)
    BY <2>1, ExecutableType DEF RowsInv, PhaseRows, FailRows, TypeInv
  <2>3. new # None
    <3>1. exec[r][i] # None => exec[r][i] \in ExecRow
      BY <2>1, <2>2
    <3>2. fail[r] \in Failure
      BY DEF TypeInv, TypeOK, LocalsOK
    <3>3. new \in ExecRow
      BY <3>1, <3>2 DEF ExecRow, Failure
    <3>4. QED
      BY <3>3, NullAssumption
  <2>4. exec'[r][i] = new /\ \A j : j # i => exec'[r][j] = exec[r][j]
    BY <2>1, <2>2
  <2>5. /\ Executable(r)' = Executable(r) /\ Batching(r)' = Batching(r)
        /\ First(r)' = First(r) /\ \A j : Carrier(r, j)' = Carrier(r, j)
    BY <2>1, ListKept DEF Carrier
  <2>6. ASSUME NEW j \in Index
        PROVE  RowOK(r, j)'
    <3>1. RowOK(r, j)
      BY DEF RowsInv
    <3>2. CASE j = i
      BY <2>1, <2>2, <2>4, <2>5, <3>1, <3>2, NullAssumption DEF RowOK, Unconfirmed, Sent
    <3>3. CASE j # i
      BY <2>1, <2>4, <2>5, <3>1, <3>3 DEF RowOK, Sent
    <3>4. QED
      BY <3>2, <3>3
  <2>7. ASSUME NEW k \in Index, Sent(r, k)
        PROVE  Explained(r, k)'
    <3>1. Explained(r, k)
      BY <2>7 DEF RowsInv
    <3>2. CASE k = i
      BY <2>1, <2>3, <2>4, <3>1, <3>2 DEF Explained
    <3>3. CASE k # i
      BY <2>1, <2>4, <3>1, <3>3 DEF Explained
    <3>4. QED
      BY <3>2, <3>3
  <2>8. Agree(r)'
    <3>1. CASE Batching(r) /\ \A j \in Executable(r) : Blank(r, j)
      BY <2>4, <2>5, <3>1 DEF Agree, Blank
    <3>2. CASE \A j \in Executable(r) :
                 exec[r][j] # None /\ exec[r][j].tx = First(r) /\ Unconfirmed(r, j)
      <4>1. \A j \in Executable(r) :
              exec'[r][j].tx = First(r) /\ exec'[r][j].status # "confirmed"
        BY <2>2, <2>4, <3>2 DEF Unconfirmed
      <4>2. QED
        BY <2>5, <4>1 DEF Agree
    <3>3. CASE ~Batching(r)
      BY <2>5, <3>3 DEF Agree
    <3>4. QED
      BY <2>2, <3>1, <3>2, <3>3 DEF FailRows
  <2>9. PhaseRows(r)'
    BY <2>1, NotYet DEF PhaseRows, Closing
  <2>10. QED
    BY <2>1, <2>6, <2>7, <2>8, <2>9 DEF RowsInv, Sent
<1>25. CASE FailJournal(r)
  BY <1>25, TailRows, NullAssumption
     DEF FailJournal, Goto, RunInv, PhaseInv, At, Closing, TypeInv, TypeOK, TablesOK, LocalsOK,
         tables, world
<1>26. CASE FailStatus(r)
  <2>1. /\ pc[r] = "fail_status" /\ pc'[r] = "done" /\ status'[r] = fail[r].status
        /\ acts'[r] = acts[r] /\ tx'[r] = tx[r] /\ exec'[r] = exec[r]
        /\ captured'[r] = captured[r]
    BY <1>26 DEF FailStatus, Return, At, world, TypeInv, TypeOK, TablesOK, LocalsOK
  <2>2. exit[r] = None /\ fail[r].status # "succeeded"
    BY <2>1 DEF RunInv, PhaseInv, Failing
  <2>3. QED
    BY <2>1, <2>2, TailRows, NullAssumption DEF Closing
<1>27. CASE RecordAction(r)
  BY <1>27, TailRows, NullAssumption
     DEF RecordAction, Goto, RunInv, PhaseInv, At, Closing, TypeInv, TypeOK, TablesOK, LocalsOK,
         tables, world
<1>28. CASE Capture(r)
  BY <1>28, TailRows, NullAssumption
     DEF Capture, Goto, RunInv, PhaseInv, At, Closing, TypeInv, TypeOK, TablesOK, LocalsOK,
         tables, world
<1>29. CASE Finish(r)
  BY <1>29, TailRows, NullAssumption
     DEF Finish, Return, RunInv, PhaseInv, At, Closing, TypeInv, TypeOK, TablesOK, LocalsOK,
         tables, world
<1>30. CASE RpcFails(r)
  BY <1>0, <1>30, EarlyRows, EarlyKept
     DEF RpcFails, Abandon, Return, TypeInv, TypeOK, TablesOK, LocalsOK, WorldOK, tables, world, At, Early, Gating, Approved, Closing
<1>31. CASE StoreFails(r)
  BY <1>31, TailRows, NullAssumption
     DEF StoreFails, Abandon, Return, StorePhase, RunInv, PhaseInv, At, Closing, TypeInv, TypeOK, TablesOK, LocalsOK,
         tables, world
<1>32. QED
  BY <1>1, <1>2, <1>3, <1>4, <1>5, <1>6, <1>7, <1>8, <1>9, <1>10, <1>11, <1>12, <1>13,
     <1>14, <1>15, <1>16, <1>17, <1>18, <1>19, <1>20, <1>21, <1>22, <1>23, <1>24, <1>25,
     <1>26, <1>27, <1>28, <1>29, <1>30, <1>31
     DEF Step, Fault, Gate, Execution

-----------------------------------------------------------------------------
(* The other runs and the environment.                                     *)
LEMMA FrozenRows ==
  ASSUME NEW q \in Runs, RowsInv(q), Frozen(q)
  PROVE  RowsInv(q)'
<1>1. PhaseRows(q)'
  <2>1. PhaseRows(q)
    BY DEF RowsInv
  <2>2. acts'[q] = acts[q] /\ exec'[q] = exec[q] /\ tx'[q] = tx[q]
    BY DEF Frozen
  <2>3. /\ SendRows(q) => SendRows(q)'
        /\ RecordRows(q) => RecordRows(q)'
        /\ WaitRows(q) => WaitRows(q)'
        /\ ReceiptRows(q) => ReceiptRows(q)'
        /\ FailRows(q) => FailRows(q)'
    BY <2>2, RowsKept DEF Frozen, SendRows, RecordRows, WaitRows, ReceiptRows, FailRows
  <2>4. QED
    BY <2>1, <2>2, <2>3, RowsKept DEF Frozen, PhaseRows
<1>2. QED
  BY <1>1, RowsKept DEF Frozen, RowsInv, Explained

(* A receipt in a row was already mined: no later block changes it.        *)
LEMMA MineRows ==
  ASSUME TypeInv, NEW r \in Runs, NEW i \in Index, Mine(r, i),
         NEW q \in Runs, RowsInv(q)
  PROVE  RowsInv(q)'
<1>1. UNCHANGED tables /\ UNCHANGED locals
  BY DEF Mine
<1>2. /\ Executable(q)' = Executable(q) /\ First(q)' = First(q)
      /\ Batching(q)' = Batching(q) /\ \A j : Carrier(q, j)' = Carrier(q, j)
  BY <1>1, ListKept DEF locals, Carrier
<1>3. \A k \in Index : /\ Sent(q, k)' <=> Sent(q, k)
                       /\ tx[q][k] \in {"success", "reverted"} => tx'[q][k] = tx[q][k]
  BY DEF Mine, Sent, TypeInv, TypeOK, WorldOK
<1>4. /\ Executable(q) \subseteq Index
      /\ \A j \in Index : Carrier(q, j) \in Index
      /\ \A j \in Index : exec[q][j] # None =>
           exec[q][j].receipt \in {None, "success", "reverted"}
  BY ExecutableType, CarrierIndex, RowType DEF TypeInv, ExecRow
<1>5. \A j \in Index : RowOK(q, j)'
  BY <1>1, <1>2, <1>3, <1>4 DEF RowsInv, RowOK, tables
<1>6. \A k \in Index : Sent(q, k)' => Explained(q, k)'
  BY <1>1, <1>3 DEF RowsInv, Explained, tables, locals
<1>7. Agree(q)'
  BY <1>1, <1>2 DEF RowsInv, Agree, tables
<1>8. \A j \in Executable(q) :
        /\ Blank(q, j) => Blank(q, j)'
        /\ Fresh(q, j) => Fresh(q, j)'
        /\ Good(q, j) => Good(q, j)'
        /\ Unconfirmed(q, j) => Unconfirmed(q, j)'
  BY <1>1, <1>2, <1>3, <1>4 DEF Blank, Fresh, Good, Mined, Unconfirmed, tables
<1>9. pc[q] = "receipt" => \A j \in Executable(q) : Mined(q, j) => Mined(q, j)'
  <2> SUFFICES ASSUME pc[q] = "receipt", NEW j \in Executable(q), Mined(q, j)
               PROVE  Mined(q, j)'
    OBVIOUS
  <2>1. RowOK(q, j) /\ exec[q][j] # None
    BY <1>4 DEF RowsInv, Mined
  <2>2. exec[q][j].receipt = tx[q][Carrier(q, j)] /\ tx[q][Carrier(q, j)] \in TxState
    BY <1>4 DEF Mined, TypeInv, TypeOK, WorldOK
  <2>3. exec[q][j].receipt # None
    BY NullAssumption DEF Mined
  <2>4. QED
    BY <1>1, <1>2, <1>3, <1>4, <2>1, <2>2, <2>3 DEF Mined, tables
<1>10. PhaseRows(q)'
  <2>1. PhaseRows(q)
    BY DEF RowsInv
  <2>2. /\ SendRows(q) => SendRows(q)'
        /\ RecordRows(q) => RecordRows(q)'
        /\ WaitRows(q) => WaitRows(q)'
        /\ AllGood(q) => AllGood(q)'
    BY <1>1, <1>2, <1>8 DEF locals, SendRows, RecordRows, WaitRows, AllGood
  <2>3. pc[q] = "receipt" /\ ReceiptRows(q) => ReceiptRows(q)'
    BY <1>1, <1>2, <1>8, <1>9 DEF locals, ReceiptRows
  <2>4. FailRows(q) => FailRows(q)'
    BY <1>1, <1>2, <1>8 DEF locals, tables, FailRows
  <2>5. QED
    BY <1>1, <2>1, <2>2, <2>3, <2>4 DEF PhaseRows, tables, locals
<1>11. QED
  BY <1>5, <1>6, <1>7, <1>10 DEF RowsInv

LEMMA RestartRows ==
  ASSUME TypeInv, Restart, NEW q \in Runs, RowsInv(q)
  PROVE  RowsInv(q)'
<1>1. UNCHANGED tables /\ UNCHANGED world
      /\ UNCHANGED <<snap, acts, outcome, cur, tally, fail>>
  BY DEF Restart
<1>2. CASE ~Live(q)
  <2>1. Frozen(q)
    BY <1>1, <1>2 DEF Restart, Frozen, tables, world, TypeInv, TypeOK, LocalsOK
  <2>2. QED
    BY <2>1, FrozenRows
<1>3. CASE Live(q)
  <2>1. pc'[q] = "done" /\ exit'[q] = "crash"
    BY <1>3 DEF Restart, TypeInv, TypeOK, LocalsOK
  <2>2. QED
    BY <1>1, <2>1, TailRows DEF tables, world, Closing
<1>4. QED
  BY <1>2, <1>3

LEMMA InitRows == Init => AllRows
<1> SUFFICES ASSUME Init, NEW r \in Runs
             PROVE  RowsInv(r)
  BY InitIInv DEF AllRows
<1>1. /\ pc[r] = "idle" /\ ~captured[r] /\ status[r] = None
      /\ \A i \in Index : exec[r][i] = None /\ ~Sent(r, i)
      /\ Executable(r) = {}
  BY DEF Init, Sent, Executable
<1>2. QED
  BY <1>1, NullAssumption
     DEF RowsInv, RowOK, Agree, PhaseRows, Closing, AllGood

LEMMA StepRows == AllRows /\ [Next]_vars => AllRows'
<1> SUFFICES ASSUME AllRows, [Next]_vars, NEW q \in Runs
             PROVE  RowsInv(q)'
  BY StepIInv DEF AllRows
<1>1. TypeInv /\ TypeOK /\ RunInv(q) /\ RowsInv(q)
  BY DEF AllRows, IInv, TypeInv
<1>2. ASSUME NEW r \in Runs, Step(r) \/ Fault(r)
      PROVE  RowsInv(q)'
  <2>1. CASE q = r
    BY <1>1, <1>2, <2>1, RunStepRows
  <2>2. CASE q # r
    <3>1. Frozen(q)
      BY <1>1, <1>2, <2>2, Frame
    <3>2. QED
      BY <1>1, <3>1, FrozenRows
  <2>3. QED
    BY <2>1, <2>2
<1>3. ASSUME NEW p \in Policies, PolicySet(p)
      PROVE  RowsInv(q)'
  BY <1>1, <1>3, FrozenRows DEF PolicySet, Frozen, tables, locals, world
<1>4. ASSUME NEW r \in Runs, NEW i \in Index, Mine(r, i)
      PROVE  RowsInv(q)'
  BY <1>1, <1>4, MineRows
<1>5. CASE DeployDelegate
  BY <1>1, <1>5, FrozenRows DEF DeployDelegate, Frozen, tables, locals
<1>6. CASE Restart
  BY <1>1, <1>6, RestartRows
<1>7. CASE UNCHANGED vars
  BY <1>1, <1>7, FrozenRows DEF vars, Frozen, tables, locals, world
<1>8. QED
  BY <1>2, <1>3, <1>4, <1>5, <1>6, <1>7 DEF Next, Environment

LEMMA RowsInvariance == Spec => []AllRows
BY InitRows, StepRows, PTL DEF Spec

-----------------------------------------------------------------------------
(* The rows, the chain and the captured records of a run agree, however    *)
(* its handler was cut short.                                              *)
THEOREM RowsTellTheChain == Spec => []RowsTruthful
<1>1. AllRows => RowsMatchChain
  BY DEF AllRows, RowsInv, RowOK, RowsMatchChain
<1>2. AllRows => OrphansExplained
  BY DEF AllRows, RowsInv, Explained, OrphansExplained
<1>3. AllRows => CaptureAfterConfirm
  BY DEF AllRows, RowsInv, PhaseRows, AllGood, Good, Mined, CaptureAfterConfirm
<1>4. QED
  BY <1>1, <1>2, <1>3, RowsInvariance, PTL DEF RowsTruthful

(* A batch succeeds and fails as a whole, in its rows and in its run.      *)
THEOREM WholeBatch == Spec => []BatchIsWhole
<1>1. AllRows => SucceededIsComplete
  <2> SUFFICES ASSUME AllRows, NEW r \in Runs, status[r] = "succeeded"
               PROVE  /\ journal[r] = <<outcome[r]>>
                      /\ \A i \in Executable(r) :
                           exec[r][i] # None /\ exec[r][i].status = "confirmed"
    BY DEF SucceededIsComplete
  <2>1. journal[r] = <<outcome[r]>>
    BY DEF AllRows, IInv, RunInv, JournalInv
  <2>2. AllGood(r)
    BY DEF AllRows, RowsInv, PhaseRows
  <2>3. QED
    BY <2>1, <2>2 DEF AllGood, Good, Mined, RowStatus
<1>2. AllRows => BatchRowsAgree
  BY DEF AllRows, RowsInv, Agree, Batching, BatchRowsAgree
<1>3. QED
  BY <1>1, <1>2, RowsInvariance, PTL DEF BatchIsWhole

(* The memoised answer about the delegate is never an unfounded yes: code, *)
(* once deployed, stays.                                                   *)
THEOREM MemoSound == Spec => []DelegateMemoSound
<1>1. Init => DelegateMemoSound
  BY NullAssumption DEF Init, DelegateMemoSound
<1>2. TypeOK /\ DelegateMemoSound /\ [Next]_vars => DelegateMemoSound'
  <2> SUFFICES ASSUME TypeOK, DelegateMemoSound, [Next]_vars
               PROVE  DelegateMemoSound'
    OBVIOUS
  <2>1. ASSUME NEW r \in Runs, Preflight(r)
        PROVE  DelegateMemoSound'
    BY <2>1 DEF Preflight, DelegateVerdict, DelegateMemoSound, TypeOK, MemoryOK, WorldOK, world
  <2>2. ASSUME NEW r \in Runs, Step(r) \/ Fault(r)
        PROVE  Preflight(r) \/ (delegateOk' = delegateOk /\ deployed' = deployed)
    BY <2>2
       DEF Step, Fault, Gate, Execution, Start, Reject, InsertRun, Begin, ExecuteNoop,
           ExecuteBadly, ExecuteActions, ResolveChainId, PolicyPass, PolicyDeny, SkipSim,
           SimPass, SimFail, SignerFails, SignerReady, PreflightUnreachable, Send,
           SendFails, RecordBroadcast, RecordReceipt, ReceiptArrives, ReceiptFails,
           FailExec, FailJournal, FailStatus, RecordAction, Capture, Finish, RpcFails,
           StoreFails, Abandon, memory, world
  <2>3. ASSUME Environment
        PROVE  DelegateMemoSound'
    BY <2>3, NullAssumption
       DEF Environment, PolicySet, Mine, DeployDelegate, Restart, world, memory,
           DelegateMemoSound
  <2>4. QED
    BY <2>1, <2>2, <2>3 DEF Next, vars, memory, world, DelegateMemoSound
<1>3. QED
  BY <1>1, <1>2, Typing, PTL DEF Spec

-----------------------------------------------------------------------------
(* The story the rows of a run tell once it has settled: rows are those of *)
(* executable actions, a failed run shows a failed row or has no row, a    *)
(* gate's fail ends the run as denied, and without a batch a failed row    *)
(* says why.                                                               *)
\* Does a gate's row say fail?
GateFailed(r) == \E i \in Index : policyRow[r][i] = "fail" \/ simRow[r][i] = "fail"

\* Has a run failed whose execution error, if any, is written?
FailureShown(r) ==
  pc[r] \in {"fail_journal", "fail_status"} \/ status[r] \in Terminal \ {"succeeded"}

StoryInv(r) ==
  /\ \A i \in Index : exec[r][i] # None => i \in Executable(r)
  /\ FailureShown(r) =>
       \/ \A i \in Index : exec[r][i] = None
       \/ \E i \in Index : exec[r][i] # None /\ exec[r][i].status = "failed"
  /\ GateFailed(r) =>
       \/ pc[r] = "skip_sim"
       \/ pc[r] \in Failing /\ fail[r].status \in Denied
       \/ status[r] \in Denied
       \/ exit[r] \in {"storage", "crash"}
  /\ pc[r] = "fail_exec" => fail[r].error # None
  /\ ~Batching(r) =>
       \A i \in Index :
         exec[r][i] # None /\ exec[r][i].status = "failed" /\ exec[r][i].error = None
           => \/ pc[r] = "fail_exec" /\ fail[r].idx = i
              \/ exit[r] \in {"storage", "crash"}
  /\ status[r] = "succeeded" => outcome[r] \in {"noop", "actions"}

AllStory == AllRows /\ \A r \in Runs : StoryInv(r)

(* A run that is still at work has no failed gate, unless it is about to   *)
(* say so, and without a batch no failed row that it has not said why.     *)
LEMMA AtWork ==
  ASSUME NEW r \in Runs, RunInv(r), StoryInv(r), pc[r] # "done"
  PROVE  /\ exit[r] = None /\ exit[r] \notin {"storage", "crash"}
         /\ status[r] \notin Terminal
         /\ GateFailed(r) => pc[r] = "skip_sim" \/ (pc[r] \in Failing /\ fail[r].status \in Denied)
         /\ ~Batching(r) => \A i \in Index :
              exec[r][i] # None /\ exec[r][i].status = "failed" /\ exec[r][i].error = None
                => pc[r] = "fail_exec" /\ fail[r].idx = i
<1>1. exit[r] = None
  BY DEF RunInv, PhaseInv
<1>2. exit[r] \notin {"storage", "crash"} /\ status[r] \notin Terminal
  BY <1>1, NullAssumption DEF RunInv, PhaseInv
<1>3. status[r] \notin Denied
  BY <1>2 DEF Denied, Terminal
<1>4. QED
  BY <1>1, <1>2, <1>3 DEF StoryInv

(* While a row is written or awaited, there is an action it belongs to.   *)
LEMMA WaitedForIndex ==
  ASSUME TypeInv, NEW r \in Runs, RunInv(r), pc[r] \in {"record", "wait", "receipt"}
  PROVE  WaitedFor(r) \in Index
<1>1. Executable(r) # {} /\ Executable(r) \subseteq Index
  BY ExecutableType DEF TypeInv, Shape, Sending
<1>2. CASE Batching(r)
  BY <1>1, <1>2, FirstType DEF TypeInv, WaitedFor
<1>3. CASE ~Batching(r)
  BY <1>1, <1>3 DEF RunInv, ChainInv, SequenceInv, WaitedFor
<1>4. QED
  BY <1>2, <1>3

(* A step of a run before its first row.                                   *)
LEMMA StoryEarly ==
  ASSUME TypeInv, NEW r \in Runs, RunInv(r), StoryInv(r),
         pc[r] \in Early \cup Gating \cup Approved, exec'[r] = exec[r],
         \/ GateFailed(r)' => GateFailed(r) /\ pc[r] # "skip_sim"
         \/ pc'[r] = "skip_sim"
         \/ pc'[r] \in Failing /\ fail'[r].status \in Denied
         \/ exit'[r] \in {"storage", "crash"},
         pc'[r] = "fail_exec" => fail'[r].error # None,
         status'[r] \in {status[r], "queued", "running"}
  PROVE  StoryInv(r)'
<1>1. \A i \in Index : exec'[r][i] = None
  BY DEF RunInv, InertInv, Untouched
<1>2. pc[r] # "done" /\ pc[r] \notin Failing
  BY DEF Early, Gating, Approved, Failing
<1>3. status'[r] # "succeeded"
  BY <1>2, AtWork DEF Terminal
<1>4. GateFailed(r) => pc[r] = "skip_sim"
  BY <1>2, AtWork
<1>5. QED
  BY <1>1, <1>3, <1>4 DEF StoryInv

(* A step after it that adds no row.                                       *)
LEMMA StoryLate ==
  ASSUME TypeInv, NEW r \in Runs, RunInv(r), StoryInv(r),
         pc[r] \notin Early \cup Gating \cup Approved \cup {"done"},
         acts'[r] = acts[r], exec'[r] = exec[r],
         policyRow'[r] = policyRow[r], simRow'[r] = simRow[r],
         pc[r] \in Failing => fail'[r] = fail[r],
         pc'[r] = "fail_exec" => pc[r] # "fail_exec" /\ fail'[r].error # None,
         pc[r] = "fail_exec" => exit'[r] \in {"storage", "crash"},
         pc'[r] \in {"fail_journal", "fail_status"} => pc[r] \in {"fail_journal", "fail_status"},
         pc[r] \in Failing => \/ pc'[r] \in Failing
                              \/ status'[r] = fail[r].status
                              \/ exit'[r] \in {"storage", "crash"},
         \/ status'[r] = status[r]
         \/ status'[r] = "succeeded" /\ pc[r] \in Closing /\ outcome'[r] = outcome[r]
         \/ status'[r] = fail[r].status /\ pc[r] = "fail_status"
  PROVE  StoryInv(r)'
<1>1. Executable(r)' = Executable(r) /\ Batching(r)' = Batching(r)
  BY ListKept
<1>2. /\ status[r] \notin Terminal
      /\ GateFailed(r) => pc[r] \in Failing /\ fail[r].status \in Denied
      /\ ~Batching(r) => \A i \in Index :
           exec[r][i] # None /\ exec[r][i].status = "failed" /\ exec[r][i].error = None
             => pc[r] = "fail_exec" /\ fail[r].idx = i
  BY AtWork DEF Gating
<1>3. GateFailed(r)' <=> GateFailed(r)
  BY DEF GateFailed
<1>4. FailureShown(r)' => FailureShown(r)
  BY <1>2 DEF FailureShown
<1>5. pc[r] \in Failing => fail[r].status # "succeeded"
  BY DEF RunInv, PhaseInv
<1>6. status'[r] = "succeeded" => outcome'[r] \in {"noop", "actions"}
  BY <1>2, <1>5 DEF TypeInv, Shape, Failing, Terminal
<1>7. GateFailed(r)' => \/ pc'[r] \in Failing /\ fail'[r].status \in Denied
                        \/ status'[r] \in Denied \/ exit'[r] \in {"storage", "crash"}
  BY <1>2, <1>3
<1>8. /\ \A i \in Index : exec'[r][i] # None => i \in Executable(r)'
      /\ FailureShown(r)' =>
           \/ \A i \in Index : exec'[r][i] = None
           \/ \E i \in Index : exec'[r][i] # None /\ exec'[r][i].status = "failed"
  BY <1>1, <1>4 DEF StoryInv
<1>9. QED
  BY <1>1, <1>2, <1>6, <1>7, <1>8 DEF StoryInv

(* Every step of a run keeps its story.                                    *)
LEMMA RunStepStory ==
  ASSUME TypeInv, NEW r \in Runs, RunInv(r), RowsInv(r), StoryInv(r), Step(r) \/ Fault(r)
  PROVE  StoryInv(r)'
<1> USE DEF At, Goto, Return, Abandon, FailWith, FailExecution
<1>1. /\ TypeOK /\ pc \in [Runs -> Phase] /\ exit \in [Runs -> Exit]
      /\ fail \in [Runs -> Failure] /\ status \in [Runs -> Status \cup {None}]
      /\ exec \in [Runs -> [Index -> ExecRow \cup {None}]]
      /\ policyRow \in [Runs -> [Index -> {None, "pass", "fail"}]]
      /\ simRow \in [Runs -> [Index -> {None, "pass", "fail", "skipped"}]]
      /\ outcome \in [Runs -> {None, "noop", "actions"}]
  BY DEF TypeInv, TypeOK, TablesOK, LocalsOK
<1>2. None \notin ErrorKind /\ None \notin ExecRow /\ 0 \notin Index
  BY NullAssumption DEF Index
<1>3. CASE Start(r)
  BY <1>1, <1>2, <1>3, StoryEarly DEF Start, GateFailed, Early, Gating, Approved, Closing, Failing, Denied, ErrorKind, tables, locals, world
<1>4. CASE Reject(r)
  BY <1>1, <1>2, <1>4, StoryEarly DEF Reject, GateFailed, Early, Gating, Approved, Closing, Failing, Denied, ErrorKind, tables, locals, world
<1>5. CASE InsertRun(r)
  BY <1>1, <1>2, <1>5, StoryEarly DEF InsertRun, GateFailed, Early, Gating, Approved, Closing, Failing, Denied, ErrorKind, tables, locals, world
<1>6. CASE Begin(r)
  BY <1>1, <1>2, <1>6, StoryEarly DEF Begin, GateFailed, Early, Gating, Approved, Closing, Failing, Denied, ErrorKind, tables, locals, world
<1>7. CASE ExecuteNoop(r)
  BY <1>1, <1>2, <1>7, StoryEarly DEF ExecuteNoop, GateFailed, Early, Gating, Approved, Closing, Failing, Denied, ErrorKind, tables, locals, world
<1>8. CASE ExecuteBadly(r)
  BY <1>1, <1>2, <1>8, StoryEarly DEF ExecuteBadly, GateFailed, Early, Gating, Approved, Closing, Failing, Denied, ErrorKind, tables, locals, world
<1>9. ASSUME NEW list \in Outputs, ExecuteActions(r, list)
      PROVE  StoryInv(r)'
  BY <1>1, <1>2, <1>9, StoryEarly DEF ExecuteActions, GateFailed, Early, Gating, Approved, Closing, Failing, Denied, ErrorKind, tables, locals, world
<1>10. CASE ResolveChainId(r)
  BY <1>1, <1>2, <1>10, StoryEarly DEF ResolveChainId, GateFailed, Early, Gating, Approved, Closing, Failing, Denied, ErrorKind, tables, locals, world
<1>11. ASSUME NEW i \in Index, PolicyPass(r, i)
      PROVE  StoryInv(r)'
  BY <1>1, <1>2, <1>11, StoryEarly DEF PolicyPass, GateFailed, Early, Gating, Approved, Closing, Failing, Denied, ErrorKind, tables, locals, world
<1>12. ASSUME NEW i \in Index, PolicyDeny(r, i)
      PROVE  StoryInv(r)'
  BY <1>1, <1>2, <1>12, StoryEarly DEF PolicyDeny, GateFailed, Early, Gating, Approved, Closing, Failing, Denied, ErrorKind, tables, locals, world
<1>13. CASE SkipSim(r)
  BY <1>1, <1>2, <1>13, StoryEarly DEF SkipSim, GateFailed, Early, Gating, Approved, Closing, Failing, Denied, ErrorKind, tables, locals, world
<1>14. ASSUME NEW i \in Index, SimPass(r, i)
      PROVE  StoryInv(r)'
  BY <1>1, <1>2, <1>14, StoryEarly DEF SimPass, GateFailed, Early, Gating, Approved, Closing, Failing, Denied, ErrorKind, tables, locals, world
<1>15. ASSUME NEW i \in Index, SimFail(r, i)
      PROVE  StoryInv(r)'
  BY <1>1, <1>2, <1>15, StoryEarly DEF SimFail, GateFailed, Early, Gating, Approved, Closing, Failing, Denied, ErrorKind, tables, locals, world
<1>16. CASE SignerFails(r)
  BY <1>1, <1>2, <1>16, StoryEarly DEF SignerFails, GateFailed, Early, Gating, Approved, Closing, Failing, Denied, ErrorKind, tables, locals, world
<1>17. CASE SignerReady(r)
  BY <1>1, <1>2, <1>17, StoryEarly DEF SignerReady, GateFailed, Early, Gating, Approved, Closing, Failing, Denied, ErrorKind, tables, locals, world
<1>18. CASE Preflight(r)
  <2>1. First(r) \in Index
    BY <1>1, <1>18, FirstType, ExecutableType DEF Preflight, TypeInv, Shape, Approved
  <2>2. /\ exec'[r] = exec[r] /\ status'[r] = status[r] /\ pc[r] = "preflight"
        /\ policyRow'[r] = policyRow[r] /\ simRow'[r] = simRow[r]
    BY <1>18 DEF Preflight, tables
  <2>3. pc'[r] = "fail_exec" => fail'[r].error = "delegate_not_deployed"
    BY <1>1, <1>2, <1>18, <2>1 DEF Preflight
  <2>4. pc'[r] = "fail_exec" => fail'[r].error # None
    BY <1>2, <2>3 DEF ErrorKind
  <2>5. QED
    BY <1>1, <2>2, <2>4, StoryEarly DEF GateFailed, Approved
<1>19. CASE PreflightUnreachable(r)
  BY <1>1, <1>2, <1>19, StoryEarly DEF PreflightUnreachable, GateFailed, Early, Gating, Approved, Closing, Failing, Denied, ErrorKind, tables, locals, world
<1>20. ASSUME NEW i \in Index, Send(r, i)
      PROVE  StoryInv(r)'
  BY <1>1, <1>2, <1>20, StoryLate DEF Send, Early, Gating, Approved, Closing, Failing, Denied, ErrorKind, tables, locals, world
<1>21. ASSUME NEW i \in Index, SendFails(r, i)
      PROVE  StoryInv(r)'
  <2>1. pc'[r] = "fail_exec" /\ fail'[r].error = "broadcast_failed" /\ exit'[r] = exit[r]
    BY <1>1, <1>2, <1>21 DEF SendFails
  <2>2. pc[r] = "send" /\ acts'[r] = acts[r] /\ status'[r] = status[r]
        /\ exec'[r] = exec[r] /\ policyRow'[r] = policyRow[r] /\ simRow'[r] = simRow[r]
    BY <1>21 DEF SendFails, tables
  <2>3. fail'[r].error # None
    BY <1>2, <2>1 DEF ErrorKind
  <2>4. QED
    BY <1>1, <2>1, <2>2, <2>3, StoryLate DEF Early, Gating, Approved, Failing
<1>22. ASSUME NEW i \in Index, RecordBroadcast(r, i)
      PROVE  StoryInv(r)'
  <2>1. pc[r] = "record" /\ exit[r] = None
    BY <1>22 DEF RecordBroadcast, RunInv, PhaseInv
  <2>2. /\ acts'[r] = acts[r] /\ policyRow'[r] = policyRow[r] /\ simRow'[r] = simRow[r]
        /\ status'[r] = status[r] /\ exit'[r] = exit[r] /\ pc'[r] \in {"record", "wait"}
    BY <1>1, <1>22 DEF RecordBroadcast, world
  <2>3. Executable(r)' = Executable(r) /\ Batching(r)' = Batching(r)
    BY <2>2, ListKept
  <2>4. i \in Executable(r)
    BY <1>22, <2>1 DEF RecordBroadcast, RecordsNext, IsNext, RunInv, ChainInv, SequenceInv
  <2>5. /\ exec'[r][i] # None => exec'[r][i].status = "broadcasted"
        /\ \A k \in Index : k # i => exec'[r][k] = exec[r][k]
    BY <1>1, <1>22 DEF RecordBroadcast
  <2>6. status[r] \notin Terminal /\ ~GateFailed(r)
    BY <2>1, AtWork DEF Failing
  <2>7. ~GateFailed(r)'
    BY <2>2, <2>6 DEF GateFailed
  <2>8. ~FailureShown(r)' /\ status'[r] # "succeeded"
    BY <2>2, <2>6 DEF FailureShown, Terminal
  <2>9. ~Batching(r) => \A k \in Index :
          ~(exec'[r][k] # None /\ exec'[r][k].status = "failed" /\ exec'[r][k].error = None)
    BY <2>1, <2>5, AtWork
  <2>10. \A k \in Index : exec'[r][k] # None => k \in Executable(r)
    BY <2>4, <2>5 DEF StoryInv
  <2>11. QED
    BY <2>2, <2>3, <2>7, <2>8, <2>9, <2>10 DEF StoryInv
<1>23. ASSUME NEW i \in Index, RecordReceipt(r, i)
      PROVE  StoryInv(r)'
  <2>1. pc[r] = "receipt" /\ exit[r] = None
    BY <1>23 DEF RecordReceipt, RunInv, PhaseInv
  <2>2. /\ acts'[r] = acts[r] /\ policyRow'[r] = policyRow[r] /\ simRow'[r] = simRow[r]
        /\ status'[r] = status[r] /\ exit'[r] = exit[r]
        /\ pc'[r] \in {"receipt", "journal", "send", "fail_exec"}
        /\ pc'[r] = "fail_exec" => fail'[r].error = "receipt_failed" /\ fail'[r].idx = WaitedFor(r)
    <3>1. WaitedFor(r) # 0
      BY <1>2, <2>1, WaitedForIndex
    <3>2. QED
      BY <1>1, <1>23, <2>1, <3>1 DEF RecordReceipt, world
  <2>3. Executable(r)' = Executable(r) /\ Batching(r)' = Batching(r)
    BY <2>2, ListKept
  <2>4. exec[r][i] # None
    BY <1>23 DEF RecordReceipt
  <2>5. /\ exec'[r][i] # None => exec'[r][i].status = RowStatus(MinedFor(r, i))
        /\ \A k \in Index : k # i => exec'[r][k] = exec[r][k]
    BY <1>1, <1>23 DEF RecordReceipt
  <2>6. status[r] \notin Terminal /\ ~GateFailed(r)
    BY <2>1, AtWork DEF Failing
  <2>7. ~GateFailed(r)'
    BY <2>2, <2>6 DEF GateFailed
  <2>8. ~FailureShown(r)' /\ status'[r] # "succeeded"
    BY <2>2, <2>6 DEF FailureShown, Terminal
  <2>9. ASSUME ~Batching(r), NEW k \in Index,
               exec'[r][k] # None, exec'[r][k].status = "failed", exec'[r][k].error = None
        PROVE  pc'[r] = "fail_exec" /\ fail'[r].idx = k
    <3>1. k = i
      BY <2>1, <2>5, <2>9, AtWork
    <3>2. i = cur[r] /\ RecordsDone(r, i)
      BY <1>23, <2>9 DEF RecordReceipt, RecordsNext, RecordsDone
    <3>3. MinedFor(r, i) = tx[r][WaitedFor(r)]
      BY <2>9, <3>2 DEF MinedFor, Carrier, WaitedFor
    <3>4. MinedFor(r, i) \in {"success", "reverted"}
      BY <2>1, <3>3 DEF TypeInv, Shape
    <3>5. MinedFor(r, i) = "reverted"
      BY <2>5, <2>9, <3>1, <3>4 DEF RowStatus
    <3>6. pc'[r] = "fail_exec"
      <4>1. WaitedFor(r) # 0
        BY <1>2, <2>1, WaitedForIndex
      <4>2. QED
        BY <1>1, <1>23, <3>2, <3>5, <4>1 DEF RecordReceipt, EndsRun
    <3>7. QED
      BY <2>2, <2>9, <3>1, <3>2, <3>6 DEF WaitedFor
  <2>10. \A k \in Index : exec'[r][k] # None => k \in Executable(r)
    BY <2>4, <2>5 DEF StoryInv
  <2>11. pc'[r] = "fail_exec" => fail'[r].error # None
    BY <1>2, <2>2 DEF ErrorKind
  <2>12. QED
    BY <2>2, <2>3, <2>7, <2>8, <2>9, <2>10, <2>11 DEF StoryInv
<1>24. CASE ReceiptArrives(r)
  BY <1>1, <1>2, <1>24, StoryLate DEF ReceiptArrives, Early, Gating, Approved, Closing, Failing, Denied, ErrorKind, tables, locals, world
<1>25. CASE ReceiptFails(r)
  <2>1. WaitedFor(r) \in Index
    BY <1>25, WaitedForIndex DEF ReceiptFails
  <2>2. PICK err \in ErrorKind :
          /\ fail' = [fail EXCEPT ![r] = [idx |-> WaitedFor(r), error |-> err,
                                         journal |-> "runtime_error", status |-> "failed"]]
          /\ pc' = [pc EXCEPT ![r] = "fail_exec"] /\ UNCHANGED exit
    BY <1>2, <1>25, <2>1 DEF ReceiptFails, ErrorKind
  <2>3. pc'[r] = "fail_exec" /\ fail'[r].error # None /\ exit'[r] = exit[r]
    BY <1>1, <1>2, <2>2
  <2>4. QED
    BY <1>1, <1>25, <2>3, StoryLate DEF ReceiptFails, Early, Gating, Approved, Closing, Failing, Denied, ErrorKind, tables, locals, world
<1>26. CASE FailExec(r)
  <2> DEFINE k == fail[r].idx
  <2>1. pc[r] = "fail_exec" /\ exit[r] = None /\ fail[r].error # None
    BY <1>26 DEF FailExec, RunInv, PhaseInv, StoryInv
  <2>2. /\ acts'[r] = acts[r] /\ policyRow'[r] = policyRow[r] /\ simRow'[r] = simRow[r]
        /\ status'[r] = status[r] /\ exit'[r] = exit[r] /\ pc'[r] = "fail_journal"
        /\ fail'[r] = fail[r]
    BY <1>1, <1>26 DEF FailExec, world
  <2>3. Executable(r)' = Executable(r) /\ Batching(r)' = Batching(r)
    BY <2>2, ListKept
  <2>4. k \in Executable(r) /\ k \in Index
    BY <1>1, <2>1, ExecutableType DEF RowsInv, PhaseRows, FailRows
  <2>5. /\ exec'[r][k].status = "failed" /\ exec'[r][k].error # None
        /\ \A j \in Index : j # k => exec'[r][j] = exec[r][j]
    BY <1>1, <1>26, <2>1, <2>4 DEF FailExec
  <2>6. exec'[r][k] \in ExecRow
    <3>1. fail[r] \in Failure
      BY <1>1
    <3>2. exec[r][k] # None => exec[r][k] \in ExecRow
      BY <1>1, <2>4
    <3>3. exec'[r][k] = [status  |-> "failed",
                         tx      |-> IF exec[r][k] = None THEN None ELSE exec[r][k].tx,
                         receipt |-> IF exec[r][k] = None THEN None ELSE exec[r][k].receipt,
                         error   |-> fail[r].error]
      BY <1>1, <1>26, <2>4 DEF FailExec
    <3>4. QED
      BY <3>1, <3>2, <3>3 DEF ExecRow, Failure
  <2>7. exec'[r][k] # None
    BY <1>2, <2>6
  <2>8. status[r] \notin Terminal
        /\ (GateFailed(r) => pc[r] \in Failing /\ fail[r].status \in Denied)
    BY <2>1, AtWork
  <2>9. GateFailed(r)' => pc'[r] \in Failing /\ fail'[r].status \in Denied
    BY <2>2, <2>8 DEF GateFailed, Failing
  <2>10. status'[r] # "succeeded"
    BY <2>2, <2>8 DEF Terminal
  <2>11. ~Batching(r) => \A j \in Index :
          ~(exec'[r][j] # None /\ exec'[r][j].status = "failed" /\ exec'[r][j].error = None)
    BY <2>1, <2>5, AtWork
  <2>12. \A j \in Index : exec'[r][j] # None => j \in Executable(r)
    BY <2>4, <2>5 DEF StoryInv
  <2> HIDE DEF k
  <2>13. QED
    BY <2>2, <2>3, <2>4, <2>5, <2>7, <2>9, <2>10, <2>11, <2>12 DEF StoryInv
<1>27. CASE FailJournal(r)
  BY <1>1, <1>2, <1>27, StoryLate DEF FailJournal, Early, Gating, Approved, Closing, Failing, Denied, ErrorKind, tables, locals, world
<1>28. CASE FailStatus(r)
  BY <1>1, <1>2, <1>28, StoryLate DEF FailStatus, Early, Gating, Approved, Closing, Failing, Denied, ErrorKind, tables, locals, world
<1>29. CASE RecordAction(r)
  BY <1>1, <1>2, <1>29, StoryLate DEF RecordAction, Early, Gating, Approved, Closing, Failing, Denied, ErrorKind, tables, locals, world
<1>30. CASE Capture(r)
  BY <1>1, <1>2, <1>30, StoryLate DEF Capture, Early, Gating, Approved, Closing, Failing, Denied, ErrorKind, tables, locals, world
<1>31. CASE Finish(r)
  BY <1>1, <1>2, <1>31, StoryLate DEF Finish, Early, Gating, Approved, Closing, Failing, Denied, ErrorKind, tables, locals, world
<1>32. CASE RpcFails(r)
  BY <1>1, <1>2, <1>32, StoryEarly DEF RpcFails, GateFailed, Early, Gating, Approved, Closing, Failing, Denied, ErrorKind, tables, locals, world
<1>33. CASE StoreFails(r)
  <2>1. CASE pc[r] \in Early \cup Gating \cup Approved
    BY <1>1, <1>33, <2>1, StoryEarly DEF StoreFails, Early, Gating, Approved, Closing, Failing, Denied, ErrorKind, tables, locals, world
  <2>2. CASE pc[r] \notin Early \cup Gating \cup Approved
    BY <1>1, <1>33, <2>2, StoryLate DEF StoreFails, StorePhase, Early, Gating, Approved, Closing, Failing, Denied, ErrorKind, tables, locals, world
  <2>3. QED
    BY <2>1, <2>2
<1>34. QED
  BY <1>3, <1>4, <1>5, <1>6, <1>7, <1>8, <1>9, <1>10, <1>11, <1>12, <1>13, <1>14, <1>15, <1>16, <1>17, <1>18, <1>19, <1>20, <1>21, <1>22, <1>23, <1>24, <1>25, <1>26, <1>27, <1>28, <1>29, <1>30, <1>31, <1>32, <1>33
     DEF Step, Fault, Gate, Execution

LEMMA StoryFrozen ==
  ASSUME NEW q \in Runs, StoryInv(q), Frozen(q)
  PROVE  StoryInv(q)'
<1>1. Executable(q)' = Executable(q) /\ Batching(q)' = Batching(q)
  BY ListKept DEF Frozen
<1>2. (GateFailed(q)' <=> GateFailed(q)) /\ (FailureShown(q)' <=> FailureShown(q))
  BY DEF Frozen, GateFailed, FailureShown
<1>3. QED
  BY <1>1, <1>2 DEF StoryInv, Frozen

LEMMA InitStory == Init => AllStory
<1> SUFFICES ASSUME Init, NEW r \in Runs PROVE StoryInv(r)
  BY InitRows DEF AllStory
<1>1. /\ pc[r] = "idle" /\ status[r] = None
      /\ \A i \in Index : exec[r][i] = None /\ policyRow[r][i] = None /\ simRow[r][i] = None
  BY DEF Init
<1>2. None \notin Terminal /\ None # "fail"
  BY NullAssumption DEF Status
<1>3. ~GateFailed(r) /\ ~FailureShown(r) /\ status[r] # "succeeded"
  BY <1>1, <1>2 DEF GateFailed, FailureShown, Terminal
<1>4. QED
  BY <1>1, <1>3 DEF StoryInv

LEMMA StepStory == AllStory /\ [Next]_vars => AllStory'
<1> SUFFICES ASSUME AllStory, [Next]_vars
             PROVE  AllStory'
  OBVIOUS
<1>1. AllRows'
  BY StepRows DEF AllStory
<1>2. ASSUME NEW q \in Runs
      PROVE  StoryInv(q)'
  <2>1. TypeInv /\ TypeOK /\ RunInv(q) /\ RowsInv(q) /\ StoryInv(q)
    BY DEF AllStory, AllRows, IInv, TypeInv
  <2>2. ASSUME NEW r \in Runs, Step(r) \/ Fault(r)
        PROVE  StoryInv(q)'
    <3>1. CASE q = r
      BY <2>1, <2>2, <3>1, RunStepStory
    <3>2. CASE q # r
      BY <2>1, <2>2, <3>2, Frame, StoryFrozen
    <3>3. QED
      BY <3>1, <3>2
  <2>3. ASSUME NEW p \in Policies, PolicySet(p)
        PROVE  StoryInv(q)'
    BY <2>1, <2>3, StoryFrozen DEF PolicySet, Frozen, tables, locals, world
  <2>4. ASSUME NEW r \in Runs, NEW i \in Index, Mine(r, i)
        PROVE  StoryInv(q)'
    <3>1. UNCHANGED tables /\ UNCHANGED locals
      BY <2>4 DEF Mine
    <3>2. Executable(q)' = Executable(q) /\ Batching(q)' = Batching(q)
      BY <3>1, ListKept DEF locals
    <3>3. (GateFailed(q)' <=> GateFailed(q)) /\ (FailureShown(q)' <=> FailureShown(q))
      BY <3>1 DEF tables, locals, GateFailed, FailureShown
    <3>4. QED
      BY <2>1, <3>1, <3>2, <3>3 DEF StoryInv, tables, locals
  <2>5. ASSUME DeployDelegate
        PROVE  StoryInv(q)'
    BY <2>1, <2>5, StoryFrozen DEF DeployDelegate, Frozen, tables, locals
  <2>6. ASSUME Restart
        PROVE  StoryInv(q)'
    <3>1. UNCHANGED tables /\ UNCHANGED world /\ UNCHANGED <<acts, outcome, fail>>
      BY <2>6 DEF Restart
    <3>2. CASE ~Live(q)
      <4>1. Frozen(q)
        BY <2>1, <2>6, <3>2 DEF Restart, Frozen, tables, world, TypeOK, LocalsOK
      <4>2. QED
        BY <2>1, <4>1, StoryFrozen
    <3>3. CASE Live(q)
      <4>1. pc'[q] = "done" /\ exit'[q] = "crash"
        BY <2>1, <2>6, <3>3 DEF Restart, TypeOK, LocalsOK
      <4>2. Executable(q)' = Executable(q) /\ Batching(q)' = Batching(q)
        BY <3>1, ListKept
      <4>3. status[q] \notin Terminal
        BY <2>1, <3>3, AtWork DEF Live
      <4>4. ~FailureShown(q)' /\ status'[q] # "succeeded"
        BY <3>1, <4>1, <4>3 DEF FailureShown, tables, Terminal
      <4>5. QED
        BY <2>1, <3>1, <4>1, <4>2, <4>4 DEF StoryInv, tables
    <3>4. QED
      BY <3>2, <3>3
  <2>7. ASSUME UNCHANGED vars
        PROVE  StoryInv(q)'
    BY <2>1, <2>7, StoryFrozen DEF vars, Frozen, tables, locals, world
  <2>8. QED
    BY <2>2, <2>3, <2>4, <2>5, <2>6, <2>7 DEF Next, Environment
<1>3. QED
  BY <1>1, <1>2 DEF AllStory

(* The triage of a settled run tells what its rows tell: it finds a failure*)
(* exactly in a failed run, names the policy gate for every denial by the  *)
(* policy and for no run but a denied one, a no-op exactly for a run       *)
(* labelled so, and neither where anything was sent.                       *)
THEOREM TriageIsTrue == Spec => []TriageTellsTheRun
<1>1. ASSUME AllStory, NEW r \in Runs, status[r] \in Terminal, NEW fetch \in Fetches(r)
      PROVE  LET report == TriageRun(r, fetch)
             IN  /\ report.label = "failed" <=> report.failed # {}
                 /\ (\E i \in Index : policyRow[r][i] = "fail") => report.cause = "policy gate"
                 /\ report.cause = "policy gate" =>
                        status[r] \in {"policy_denied", "simulation_denied"}
                 /\ report.label = "noop" <=> report.cause = "noop"
                 /\ report.cause \in {"policy gate", "noop"} => \A i \in Index : ~Sent(r, i)
  <2>1. /\ TypeInv /\ TypeOK /\ RunInv(r) /\ RowsInv(r) /\ StoryInv(r)
    BY <1>1 DEF AllStory, AllRows, IInv, TypeInv
  <2>2. pc[r] = "done" /\ exit[r] \in {"ok", "error"}
    BY <1>1, <2>1, NullAssumption DEF RunInv, PhaseInv, Terminal, Status
  <2>3. /\ Len(journal[r]) = 1 /\ Agrees(journal[r][1], status[r])
        /\ DOMAIN journal[r] = {1}
    <3>1. journal[r] \in Seq(JournalOutcome)
      BY <2>1 DEF TypeOK, TablesOK
    <3>2. Len(journal[r]) = 1 /\ Agrees(journal[r][1], status[r])
      BY <1>1, <2>1 DEF RunInv, JournalInv
    <3>3. QED
      BY <3>1, <3>2
  <2>4. \A i \in Rows(r) : exec[r][i] \in ExecRow
    BY <2>1, RowType DEF Rows
  <2>5. PolicyDenied(r) => status[r] \in Denied
    BY <2>1, <2>2 DEF StoryInv, GateFailed, PolicyDenied, Failing
  <2>6. status[r] \in Denied => \A i \in Index : ~Sent(r, i) /\ exec[r][i] = None
    BY <2>1 DEF RunInv, InertInv, Untouched
  <2>7. status[r] = "succeeded" =>
          /\ journal[r] = <<outcome[r]>> /\ outcome[r] \in {"noop", "actions"}
          /\ \A i \in Rows(r) : exec[r][i].status = "confirmed"
    <3>1. status[r] = "succeeded" => AllGood(r)
      BY <2>1 DEF RowsInv, PhaseRows
    <3>2. ASSUME status[r] = "succeeded", NEW i \in Rows(r)
          PROVE  exec[r][i].status = "confirmed"
      <4>1. i \in Executable(r)
        BY <2>1 DEF StoryInv, Rows
      <4>2. QED
        BY <3>1, <3>2, <4>1 DEF AllGood, Good, Mined, RowStatus
    <3>3. QED
      BY <2>1, <3>2 DEF StoryInv, RunInv, JournalInv
  <2>8. status[r] # "succeeded" =>
          Rows(r) = {} \/ \E i \in Rows(r) : exec[r][i].status = "failed"
    BY <1>1, <2>1 DEF StoryInv, FailureShown, Rows
  <2>9. OutcomeLabel(r) = "failed" <=> status[r] # "succeeded"
    BY <1>1 DEF OutcomeLabel, Terminal
  <2>10. OutcomeLabel(r) = "noop" <=> status[r] = "succeeded" /\ AnyNoop(r) /\ Rows(r) = {}
    BY <1>1 DEF OutcomeLabel, Terminal
  <2>11. OutcomeLabel(r) = "failed" <=> WhatFailed(r) # {}
    <3>1. CASE status[r] = "succeeded"
      <4>1. Listed(r, "failed") = {}
        BY <2>7, <3>1 DEF Listed, ClassifyActionStatus
      <4>2. \A j \in DOMAIN journal[r] : journal[r][j] \notin FailureOutcomes
        BY <2>3, <2>7, <3>1 DEF FailureOutcomes
      <4>3. WhatFailed(r) = {}
        BY <4>1, <4>2 DEF WhatFailed
      <4>4. QED
        BY <2>9, <3>1, <4>3
    <3>2. CASE status[r] # "succeeded"
      <4>1. CASE Rows(r) = {}
        <5>1. journal[r][1] \in FailureOutcomes
          BY <1>1, <2>3, <3>2 DEF Agrees, FailureOutcomes, Terminal
        <5>2. <<"journal", 1>> \in WhatFailed(r)
          BY <2>3, <4>1, <5>1 DEF WhatFailed
        <5>3. QED
          BY <2>9, <3>2, <5>2
      <4>2. CASE \E i \in Rows(r) : exec[r][i].status = "failed"
        <5>1. PICK i \in Rows(r) : exec[r][i].status = "failed"
          BY <4>2
        <5>2. <<"row", i>> \in WhatFailed(r)
          BY <5>1 DEF WhatFailed, Listed, ClassifyActionStatus
        <5>3. QED
          BY <2>9, <3>2, <5>2
      <4>3. QED
        BY <2>8, <3>2, <4>1, <4>2
    <3>3. QED
      BY <3>1, <3>2
  <2>12. Rows(r) = {} => \A i \in Index : ~Sent(r, i)
    BY <2>1, <2>2 DEF RowsInv, Explained, Rows
  <2>16. Rows(r) = {} => ~PreconditionNotMet(r, fetch) /\ ~OpaqueRevert(r, fetch)
    BY DEF PreconditionNotMet, OpaqueRevert, Listed
  <2> DEFINE cause == DeriveLikelyCause(r, fetch)
  <2>17. /\ cause = "policy gate" => PolicyDenied(r)
         /\ cause = "precondition" => PreconditionNotMet(r, fetch)
         /\ cause = "opaque revert" => OpaqueRevert(r, fetch)
         /\ cause = "noop" => OutcomeLabel(r) = "noop"
         /\ OutcomeLabel(r) = "noop" /\ ~PolicyDenied(r) /\ ~PreconditionNotMet(r, fetch)
            /\ ~OpaqueRevert(r, fetch) => cause = "noop"
    BY DEF DeriveLikelyCause
  <2> HIDE DEF cause
  <2>18. cause \in {"policy gate", "noop"} => \A i \in Index : ~Sent(r, i)
    BY <2>5, <2>6, <2>10, <2>12, <2>17
  <2>19. OutcomeLabel(r) = "noop" <=> cause = "noop"
    BY <2>5, <2>10, <2>16, <2>17 DEF Denied
  <2>20. /\ (\E i \in Index : policyRow[r][i] = "fail") => cause = "policy gate"
         /\ cause = "policy gate" => status[r] \in {"policy_denied", "simulation_denied"}
    BY <2>5, <2>17 DEF cause, DeriveLikelyCause, PolicyDenied, Denied
  <2>21. QED
    BY <2>11, <2>18, <2>19, <2>20 DEF TriageRun, cause
<1>2. AllStory => TriageTellsTheRun
  BY <1>1 DEF TriageTellsTheRun
<1>3. QED
  BY <1>2, InitStory, StepStory, PTL DEF Spec

(* Whatever its receipts say, a settled run that sent its actions one by   *)
(* one is not explained by a revert.                                       *)
RevertsHidden ==
  \A r \in Runs : status[r] \in Terminal /\ ~Batching(r) =>
    \A fetch \in Fetches(r) :
      TriageRun(r, fetch).cause \notin {"precondition", "opaque revert"}

(* The heuristics of a revert serve batches alone: the error that          *)
(* execute_approved_actions leaves on a failed row hides the receipt from  *)
(* revert_reason_for in every run that sent its actions one by one.        *)
THEOREM SequentialRevertsAreHidden == Spec => []RevertsHidden
<1>1. ASSUME AllStory, NEW r \in Runs, status[r] \in Terminal, ~Batching(r),
             NEW fetch \in Fetches(r)
      PROVE  TriageRun(r, fetch).cause \notin {"precondition", "opaque revert"}
  <2>1. /\ TypeInv /\ TypeOK /\ RunInv(r) /\ RowsInv(r) /\ StoryInv(r)
    BY <1>1 DEF AllStory, AllRows, IInv, TypeInv
  <2>2. pc[r] = "done" /\ exit[r] \in {"ok", "error"}
    BY <1>1, <2>1, NullAssumption DEF RunInv, PhaseInv, Terminal, Status
  <2>3. ASSUME NEW i \in Listed(r, "failed")
        PROVE  exec[r][i].error \in ErrorKind
    <3>1. exec[r][i] \in ExecRow /\ exec[r][i] # None /\ i \in Index /\ exec[r][i].status = "failed"
      BY <2>1, RowType DEF Listed, Rows, ClassifyActionStatus
    <3>2. exec[r][i].error # None
      BY <1>1, <2>1, <2>2, <3>1 DEF StoryInv
    <3>3. QED
      BY <3>1, <3>2 DEF ExecRow
  <2>4. ~PreconditionNotMet(r, fetch)
    BY <2>3, NullAssumption DEF PreconditionNotMet, RevertReason, ErrorKind
  <2>5. ~OpaqueRevert(r, fetch)
    BY <2>3, NullAssumption DEF OpaqueRevert
  <2>6. DeriveLikelyCause(r, fetch) \notin {"precondition", "opaque revert"}
    BY <2>4, <2>5 DEF DeriveLikelyCause
  <2>7. QED
    BY <2>6 DEF TriageRun
<1>2. AllStory => RevertsHidden
  BY <1>1 DEF RevertsHidden
<1>3. QED
  BY <1>2, InitStory, StepStory, PTL DEF Spec
=============================================================================
