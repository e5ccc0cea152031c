------------------------ MODULE TriggerDispatch_proofs ------------------------
(***************************************************************************)
(* Proofs about triggers and their dispatcher for every set of triggers,   *)
(* windows, clock grain, channel capacity and number of restarts, over     *)
(* every table and lineage the server may boot with.                       *)
(***************************************************************************)
EXTENDS TriggerDispatch, TLAPS

Event == [trigger : Triggers, key : Keys]
TriggerRow == [enabled : BOOLEAN, window : Windows, last : {None} \cup Nat]
Verdict == {"predicate_false", "predicate_error", "dedup", "run", "run_error"}
Entry == [key : Keys, stamp : Int, verdict : Verdict]

(* Where the dispatcher holds an event, and where also its trigger's row.  *)
Gated == {"predicate", "dedup", "resolve", "run"}
Loaded == Gated \cup {"running", "record"}
Holding == Loaded \cup {"load"}

TableOK ==
  /\ row \in [Triggers -> {None} \cup TriggerRow]
  /\ log \in [Triggers -> SUBSET Entry]
  /\ lastRun \in [Triggers -> [Keys -> {None} \cup Nat]]
  /\ now \in Nat

PoolOK ==
  /\ workers \in [Triggers -> Nat]
  /\ spawning \in [Triggers -> Nat]
  /\ born \in [Triggers -> Nat]
  /\ stale \in [Triggers -> Nat]

DispatcherOK ==
  /\ queue \in Seq(Event)
  /\ pc \in Holding \cup {"recv", "exited", "panicked"}
  /\ pc \in Holding => ev \in Event
  /\ pc \in Loaded => trig \in TriggerRow
  /\ pc = "record" => verdict \in Verdict

LineageOK == current \in [Lines -> Versions \cup {Unborn, Dormant}]

(* A trigger whose event is past the load has started no stale run since   *)
(* it was last on; one that is on has none.                                *)
StaleInv ==
  \A t \in Triggers :
    /\ stale[t] <= 1
    /\ Enabled(t) => stale[t] = 0
    /\ pc \in Gated /\ ev.trigger = t => stale[t] = 0

(* What the lineage is now has been seen since the event was taken.        *)
SeenInv ==
  /\ pc \in Holding => current[LineOf[ev.trigger]] \in seen
  /\ FreshTarget

(* The history has a row for the last run of a key, in the second it ended.*)
LogInv ==
  \A t \in Triggers, k \in Keys :
    lastRun[t][k] # None =>
      \E e \in log[t] : e.key = k /\ e.stamp = Stamp(lastRun[t][k])

(* Past the check, the window since the last run of the key is over.       *)
DedupInv ==
  pc \in {"resolve", "run"} /\ Deduplicated /\ ~faulted =>
    \/ lastRun[ev.trigger][ev.key] = None
    \/ now > lastRun[ev.trigger][ev.key] + trig.window

(* No trigger has fired in the future.                                     *)
FiredInv ==
  \A t \in Triggers :
    row[t] # None /\ row[t].last # None => row[t].last <= Stamp(now)

IInv ==
  /\ TableOK /\ PoolOK /\ DispatcherOK /\ LineageOK
  /\ StaleInv /\ SeenInv /\ LogInv /\ DedupInv /\ FiredInv
  /\ OneWorkerPerRegistration

-----------------------------------------------------------------------------
(* Truncation to seconds is monotone, whatever the grain.                  *)
LEMMA DivBounds ==
  ASSUME NEW a \in Int
  PROVE  /\ Stamp(a) \in Int
         /\ Grain * Stamp(a) <= a /\ a < Grain * Stamp(a) + Grain
BY DispatchAssumption, SMTT(30) DEF Stamp

LEMMA Product ==
  ASSUME NEW x \in Int, NEW y \in Int, x + 1 <= y
  PROVE  Grain * x + Grain <= Grain * y
BY DispatchAssumption, SMTT(30)

(* A time in an earlier second is an earlier time.                         *)
LEMMA EarlierSecond ==
  ASSUME NEW a \in Int, NEW b \in Int, Stamp(a) < Stamp(b)
  PROVE  a < b
<1>1. Stamp(a) \in Int /\ Stamp(b) \in Int /\ Stamp(a) + 1 <= Stamp(b)
  BY DivBounds
<1>2. Grain * Stamp(a) + Grain <= Grain * Stamp(b)
  BY <1>1, Product
<1>3. a < Grain * Stamp(a) + Grain /\ Grain * Stamp(b) <= b
  BY DivBounds
<1>4. Grain \in Int /\ Grain * Stamp(a) \in Int /\ Grain * Stamp(b) \in Int
  BY <1>1, DispatchAssumption
<1>5. QED
  BY <1>2, <1>3, <1>4

LEMMA StampGrows ==
  ASSUME NEW a \in Int, NEW b \in Int, a <= b
  PROVE  Stamp(a) \in Int /\ Stamp(b) \in Int /\ Stamp(a) <= Stamp(b)
<1>1. Stamp(a) \in Int /\ Stamp(b) \in Int
  BY DivBounds
<1>2. ~(Stamp(b) < Stamp(a))
  BY EarlierSecond
<1>3. QED
  BY <1>1, <1>2

LEMMA StampType == ASSUME NEW a \in Nat PROVE Stamp(a) \in Nat
BY DispatchAssumption, SMTT(30) DEF Stamp

-----------------------------------------------------------------------------
(* Types.                                                                  *)
(* The tables keep their shape.                                            *)
LEMMA TableStep == IInv /\ [Next]_vars => TableOK'
<1> SUFFICES ASSUME IInv, [Next]_vars PROVE TableOK'
  OBVIOUS
<1>2. ASSUME UNCHANGED <<row, log, lastRun, now>>
      PROVE  TableOK'
  BY <1>2 DEF IInv, TableOK
<1>3. ASSUME NEW t \in Triggers, NEW on \in BOOLEAN,
             SpawnWorker(t) \/ Fire(t) \/ WorkerExits(t)
      PROVE  TableOK'
  BY <1>2, <1>3 DEF SpawnWorker, table, dispatcher, lineage, Fire, pool,
           WorkerExits
<1>4. CASE Reregister \/ Receive \/ DropEvent \/ LoadTrigger \/ Predicate
          \/ CheckDedup \/ CheckDedupFails \/ CheckDedupPanics \/ Resolve \/ ResolveFails
          \/ StartRun \/ RefuseRun \/ Exit \/ EndRun \/ RecvClosed
          \/ DropServer \/ UNCHANGED vars
  BY <1>2, <1>4 DEF Reregister, table, pool, Receive, Still, lineage,
           DropEvent, Continue, LoadTrigger, Predicate, GoRecord, CheckDedup,
           CheckDedupFails, Resolve, ResolveFails, StartRun, RefuseRun, Exit, CheckDedupPanics, TaskEnds,
           EndRun, RecvClosed, DropServer, dispatcher, vars
<1>5. ASSUME NEW t \in Triggers, Register(t)
      PROVE  TableOK'
  BY <1>5 DEF IInv, TableOK, Register, dispatcher, lineage, TriggerRow
<1>6. ASSUME NEW t \in Triggers, Delete(t)
      PROVE  TableOK'
  BY <1>6 DEF IInv, TableOK, Delete, pool, dispatcher, lineage
<1>7. ASSUME NEW t \in Triggers, DeleteTorn(t)
      PROVE  TableOK'
  BY <1>7 DEF IInv, TableOK, DeleteTorn, pool, dispatcher, lineage
<1>8. ASSUME NEW t \in Triggers, NEW on \in BOOLEAN, SetEnabled(t, on)
      PROVE  TableOK'
  BY <1>8 DEF IInv, TableOK, SetEnabled, pool, dispatcher, lineage, TriggerRow
<1>9. CASE Record
  <2>1. /\ ev.trigger \in Triggers /\ ev.key \in Keys /\ now \in Nat /\ verdict \in Verdict
        /\ row \in [Triggers -> {None} \cup TriggerRow] /\ row[ev.trigger] # None
    BY <1>9 DEF Record, InsertEvent, IInv, TableOK, DispatcherOK, Event, Holding, Loaded
  <2>2. Stamp(now) \in Nat
    BY <2>1, StampType
  <2>3. [key |-> ev.key, stamp |-> Stamp(now), verdict |-> verdict] \in Entry
    BY <2>1, <2>2 DEF Entry
  <2>4. row' \in [Triggers -> {None} \cup TriggerRow]
    BY <1>9, <2>1, <2>2 DEF Record, TriggerRow
  <2>5. QED
    BY <1>9, <2>1, <2>3, <2>4
       DEF Record, InsertEvent, IInv, TableOK, Continue, Still
<1>10. CASE RecordTorn
  <2>1. /\ ev.trigger \in Triggers /\ ev.key \in Keys /\ now \in Nat /\ verdict \in Verdict
    BY <1>10 DEF RecordTorn, InsertEvent, IInv, TableOK, DispatcherOK, Event, Holding, Loaded
  <2>2. Stamp(now) \in Nat
    BY <2>1, StampType
  <2>3. [key |-> ev.key, stamp |-> Stamp(now), verdict |-> verdict] \in Entry
    BY <2>1, <2>2 DEF Entry
  <2>4. QED
    BY <1>10, <2>1, <2>3
       DEF RecordTorn, InsertEvent, IInv, TableOK, Continue, Still
<1>11. CASE RecordFails
  BY <1>11 DEF IInv, TableOK, RecordFails, Continue, Still, table, pool,
           lineage, Forget, DispatcherOK, Event, Holding, Loaded
<1>12. CASE Restart
  BY <1>12 DEF IInv, TableOK, Restart, table, lineage, DispatcherOK, Event,
           Holding, Loaded
<1>13. CASE Tick
  BY <1>13 DEF IInv, TableOK, Tick, table, pool, dispatcher, lineage
<1>14. QED
  BY <1>3, <1>4, <1>5, <1>6, <1>7, <1>8, <1>9, <1>10, <1>11, <1>12, <1>13
     DEF Next, Tools, Dispatch

(* So do the pool and the count of stale runs.                             *)
LEMMA PoolStep == IInv /\ [Next]_vars => PoolOK'
<1> SUFFICES ASSUME IInv, [Next]_vars PROVE PoolOK'
  OBVIOUS
<1>2. ASSUME UNCHANGED <<workers, spawning, born, stale>>
      PROVE  PoolOK'
  BY <1>2 DEF IInv, PoolOK
<1>3. ASSUME NEW t \in Triggers, NEW on \in BOOLEAN,
             Delete(t) \/ DeleteTorn(t) \/ Fire(t)
      PROVE  PoolOK'
  BY <1>2, <1>3 DEF Delete, pool, dispatcher, lineage, DeleteTorn, Fire, table
<1>4. CASE Reregister \/ Receive \/ DropEvent \/ LoadTrigger \/ Predicate
          \/ CheckDedup \/ CheckDedupFails \/ CheckDedupPanics \/ Resolve \/ ResolveFails
          \/ RefuseRun \/ Exit \/ EndRun \/ Record \/ RecordTorn
          \/ RecordFails \/ RecvClosed \/ DropServer \/ Tick
          \/ UNCHANGED vars
  BY <1>2, <1>4 DEF Reregister, table, pool, Receive, Still, lineage,
           DropEvent, Continue, LoadTrigger, Predicate, GoRecord, CheckDedup,
           CheckDedupFails, Resolve, ResolveFails, RefuseRun, Exit, CheckDedupPanics, TaskEnds, EndRun,
           Record, InsertEvent, RecordTorn, RecordFails, RecvClosed,
           DropServer, dispatcher, Tick, vars
<1>5. ASSUME NEW t \in Triggers, Register(t)
      PROVE  PoolOK'
  BY <1>5 DEF IInv, PoolOK, Register, dispatcher, lineage
<1>6. ASSUME NEW t \in Triggers, SpawnWorker(t)
      PROVE  PoolOK'
  BY <1>6 DEF IInv, PoolOK, SpawnWorker, table, dispatcher, lineage
<1>7. ASSUME NEW t \in Triggers, NEW on \in BOOLEAN, SetEnabled(t, on)
      PROVE  PoolOK'
  BY <1>7 DEF IInv, PoolOK, SetEnabled, pool, dispatcher, lineage
<1>8. ASSUME NEW t \in Triggers, WorkerExits(t)
      PROVE  PoolOK'
  BY <1>8 DEF IInv, PoolOK, WorkerExits, table, dispatcher, lineage
<1>9. CASE StartRun
  BY <1>9 DEF IInv, PoolOK, StartRun, table, Still, pool, lineage,
           DispatcherOK, Event, Holding, Loaded, Gated
<1>10. CASE Restart
  BY <1>10 DEF IInv, PoolOK, Restart, table, lineage, AtBoot
<1>11. QED
  BY <1>3, <1>4, <1>5, <1>6, <1>7, <1>8, <1>9, <1>10
     DEF Next, Tools, Dispatch

(* So does what the dispatcher holds.                                      *)
LEMMA DispatcherStep == IInv /\ [Next]_vars => DispatcherOK'
<1> SUFFICES ASSUME IInv, [Next]_vars PROVE DispatcherOK'
  OBVIOUS
<1>2. ASSUME UNCHANGED <<queue, pc, ev, trig, verdict>>
      PROVE  DispatcherOK'
  BY <1>2 DEF IInv, DispatcherOK
<1>3. ASSUME NEW t \in Triggers, NEW on \in BOOLEAN,
             Register(t) \/ SpawnWorker(t) \/ Delete(t) \/ DeleteTorn(t) \/ SetEnabled(t, on) \/ WorkerExits(t)
      PROVE  DispatcherOK'
  BY <1>2, <1>3 DEF Register, dispatcher, lineage, SpawnWorker, table, Delete,
           pool, DeleteTorn, SetEnabled, WorkerExits
<1>4. CASE Reregister \/ DropServer \/ Tick \/ UNCHANGED vars
  BY <1>2, <1>4 DEF Reregister, table, pool, DropServer, dispatcher, lineage,
           Tick, vars
<1>5. ASSUME NEW t \in Triggers, Fire(t)
      PROVE  DispatcherOK'
  <2>1. PICK k \in KeysOf[t] : queue' = Append(queue, [trigger |-> t, key |-> k])
    BY <1>5 DEF Fire
  <2>2. [trigger |-> t, key |-> k] \in Event
    BY DEF Event, Keys
  <2>3. QED
    BY <1>5, <2>1, <2>2 DEF Fire, IInv, DispatcherOK, dispatcher
<1>6. CASE Receive
  <2>1. ev' \in Event /\ queue' \in Seq(Event)
    BY <1>6 DEF Receive, IInv, DispatcherOK
  <2>2. QED
    BY <1>6, <2>1 DEF Receive, DispatcherOK, Holding, Loaded, Gated
<1>7. CASE DropEvent
  BY <1>7 DEF IInv, DispatcherOK, DropEvent, Continue, Still, table, pool,
           lineage, Holding, Loaded, Gated, Event
<1>8. CASE LoadTrigger
  <2>1. trig' \in TriggerRow /\ ev \in Event
    BY <1>8 DEF LoadTrigger, Enabled, IInv, TableOK, DispatcherOK, Event, Holding
  <2>2. QED
    BY <1>8, <2>1 DEF LoadTrigger, IInv, DispatcherOK, Holding, Loaded, Gated
<1>9. CASE Predicate
  BY <1>9 DEF IInv, DispatcherOK, Predicate, table, Still, pool, lineage,
           GoRecord, Holding, Loaded, Gated, Verdict
<1>10. CASE CheckDedup
  BY <1>10 DEF IInv, DispatcherOK, CheckDedup, table, Still, pool, lineage,
           GoRecord, Holding, Loaded, Gated, Verdict
<1>11. CASE CheckDedupFails
  BY <1>11 DEF IInv, DispatcherOK, CheckDedupFails, table, Still, pool,
           lineage, Holding, Loaded, Gated, Event
<1>12. CASE Resolve
  BY <1>12 DEF IInv, DispatcherOK, Resolve, table, Still, pool, lineage,
           Holding, Loaded, Gated, Event
<1>13. CASE ResolveFails
  BY <1>13 DEF IInv, DispatcherOK, ResolveFails, table, Still, pool, lineage,
           Holding, Loaded, Gated, Event
<1>14. CASE StartRun
  BY <1>14 DEF IInv, DispatcherOK, StartRun, table, Still, pool, lineage,
           Holding, Loaded, Gated, Event
<1>15. CASE RefuseRun
  BY <1>15 DEF IInv, DispatcherOK, RefuseRun, table, Still, pool, lineage,
           GoRecord, Holding, Loaded, Gated, Verdict
<1>16. CASE Exit \/ CheckDedupPanics
  <2>1. pc' \in {"exited", "panicked"} /\ queue' = <<>>
    BY <1>16 DEF Exit, CheckDedupPanics, TaskEnds
  <2>2. QED
    BY <2>1 DEF DispatcherOK, Holding, Loaded, Gated
<1>17. CASE EndRun
  BY <1>17 DEF IInv, DispatcherOK, EndRun, table, Still, pool, lineage,
           GoRecord, Holding, Loaded, Gated, Verdict
<1>18. CASE Record
  BY <1>18 DEF IInv, DispatcherOK, Record, InsertEvent, Continue, Still, pool,
           lineage, Holding, Loaded, Gated, Event
<1>19. CASE RecordTorn
  BY <1>19 DEF IInv, DispatcherOK, RecordTorn, InsertEvent, Continue, Still,
           pool, lineage, Holding, Loaded, Gated, Event
<1>20. CASE RecordFails
  BY <1>20 DEF IInv, DispatcherOK, RecordFails, Continue, Still, table, pool,
           lineage, Holding, Loaded, Gated, Event
<1>21. CASE RecvClosed
  BY <1>21 DEF IInv, DispatcherOK, RecvClosed, table, Still, pool, lineage,
           Holding, Loaded, Gated, Event
<1>22. CASE Restart
  BY <1>22 DEF IInv, DispatcherOK, Restart, table, lineage, Holding, Loaded,
           Gated, Event
<1>23. QED
  BY <1>3, <1>4, <1>5, <1>6, <1>7, <1>8, <1>9, <1>10, <1>11, <1>12, <1>13,
     <1>14, <1>15, <1>16, <1>17, <1>18, <1>19, <1>20, <1>21, <1>22
     DEF Next, Tools, Dispatch

(* And the lineage.                                                        *)
LEMMA LineageStep == IInv /\ [Next]_vars => LineageOK'
<1> SUFFICES ASSUME IInv, [Next]_vars PROVE LineageOK'
  OBVIOUS
<1>1. LineageNext \/ UNCHANGED current
  BY DEF Next, Tools, Dispatch, vars, lineage, Still, Continue, InsertEvent,
         Register, SpawnWorker, Delete, DeleteTorn, SetEnabled, Reregister, Fire, WorkerExits,
         Receive, DropEvent, LoadTrigger, Predicate, CheckDedup, CheckDedupFails, Resolve,
         ResolveFails, StartRun, RefuseRun, Exit, CheckDedupPanics, TaskEnds, EndRun, Record, RecordTorn, RecordFails,
         RecvClosed, DropServer, Restart, Tick
<1>2. CASE LineageNext
  BY <1>2 DEF LineageNext, Found, Replace, Drop, IInv, LineageOK
<1>3. CASE UNCHANGED current
  BY <1>3 DEF IInv, LineageOK
<1>4. QED
  BY <1>1, <1>2, <1>3

-----------------------------------------------------------------------------
(* Only an event that was loaded can start a stale run, and only one does. *)
LEMMA StaleStep == IInv /\ [Next]_vars => StaleInv'
<1> SUFFICES ASSUME IInv, [Next]_vars PROVE StaleInv'
  OBVIOUS
<1>2. ASSUME UNCHANGED <<row, stale, pc, ev>>
      PROVE  StaleInv'
  BY <1>2 DEF IInv, StaleInv, Enabled
<1>3. ASSUME NEW t \in Triggers, NEW on \in BOOLEAN,
             SpawnWorker(t) \/ DeleteTorn(t) \/ Fire(t) \/ WorkerExits(t)
      PROVE  StaleInv'
  BY <1>2, <1>3 DEF SpawnWorker, table, dispatcher, lineage, DeleteTorn, pool,
           Fire, WorkerExits
<1>4. CASE Reregister \/ DropServer \/ Tick \/ UNCHANGED vars
  BY <1>2, <1>4 DEF Reregister, table, pool, DropServer, dispatcher, lineage,
           Tick, vars
<1>5. ASSUME NEW t \in Triggers, Register(t)
      PROVE  StaleInv'
  BY <1>5 DEF IInv, StaleInv, Enabled, Register, dispatcher, lineage, Gated,
           Holding, Loaded, Enabled, TableOK, PoolOK
<1>6. ASSUME NEW t \in Triggers, Delete(t)
      PROVE  StaleInv'
  BY <1>6 DEF IInv, StaleInv, Enabled, Delete, pool, dispatcher, lineage,
           Gated, Holding, Loaded, Enabled, TableOK, PoolOK
<1>7. ASSUME NEW t \in Triggers, NEW on \in BOOLEAN, SetEnabled(t, on)
      PROVE  StaleInv'
  BY <1>7 DEF IInv, StaleInv, Enabled, SetEnabled, pool, dispatcher, lineage,
           Gated, Holding, Loaded, Enabled, TableOK, PoolOK
<1>8. CASE Receive
  BY <1>8 DEF IInv, StaleInv, Enabled, Receive, table, Still, pool, lineage,
           Gated, Holding, Loaded, Enabled
<1>9. CASE DropEvent
  BY <1>9 DEF IInv, StaleInv, Enabled, DropEvent, Continue, Still, table, pool,
           lineage, Gated, Holding, Loaded, Enabled
<1>10. CASE LoadTrigger
  BY <1>10 DEF IInv, StaleInv, Enabled, LoadTrigger, table, Still, pool,
           lineage, Gated, Holding, Loaded, Enabled
<1>11. CASE Predicate
  BY <1>11 DEF IInv, StaleInv, Enabled, Predicate, table, Still, pool, lineage,
           GoRecord, Gated, Holding, Loaded, Enabled
<1>12. CASE CheckDedup
  BY <1>12 DEF IInv, StaleInv, Enabled, CheckDedup, table, Still, pool,
           lineage, GoRecord, Gated, Holding, Loaded, Enabled
<1>13. CASE CheckDedupFails
  BY <1>13 DEF IInv, StaleInv, Enabled, CheckDedupFails, table, Still, pool,
           lineage, Gated, Holding, Loaded, Enabled
<1>14. CASE Resolve
  BY <1>14 DEF IInv, StaleInv, Enabled, Resolve, table, Still, pool, lineage,
           Gated, Holding, Loaded, Enabled
<1>15. CASE ResolveFails
  BY <1>15 DEF IInv, StaleInv, Enabled, ResolveFails, table, Still, pool,
           lineage, Gated, Holding, Loaded, Enabled
<1>16. CASE StartRun
  BY <1>16 DEF IInv, StaleInv, Enabled, StartRun, table, Still, pool, lineage,
           Gated, Holding, Loaded, Enabled
<1>17. CASE RefuseRun
  BY <1>17 DEF IInv, StaleInv, Enabled, RefuseRun, table, Still, pool, lineage,
           GoRecord, Gated, Holding, Loaded, Enabled
<1>18. CASE Exit \/ CheckDedupPanics
  BY <1>18 DEF IInv, StaleInv, Enabled, Exit, CheckDedupPanics, TaskEnds, table, Still, pool, lineage,
           Gated, Holding, Loaded, Enabled
<1>19. CASE EndRun
  BY <1>19 DEF IInv, StaleInv, Enabled, EndRun, table, Still, pool, lineage,
           GoRecord, Gated, Holding, Loaded, Enabled
<1>20. CASE Record
  BY <1>20 DEF IInv, StaleInv, Enabled, Record, InsertEvent, Continue, Still,
           pool, lineage, Gated, Holding, Loaded, Enabled
<1>21. CASE RecordTorn
  BY <1>21 DEF IInv, StaleInv, Enabled, RecordTorn, InsertEvent, Continue,
           Still, pool, lineage, Gated, Holding, Loaded, Enabled
<1>22. CASE RecordFails
  BY <1>22 DEF IInv, StaleInv, Enabled, RecordFails, Continue, Still, table,
           pool, lineage, Gated, Holding, Loaded, Enabled
<1>23. CASE RecvClosed
  BY <1>23 DEF IInv, StaleInv, Enabled, RecvClosed, table, Still, pool,
           lineage, Gated, Holding, Loaded, Enabled
<1>24. CASE Restart
  BY <1>24 DEF IInv, StaleInv, Enabled, Restart, table, lineage, Gated,
           Holding, Loaded, Enabled
<1>25. QED
  BY <1>3, <1>4, <1>5, <1>6, <1>7, <1>8, <1>9, <1>10, <1>11, <1>12, <1>13,
     <1>14, <1>15, <1>16, <1>17, <1>18, <1>19, <1>20, <1>21, <1>22, <1>23,
     <1>24
     DEF Next, Tools, Dispatch

(* The version resolved is one the lineage had since the event was taken.  *)
LEMMA SeenStep == IInv /\ [Next]_vars => SeenInv'
<1> SUFFICES ASSUME IInv, [Next]_vars PROVE SeenInv'
  OBVIOUS
<1>2. ASSUME UNCHANGED <<current, pc, ev, seen, target, faulted>>
      PROVE  SeenInv'
  BY <1>2 DEF IInv, SeenInv, FreshTarget
<1>3. ASSUME NEW t \in Triggers, NEW on \in BOOLEAN,
             Register(t) \/ SpawnWorker(t) \/ Delete(t) \/ DeleteTorn(t) \/ SetEnabled(t, on) \/ Fire(t) \/ WorkerExits(t)
      PROVE  SeenInv'
  BY <1>2, <1>3 DEF Register, dispatcher, lineage, SpawnWorker, table, Delete,
           pool, DeleteTorn, SetEnabled, Fire, WorkerExits
<1>4. CASE DropServer \/ Tick \/ UNCHANGED vars
  BY <1>2, <1>4 DEF DropServer, table, pool, dispatcher, lineage, Tick, vars
<1>5. CASE Reregister
  BY <1>5 DEF IInv, SeenInv, FreshTarget, Reregister, Ended, table, pool,
           Gated, Holding, Loaded
<1>6. CASE Receive
  BY <1>6 DEF IInv, SeenInv, FreshTarget, Receive, table, Still, pool, lineage,
           Gated, Holding, Loaded
<1>7. CASE DropEvent
  BY <1>7 DEF IInv, SeenInv, FreshTarget, DropEvent, Continue, Still, table,
           pool, lineage, Gated, Holding, Loaded
<1>8. CASE LoadTrigger
  BY <1>8 DEF IInv, SeenInv, FreshTarget, LoadTrigger, table, Still, pool,
           lineage, Gated, Holding, Loaded
<1>9. CASE Predicate
  BY <1>9 DEF IInv, SeenInv, FreshTarget, Predicate, table, Still, pool,
           lineage, GoRecord, Gated, Holding, Loaded
<1>10. CASE CheckDedup
  BY <1>10 DEF IInv, SeenInv, FreshTarget, CheckDedup, table, Still, pool,
           lineage, GoRecord, Gated, Holding, Loaded
<1>11. CASE CheckDedupFails
  BY <1>11 DEF IInv, SeenInv, FreshTarget, CheckDedupFails, table, Still, pool,
           lineage, Gated, Holding, Loaded
<1>12. CASE Resolve
  <2>1. /\ current[LineOf[ev.trigger]] \in seen
        /\ current[LineOf[ev.trigger]] \in Versions \cup {Unborn, Dormant}
    BY <1>12, DispatchAssumption DEF Resolve, IInv, SeenInv, LineageOK, DispatcherOK,
       Event, Holding, Loaded, Gated
  <2>2. target' = IF current[LineOf[ev.trigger]] \in Versions
                  THEN current[LineOf[ev.trigger]] ELSE Pinned[ev.trigger]
    BY <1>12 DEF Resolve
  <2>3. UNCHANGED <<seen, ev, current>>
    BY <1>12 DEF Resolve, Still, lineage
  <2>4. QED
    BY <2>1, <2>2, <2>3 DEF SeenInv, FreshTarget
<1>13. CASE ResolveFails
  BY <1>13 DEF IInv, SeenInv, FreshTarget, ResolveFails, table, Still, pool,
           lineage, Gated, Holding, Loaded
<1>14. CASE StartRun
  BY <1>14 DEF IInv, SeenInv, FreshTarget, StartRun, table, Still, pool,
           lineage, Gated, Holding, Loaded
<1>15. CASE RefuseRun
  BY <1>15 DEF IInv, SeenInv, FreshTarget, RefuseRun, table, Still, pool,
           lineage, GoRecord, Gated, Holding, Loaded
<1>16. CASE Exit \/ CheckDedupPanics
  BY <1>16 DEF IInv, SeenInv, FreshTarget, Exit, CheckDedupPanics, TaskEnds, table, Still, pool, lineage,
           Gated, Holding, Loaded
<1>17. CASE EndRun
  BY <1>17 DEF IInv, SeenInv, FreshTarget, EndRun, table, Still, pool, lineage,
           GoRecord, Gated, Holding, Loaded
<1>18. CASE Record
  BY <1>18 DEF IInv, SeenInv, FreshTarget, Record, InsertEvent, Continue,
           Still, pool, lineage, Gated, Holding, Loaded
<1>19. CASE RecordTorn
  BY <1>19 DEF IInv, SeenInv, FreshTarget, RecordTorn, InsertEvent, Continue,
           Still, pool, lineage, Gated, Holding, Loaded
<1>20. CASE RecordFails
  BY <1>20 DEF IInv, SeenInv, FreshTarget, RecordFails, Continue, Still, table,
           pool, lineage, Gated, Holding, Loaded
<1>21. CASE RecvClosed
  BY <1>21 DEF IInv, SeenInv, FreshTarget, RecvClosed, table, Still, pool,
           lineage, Gated, Holding, Loaded
<1>22. CASE Restart
  BY <1>22 DEF IInv, SeenInv, FreshTarget, Restart, table, lineage, Gated,
           Holding, Loaded
<1>23. QED
  BY <1>3, <1>4, <1>5, <1>6, <1>7, <1>8, <1>9, <1>10, <1>11, <1>12, <1>13,
     <1>14, <1>15, <1>16, <1>17, <1>18, <1>19, <1>20, <1>21, <1>22
     DEF Next, Tools, Dispatch

(* Every run that counts left its row.                                     *)
LEMMA LogStep == IInv /\ [Next]_vars => LogInv'
<1> SUFFICES ASSUME IInv, [Next]_vars PROVE LogInv'
  OBVIOUS
<1>2. ASSUME UNCHANGED <<lastRun, log>>
      PROVE  LogInv'
  BY <1>2 DEF IInv, LogInv
<1>3. ASSUME NEW t \in Triggers, NEW on \in BOOLEAN,
             Register(t) \/ SpawnWorker(t) \/ SetEnabled(t, on) \/ Fire(t) \/ WorkerExits(t)
      PROVE  LogInv'
  BY <1>2, <1>3 DEF Register, dispatcher, lineage, SpawnWorker, table,
           SetEnabled, pool, Fire, WorkerExits
<1>4. CASE Reregister \/ Receive \/ DropEvent \/ LoadTrigger \/ Predicate
          \/ CheckDedup \/ CheckDedupFails \/ CheckDedupPanics \/ Resolve \/ ResolveFails
          \/ StartRun \/ RefuseRun \/ Exit \/ EndRun \/ RecvClosed
          \/ DropServer \/ Tick \/ UNCHANGED vars
  BY <1>2, <1>4 DEF Reregister, table, pool, Receive, Still, lineage,
           DropEvent, Continue, LoadTrigger, Predicate, GoRecord, CheckDedup,
           CheckDedupFails, Resolve, ResolveFails, StartRun, RefuseRun, Exit, CheckDedupPanics, TaskEnds,
           EndRun, RecvClosed, DropServer, dispatcher, Tick, vars
<1>5. ASSUME NEW t \in Triggers, Delete(t)
      PROVE  LogInv'
  <2>1. \A u \in Triggers, k \in Keys :
          IF u = t THEN lastRun'[u][k] = None
                   ELSE lastRun'[u][k] = lastRun[u][k] /\ log'[u] = log[u]
    BY <1>5 DEF Delete, IInv, TableOK
  <2>2. QED
    BY <2>1 DEF IInv, LogInv
<1>6. ASSUME NEW t \in Triggers, DeleteTorn(t)
      PROVE  LogInv'
  <2>1. \A u \in Triggers, k \in Keys :
          IF u = t THEN lastRun'[u][k] = None
                   ELSE lastRun'[u][k] = lastRun[u][k] /\ log'[u] = log[u]
    BY <1>6 DEF DeleteTorn, IInv, TableOK
  <2>2. QED
    BY <2>1 DEF IInv, LogInv
<1>7. CASE Record
  <2>1. /\ ev.trigger \in Triggers /\ ev.key \in Keys /\ now \in Nat
        /\ log \in [Triggers -> SUBSET Entry]
        /\ lastRun \in [Triggers -> [Keys -> {None} \cup Nat]]
    BY <1>7 DEF Record, InsertEvent, IInv, TableOK, DispatcherOK, Event, Holding, Loaded
  <2> DEFINE entry == [key |-> ev.key, stamp |-> Stamp(now), verdict |-> verdict]
  <2>2. log' = [log EXCEPT ![ev.trigger] = log[ev.trigger] \cup {entry}]
    BY <1>7 DEF Record, InsertEvent
  <2>3. entry.key = ev.key /\ entry.stamp = Stamp(now)
    OBVIOUS
  <2>4. \A t \in Triggers : log[t] \subseteq log'[t]
    BY <2>1, <2>2
  <2>5. entry \in log'[ev.trigger]
    BY <2>1, <2>2
  <2>6. ASSUME NEW t \in Triggers, NEW k \in Keys
        PROVE  \/ lastRun'[t][k] = lastRun[t][k]
               \/ t = ev.trigger /\ k = ev.key /\ lastRun'[t][k] = now
    BY <1>7, <2>1 DEF Record, InsertEvent
  <2> HIDE DEF entry
  <2>7. QED
    BY <2>3, <2>4, <2>5, <2>6 DEF IInv, LogInv
<1>8. CASE RecordTorn
  <2>1. /\ ev.trigger \in Triggers /\ ev.key \in Keys /\ now \in Nat
        /\ log \in [Triggers -> SUBSET Entry]
        /\ lastRun \in [Triggers -> [Keys -> {None} \cup Nat]]
    BY <1>8 DEF RecordTorn, InsertEvent, IInv, TableOK, DispatcherOK, Event, Holding, Loaded
  <2> DEFINE entry == [key |-> ev.key, stamp |-> Stamp(now), verdict |-> verdict]
  <2>2. log' = [log EXCEPT ![ev.trigger] = log[ev.trigger] \cup {entry}]
    BY <1>8 DEF RecordTorn, InsertEvent
  <2>3. entry.key = ev.key /\ entry.stamp = Stamp(now)
    OBVIOUS
  <2>4. \A t \in Triggers : log[t] \subseteq log'[t]
    BY <2>1, <2>2
  <2>5. entry \in log'[ev.trigger]
    BY <2>1, <2>2
  <2>6. ASSUME NEW t \in Triggers, NEW k \in Keys
        PROVE  \/ lastRun'[t][k] = lastRun[t][k]
               \/ t = ev.trigger /\ k = ev.key /\ lastRun'[t][k] = now
    BY <1>8, <2>1 DEF RecordTorn, InsertEvent
  <2> HIDE DEF entry
  <2>7. QED
    BY <2>3, <2>4, <2>5, <2>6 DEF IInv, LogInv
<1>9. CASE RecordFails
  <2>1. UNCHANGED log
    BY <1>9 DEF RecordFails, table
  <2>2. \A t \in Triggers, k \in Keys :
          lastRun'[t][k] = lastRun[t][k] \/ lastRun'[t][k] = None
    BY <1>9 DEF RecordFails, Forget, IInv, TableOK, DispatcherOK, Event, Holding, Loaded
  <2>3. QED
    BY <2>1, <2>2 DEF IInv, LogInv
<1>10. CASE Restart
  BY <1>10 DEF IInv, LogInv, Restart, table, lineage, TableOK, DispatcherOK,
           Event, Holding, Loaded
<1>11. QED
  BY <1>3, <1>4, <1>5, <1>6, <1>7, <1>8, <1>9, <1>10
     DEF Next, Tools, Dispatch

(* The window stays over.                                                  *)
LEMMA DedupStep == IInv /\ [Next]_vars => DedupInv'
<1> SUFFICES ASSUME IInv, [Next]_vars PROVE DedupInv'
  OBVIOUS
<1>2. ASSUME UNCHANGED <<pc, ev, trig, faulted, lastRun, now>>
      PROVE  DedupInv'
  BY <1>2 DEF IInv, DedupInv, Deduplicated
<1>3. ASSUME NEW t \in Triggers, NEW on \in BOOLEAN,
             Register(t) \/ SpawnWorker(t) \/ SetEnabled(t, on) \/ Fire(t) \/ WorkerExits(t)
      PROVE  DedupInv'
  BY <1>2, <1>3 DEF Register, dispatcher, lineage, SpawnWorker, table,
           SetEnabled, pool, Fire, WorkerExits
<1>4. CASE Reregister \/ DropServer \/ UNCHANGED vars
  BY <1>2, <1>4 DEF Reregister, table, pool, DropServer, dispatcher, lineage,
           vars
<1>5. ASSUME NEW t \in Triggers, Delete(t)
      PROVE  DedupInv'
  <2>1. UNCHANGED <<pc, ev, trig, faulted, now>>
    BY <1>5 DEF Delete, dispatcher
  <2>2. pc \in {"resolve", "run"} => ev \in Event
    BY DEF IInv, DispatcherOK, Holding, Loaded, Gated
  <2>3. \A u \in Triggers, k \in Keys :
          lastRun'[u][k] = lastRun[u][k] \/ lastRun'[u][k] = None
    BY <1>5 DEF Delete, IInv, TableOK
  <2>4. QED
    BY <2>1, <2>2, <2>3 DEF IInv, DedupInv, Deduplicated, Event
<1>6. ASSUME NEW t \in Triggers, DeleteTorn(t)
      PROVE  DedupInv'
  <2>1. UNCHANGED <<pc, ev, trig, faulted, now>>
    BY <1>6 DEF DeleteTorn, dispatcher
  <2>2. pc \in {"resolve", "run"} => ev \in Event
    BY DEF IInv, DispatcherOK, Holding, Loaded, Gated
  <2>3. \A u \in Triggers, k \in Keys :
          lastRun'[u][k] = lastRun[u][k] \/ lastRun'[u][k] = None
    BY <1>6 DEF DeleteTorn, IInv, TableOK
  <2>4. QED
    BY <2>1, <2>2, <2>3 DEF IInv, DedupInv, Deduplicated, Event
<1>7. CASE Receive
  BY <1>7 DEF IInv, DedupInv, Deduplicated, Receive, table, Still, pool,
           lineage
<1>8. CASE DropEvent
  BY <1>8 DEF IInv, DedupInv, Deduplicated, DropEvent, Continue, Still, table,
           pool, lineage
<1>9. CASE LoadTrigger
  BY <1>9 DEF IInv, DedupInv, Deduplicated, LoadTrigger, table, Still, pool,
           lineage
<1>10. CASE Predicate
  BY <1>10 DEF IInv, DedupInv, Deduplicated, Predicate, table, Still, pool,
           lineage, GoRecord
<1>11. CASE CheckDedup
  <2>1. /\ ev.trigger \in Triggers /\ ev.key \in Keys /\ now \in Nat /\ trig.window \in Nat
        /\ lastRun[ev.trigger][ev.key] \in {None} \cup Nat
    BY <1>11, DispatchAssumption DEF CheckDedup, IInv, TableOK, DispatcherOK, Event, TriggerRow,
       Holding, Loaded, Gated
  <2>2. UNCHANGED <<ev, trig, faulted, lastRun, now>>
    BY <1>11 DEF CheckDedup, Still
  <2>3. SUFFICES ASSUME pc' \in {"resolve", "run"}, Deduplicated,
                        lastRun[ev.trigger][ev.key] # None
                 PROVE  now > lastRun[ev.trigger][ev.key] + trig.window
    BY <2>2 DEF DedupInv, Deduplicated
  <2>4. ~DedupHit(ev.trigger, ev.key, trig.window)
    BY <1>11, <2>3 DEF CheckDedup, GoRecord
  <2>5. PICK last \in Nat : last = lastRun[ev.trigger][ev.key]
    BY <2>1, <2>3
  <2>6. PICK e \in log[ev.trigger] : e.key = ev.key /\ e.stamp = Stamp(last)
    BY <2>1, <2>3, <2>5 DEF IInv, LogInv
  <2>7. ~(Stamp(last) >= Stamp(now - trig.window))
    BY <2>4, <2>6 DEF DedupHit
  <2>8. now - trig.window \in Int
    BY <2>1
  <2>9. Stamp(last) < Stamp(now - trig.window)
    BY <2>7, <2>8, DivBounds
  <2>10. last < now - trig.window
    BY <2>8, <2>9, EarlierSecond
  <2>11. QED
    BY <2>1, <2>5, <2>10
<1>12. CASE CheckDedupFails
  BY <1>12 DEF IInv, DedupInv, Deduplicated, CheckDedupFails, table, Still,
           pool, lineage
<1>13. CASE Resolve
  BY <1>13 DEF IInv, DedupInv, Deduplicated, Resolve, table, Still, pool,
           lineage
<1>14. CASE ResolveFails
  BY <1>14 DEF IInv, DedupInv, Deduplicated, ResolveFails, table, Still, pool,
           lineage
<1>15. CASE StartRun
  BY <1>15 DEF IInv, DedupInv, Deduplicated, StartRun, table, Still, pool,
           lineage
<1>16. CASE RefuseRun
  BY <1>16 DEF IInv, DedupInv, Deduplicated, RefuseRun, table, Still, pool,
           lineage, GoRecord
<1>17. CASE Exit \/ CheckDedupPanics
  BY <1>17 DEF IInv, DedupInv, Deduplicated, Exit, CheckDedupPanics, TaskEnds, table, Still, pool, lineage
<1>18. CASE EndRun
  BY <1>18 DEF IInv, DedupInv, Deduplicated, EndRun, table, Still, pool,
           lineage, GoRecord
<1>19. CASE Record
  BY <1>19 DEF IInv, DedupInv, Deduplicated, Record, InsertEvent, Continue,
           Still, pool, lineage
<1>20. CASE RecordTorn
  BY <1>20 DEF IInv, DedupInv, Deduplicated, RecordTorn, InsertEvent, Continue,
           Still, pool, lineage
<1>21. CASE RecordFails
  BY <1>21 DEF IInv, DedupInv, Deduplicated, RecordFails, Continue, Still,
           table, pool, lineage
<1>22. CASE RecvClosed
  BY <1>22 DEF IInv, DedupInv, Deduplicated, RecvClosed, table, Still, pool,
           lineage
<1>23. CASE Restart
  BY <1>23 DEF IInv, DedupInv, Deduplicated, Restart, table, lineage
<1>24. CASE Tick
  <2>1. UNCHANGED <<pc, ev, trig, faulted, lastRun>> /\ now' = now + 1
    BY <1>24 DEF Tick, dispatcher
  <2>2. SUFFICES ASSUME pc \in {"resolve", "run"}, Deduplicated, ~faulted,
                        lastRun[ev.trigger][ev.key] # None
                 PROVE  now' > lastRun[ev.trigger][ev.key] + trig.window
    BY <2>1 DEF DedupInv, Deduplicated
  <2>3. /\ now \in Nat /\ trig.window \in Nat
        /\ lastRun[ev.trigger][ev.key] \in Nat
    BY <2>2, DispatchAssumption DEF IInv, TableOK, DispatcherOK, Event, TriggerRow,
       Holding, Loaded, Gated
  <2>4. now > lastRun[ev.trigger][ev.key] + trig.window
    BY <2>2 DEF IInv, DedupInv
  <2>5. QED
    BY <2>1, <2>3, <2>4
<1>25. QED
  BY <1>3, <1>4, <1>5, <1>6, <1>7, <1>8, <1>9, <1>10, <1>11, <1>12, <1>13,
     <1>14, <1>15, <1>16, <1>17, <1>18, <1>19, <1>20, <1>21, <1>22, <1>23,
     <1>24
     DEF Next, Tools, Dispatch

(* The last fire stays in the past.                                        *)
LEMMA FiredStep == IInv /\ [Next]_vars => FiredInv'
<1> SUFFICES ASSUME IInv, [Next]_vars PROVE FiredInv'
  OBVIOUS
<1>2. ASSUME UNCHANGED <<row, now>>
      PROVE  FiredInv'
  BY <1>2 DEF IInv, FiredInv
<1>3. ASSUME NEW t \in Triggers, NEW on \in BOOLEAN,
             SpawnWorker(t) \/ DeleteTorn(t) \/ Fire(t) \/ WorkerExits(t)
      PROVE  FiredInv'
  BY <1>2, <1>3 DEF SpawnWorker, table, dispatcher, lineage, DeleteTorn, pool,
           Fire, WorkerExits
<1>4. CASE Reregister \/ Receive \/ DropEvent \/ LoadTrigger \/ Predicate
          \/ CheckDedup \/ CheckDedupFails \/ CheckDedupPanics \/ Resolve \/ ResolveFails
          \/ StartRun \/ RefuseRun \/ Exit \/ EndRun \/ RecordTorn
          \/ RecordFails \/ RecvClosed \/ DropServer \/ Restart
          \/ UNCHANGED vars
  BY <1>2, <1>4 DEF Reregister, table, pool, Receive, Still, lineage,
           DropEvent, Continue, LoadTrigger, Predicate, GoRecord, CheckDedup,
           CheckDedupFails, Resolve, ResolveFails, StartRun, RefuseRun, Exit, CheckDedupPanics, TaskEnds,
           EndRun, RecordTorn, InsertEvent, RecordFails, RecvClosed,
           DropServer, dispatcher, Restart, vars
<1>5. ASSUME NEW t \in Triggers, Register(t)
      PROVE  FiredInv'
  BY <1>5 DEF IInv, FiredInv, Register, dispatcher, lineage, TableOK
<1>6. ASSUME NEW t \in Triggers, Delete(t)
      PROVE  FiredInv'
  BY <1>6 DEF IInv, FiredInv, Delete, pool, dispatcher, lineage, TableOK
<1>7. ASSUME NEW t \in Triggers, NEW on \in BOOLEAN, SetEnabled(t, on)
      PROVE  FiredInv'
  BY <1>7 DEF IInv, FiredInv, SetEnabled, pool, dispatcher, lineage, TableOK
<1>8. CASE Record
  <2>1. ev.trigger \in Triggers /\ now \in Nat /\ UNCHANGED now
        /\ row \in [Triggers -> {None} \cup TriggerRow] /\ row[ev.trigger] # None
    BY <1>8 DEF Record, InsertEvent, Continue, Still, IInv, TableOK, DispatcherOK, Event,
             Holding, Loaded
  <2>2. Stamp(now) \in Nat
    BY <2>1, StampType
  <2>3. ASSUME NEW t \in Triggers, row'[t] # None, row'[t].last # None
        PROVE  row'[t].last <= Stamp(now)
    <3>1. CASE row'[t] = row[t]
      BY <2>3, <3>1 DEF IInv, FiredInv
    <3>2. CASE row'[t] # row[t]
      <4>1. t = ev.trigger /\ row'[t] = [row[t] EXCEPT !.last = Stamp(now)]
        BY <1>8, <2>1, <3>2 DEF Record
      <4>2. row[t] \in TriggerRow
        BY <2>1, <4>1
      <4>3. row'[t].last = Stamp(now)
        BY <4>1, <4>2 DEF TriggerRow
      <4>4. QED
        BY <2>2, <4>3
    <3>3. QED
      BY <3>1, <3>2
  <2>4. QED
    BY <2>1, <2>3 DEF FiredInv
<1>9. CASE Tick
  <2>1. now \in Nat /\ now' = now + 1 /\ UNCHANGED row
    BY <1>9 DEF Tick, table, IInv, TableOK
  <2>2. Stamp(now) \in Int /\ Stamp(now') \in Int /\ Stamp(now) <= Stamp(now')
    BY <2>1, StampGrows
  <2>3. \A t \in Triggers : row[t] # None /\ row[t].last # None => row[t].last \in Nat
    BY DEF IInv, TableOK, TriggerRow
  <2>4. Stamp(now)' = Stamp(now')
    BY DEF Stamp
  <2>5. QED
    BY <2>1, <2>2, <2>3, <2>4 DEF IInv, FiredInv
<1>10. QED
  BY <1>3, <1>4, <1>5, <1>6, <1>7, <1>8, <1>9
     DEF Next, Tools, Dispatch

(* Workers and registrations keep step.                                    *)
LEMMA WorkersStep == IInv /\ [Next]_vars => OneWorkerPerRegistration'
<1> USE DEF Ended
<1> SUFFICES ASSUME IInv, [Next]_vars PROVE OneWorkerPerRegistration'
  OBVIOUS
<1>2. ASSUME UNCHANGED <<workers, spawning, born, pc>>
      PROVE  OneWorkerPerRegistration'
  BY <1>2 DEF IInv, OneWorkerPerRegistration
<1>3. ASSUME NEW t \in Triggers, NEW on \in BOOLEAN,
             Delete(t) \/ DeleteTorn(t) \/ SetEnabled(t, on) \/ Fire(t)
      PROVE  OneWorkerPerRegistration'
  BY <1>2, <1>3 DEF Delete, pool, dispatcher, lineage, DeleteTorn, SetEnabled,
           Fire, table
<1>4. CASE Reregister \/ DropServer \/ Tick \/ UNCHANGED vars
  BY <1>2, <1>4 DEF Reregister, table, pool, DropServer, dispatcher, lineage,
           Tick, vars
<1>5. ASSUME NEW t \in Triggers, Register(t)
      PROVE  OneWorkerPerRegistration'
  BY <1>5 DEF IInv, OneWorkerPerRegistration, Register, dispatcher, lineage,
           PoolOK
<1>6. ASSUME NEW t \in Triggers, SpawnWorker(t)
      PROVE  OneWorkerPerRegistration'
  BY <1>6 DEF IInv, OneWorkerPerRegistration, SpawnWorker, table, dispatcher,
           lineage, PoolOK
<1>7. ASSUME NEW t \in Triggers, WorkerExits(t)
      PROVE  OneWorkerPerRegistration'
  BY <1>7 DEF IInv, OneWorkerPerRegistration, WorkerExits, table, dispatcher,
           lineage, PoolOK
<1>8. CASE Receive
  BY <1>8 DEF IInv, OneWorkerPerRegistration, Receive, table, Still, pool,
           lineage, PoolOK
<1>9. CASE DropEvent
  BY <1>9 DEF IInv, OneWorkerPerRegistration, DropEvent, Continue, Still,
           table, pool, lineage, PoolOK
<1>10. CASE LoadTrigger
  BY <1>10 DEF IInv, OneWorkerPerRegistration, LoadTrigger, table, Still, pool,
           lineage, PoolOK
<1>11. CASE Predicate
  BY <1>11 DEF IInv, OneWorkerPerRegistration, Predicate, table, Still, pool,
           lineage, GoRecord, PoolOK
<1>12. CASE CheckDedup
  BY <1>12 DEF IInv, OneWorkerPerRegistration, CheckDedup, table, Still, pool,
           lineage, GoRecord, PoolOK
<1>13. CASE CheckDedupFails
  BY <1>13 DEF IInv, OneWorkerPerRegistration, CheckDedupFails, table, Still,
           pool, lineage, PoolOK
<1>14. CASE Resolve
  BY <1>14 DEF IInv, OneWorkerPerRegistration, Resolve, table, Still, pool,
           lineage, PoolOK
<1>15. CASE ResolveFails
  BY <1>15 DEF IInv, OneWorkerPerRegistration, ResolveFails, table, Still,
           pool, lineage, PoolOK
<1>16. CASE StartRun
  BY <1>16 DEF IInv, OneWorkerPerRegistration, StartRun, table, Still, pool,
           lineage, PoolOK
<1>17. CASE RefuseRun
  BY <1>17 DEF IInv, OneWorkerPerRegistration, RefuseRun, table, Still, pool,
           lineage, GoRecord, PoolOK
<1>18. CASE Exit \/ CheckDedupPanics
  BY <1>18 DEF IInv, OneWorkerPerRegistration, Exit, CheckDedupPanics, TaskEnds, table, Still, pool,
           lineage, PoolOK
<1>19. CASE EndRun
  BY <1>19 DEF IInv, OneWorkerPerRegistration, EndRun, table, Still, pool,
           lineage, GoRecord, PoolOK
<1>20. CASE Record
  BY <1>20 DEF IInv, OneWorkerPerRegistration, Record, InsertEvent, Continue,
           Still, pool, lineage, PoolOK
<1>21. CASE RecordTorn
  BY <1>21 DEF IInv, OneWorkerPerRegistration, RecordTorn, InsertEvent,
           Continue, Still, pool, lineage, PoolOK
<1>22. CASE RecordFails
  BY <1>22 DEF IInv, OneWorkerPerRegistration, RecordFails, Continue, Still,
           table, pool, lineage, PoolOK
<1>23. CASE RecvClosed
  BY <1>23 DEF IInv, OneWorkerPerRegistration, RecvClosed, table, Still, pool,
           lineage, PoolOK
<1>24. CASE Restart
  <2>1. /\ workers' = [t \in Triggers |-> AtBoot(t)] /\ born' = workers'
        /\ spawning' = [t \in Triggers |-> 0]
    BY <1>24 DEF Restart
  <2>2. \A t \in Triggers : AtBoot(t) \in Nat
    BY DEF AtBoot
  <2>3. \A t \in Triggers : workers'[t] + spawning'[t] = born'[t]
    BY <2>1, <2>2
  <2>4. QED
    BY <2>3, DispatchAssumption DEF OneWorkerPerRegistration
<1>25. QED
  BY <1>3, <1>4, <1>5, <1>6, <1>7, <1>8, <1>9, <1>10, <1>11, <1>12, <1>13,
     <1>14, <1>15, <1>16, <1>17, <1>18, <1>19, <1>20, <1>21, <1>22, <1>23,
     <1>24
     DEF Next, Tools, Dispatch

LEMMA InitOK == Init => IInv
<1> SUFFICES ASSUME Init PROVE IInv
  OBVIOUS
<1>1. \A t \in Triggers : AtBoot(t) \in Nat
  BY DEF AtBoot
<1>2. TableOK
  BY DEF Init, TableOK, TriggerRow
<1>3. PoolOK
  BY <1>1 DEF Init, PoolOK
<1>4. DispatcherOK
  BY DEF Init, DispatcherOK, Holding, Loaded, Gated
<1>5. LineageOK
  BY DEF Init, LineageInit, LineageOK
<1>6. StaleInv
  BY DEF Init, StaleInv, Gated
<1>7. SeenInv
  BY DEF Init, SeenInv, FreshTarget, Holding, Loaded, Gated
<1>8. LogInv
  BY DEF Init, LogInv
<1>9. DedupInv
  BY DEF Init, DedupInv
<1>10. FiredInv
  BY DEF Init, FiredInv
<1>11. OneWorkerPerRegistration
  <2>1. \A t \in Triggers : workers[t] \in Nat /\ spawning[t] = 0 /\ born[t] = workers[t]
    BY <1>1 DEF Init
  <2>2. QED
    BY <2>1, DispatchAssumption DEF OneWorkerPerRegistration
<1>12. QED
  BY <1>2, <1>3, <1>4, <1>5, <1>6, <1>7, <1>8, <1>9, <1>10, <1>11 DEF IInv

(* The invariant the properties below follow from.                         *)
THEOREM Invariance == Spec => []IInv
<1>1. IInv /\ [Next]_vars => IInv'
  <2> SUFFICES ASSUME IInv, [Next]_vars PROVE IInv'
    OBVIOUS
  <2>1. TableOK' /\ PoolOK' /\ DispatcherOK' /\ LineageOK'
    BY TableStep, PoolStep, DispatcherStep, LineageStep
  <2>2. StaleInv' /\ SeenInv' /\ LogInv' /\ DedupInv' /\ FiredInv'
    BY StaleStep, SeenStep, LogStep, DedupStep, FiredStep
  <2>3. OneWorkerPerRegistration'
    BY WorkersStep
  <2>4. QED
    BY <2>1, <2>2, <2>3 DEF IInv
<1>2. QED
  BY <1>1, InitOK, PTL DEF Spec

-----------------------------------------------------------------------------
(* A trigger that is off starts at most one more run, of the event whose   *)
(* row was loaded, however much is queued.                                 *)
THEOREM StaleOnce == Spec => []StaleFiresOnce
<1>1. IInv => StaleFiresOnce
  BY DEF IInv, StaleInv, StaleFiresOnce
<1>2. QED
  BY <1>1, Invariance, PTL

(* The version an event runs was the lineage's active one since the event  *)
(* was taken, or the pinned one of a lineage without any.                  *)
THEOREM Fresh == Spec => []FreshTarget
<1>1. IInv => FreshTarget
  BY DEF IInv, SeenInv
<1>2. QED
  BY <1>1, Invariance, PTL

(* One worker, running or about to, per registration that made a row and   *)
(* per row enabled at boot.                                                *)
THEOREM Workers == Spec => []OneWorkerPerRegistration
<1>1. IInv => OneWorkerPerRegistration
  BY DEF IInv
<1>2. QED
  BY <1>1, Invariance, PTL

(* No second run for a dedup key within the window in real time, though    *)
(* the rows are compared in truncated seconds.                             *)
THEOREM NoRepeat == Spec => NoRepeatWithinWindow
<1>1. IInv => [pc = "run" /\ pc' = "running" /\ Deduplicated /\ ~faulted =>
                 LET last == lastRun[ev.trigger][ev.key]
                 IN last = None \/ now > last + trig.window]_vars
  BY DEF IInv, DedupInv
<1>2. QED
  BY <1>1, Invariance, PTL DEF NoRepeatWithinWindow

-----------------------------------------------------------------------------
(* last_fired_at moves only with the record of a run.                      *)
LEMMA OnlyRecordFires ==
  ASSUME IInv, [Next]_vars, NEW t \in Triggers,
         row[t] # None, row'[t] # None, row'[t].last # row[t].last
  PROVE  Record
<1>1. row \in [Triggers -> {None} \cup TriggerRow]
  BY DEF IInv, TableOK
<1>2. row' # row
  OBVIOUS
<1>3. ASSUME NEW u \in Triggers, Register(u) \/ Delete(u) \/ \E on \in BOOLEAN : SetEnabled(u, on)
      PROVE  FALSE
  BY <1>1, <1>3 DEF Register, Delete, SetEnabled, TriggerRow
<1>4. ASSUME NEW u \in Triggers, DeleteTorn(u) \/ SpawnWorker(u) \/ Fire(u) \/ WorkerExits(u)
      PROVE  FALSE
  BY <1>2, <1>4 DEF DeleteTorn, SpawnWorker, Fire, WorkerExits, table
<1>5. CASE Reregister \/ DropServer \/ Restart \/ Tick \/ UNCHANGED vars
  BY <1>2, <1>5 DEF Reregister, DropServer, Restart, Tick, table, vars
<1>6. CASE \/ Receive \/ DropEvent \/ LoadTrigger \/ Predicate \/ CheckDedup
           \/ CheckDedupFails \/ CheckDedupPanics \/ Resolve \/ ResolveFails
           \/ StartRun \/ RefuseRun \/ Exit \/ EndRun \/ RecordTorn \/ RecordFails \/ RecvClosed
  BY <1>2, <1>6 DEF Receive, DropEvent, LoadTrigger, Predicate, CheckDedup,
     CheckDedupFails, Resolve, ResolveFails, StartRun, RefuseRun, Exit, CheckDedupPanics, TaskEnds, EndRun,
     RecordTorn, RecordFails, RecvClosed, table
<1>7. QED
  BY <1>3, <1>4, <1>5, <1>6 DEF Next, Tools, Dispatch

(* last_fired_at moves forward, and only with a row of a run in that       *)
(* second.                                                                 *)
THEOREM LastFired == Spec => LastFiredTruthful
<1>1. ASSUME IInv, [Next]_vars, NEW t \in Triggers,
             row[t] # None, row'[t] # None, row'[t].last # row[t].last
      PROVE  /\ row[t].last = None \/ row[t].last < row'[t].last
             /\ \E e \in log'[t] : e.verdict = "run" /\ e.stamp = row'[t].last
  <2>1. Record
    BY <1>1, OnlyRecordFires
  <2>2. ev.trigger \in Triggers /\ now \in Nat
        /\ row \in [Triggers -> {None} \cup TriggerRow]
        /\ log \in [Triggers -> SUBSET Entry]
    BY <1>1, <2>1 DEF Record, InsertEvent, IInv, TableOK, DispatcherOK, Event, Holding, Loaded
  <2>3. t = ev.trigger /\ verdict = "run" /\ row'[t] = [row[t] EXCEPT !.last = Stamp(now)]
    BY <1>1, <2>1, <2>2 DEF Record
  <2>4. row[t] \in TriggerRow
    BY <1>1, <2>2
  <2>5. row'[t].last = Stamp(now)
    BY <2>3, <2>4 DEF TriggerRow
  <2>6. Stamp(now) \in Nat
    BY <2>2, StampType
  <2>7. row[t].last = None \/ row[t].last < row'[t].last
    <3>1. row[t].last = None \/ (row[t].last \in Nat /\ row[t].last <= Stamp(now))
      BY <1>1, <2>4 DEF IInv, FiredInv, TriggerRow
    <3>2. QED
      BY <1>1, <2>5, <2>6, <3>1
  <2>8. [key |-> ev.key, stamp |-> Stamp(now), verdict |-> verdict] \in log'[t]
    BY <2>1, <2>2, <2>3 DEF Record, InsertEvent
  <2>9. QED
    BY <2>3, <2>5, <2>7, <2>8
<1>2. IInv /\ [Next]_vars =>
        [\A t \in Triggers :
           row[t] # None /\ row'[t] # None /\ row'[t].last # row[t].last =>
             /\ row[t].last = None \/ row[t].last < row'[t].last
             /\ \E e \in log'[t] : e.verdict = "run" /\ e.stamp = row'[t].last]_vars
  BY <1>1
<1>3. QED
  BY <1>2, Invariance, PTL DEF Spec, LastFiredTruthful
===============================================================================
