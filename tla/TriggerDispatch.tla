---------------------------- MODULE TriggerDispatch ----------------------------
(***************************************************************************)
(* Triggers (executor-mcp/src/triggers, executor-state/src/triggers.rs):   *)
(* rows in the database, workers that push events into one bounded         *)
(* channel, and the dispatcher that takes them one at a time, gates them   *)
(* and runs the strategy of the trigger's lineage.  The tools change the   *)
(* rows, and re-registrations change the lineage, at any moment between    *)
(* two steps of the dispatcher; the lineage moves as the contract in       *)
(* Lineage allows, which StrategyRegistry implements.                      *)
(***************************************************************************)
EXTENDS Lineage, Integers, Sequences, FiniteSets

CONSTANTS
  Triggers,       \* trigger ids: hashes of strategy, kind, config, predicate
  LineOf,         \* the lineage of the strategy hashed into the id
  Pinned,         \* that strategy
  KeysOf,         \* the dedup keys a trigger's worker gives its events
  NoKey,          \* an event without one (interval)
  Spawnable,      \* triggers for which WorkerPool::spawn starts a task
  WithPredicate,  \* triggers registered with a predicate
  Windows,        \* dedup_window_ms of registrations as read back, in ticks:
                  \* 0 for none, which a window past an i64 becomes
  MaxWindow,      \* the longest window whose cutoff is still a date of chrono
  Grain,          \* ticks in a second
  Capacity,       \* of the event channel
  MayDrop,        \* whether the server object can go before the process does
  MaxTime, MaxBorn, MaxCrashes,  \* bounds
  None

ASSUME DispatchAssumption ==
  /\ LineOf \in [Triggers -> Lines]
  /\ Pinned \in [Triggers -> Versions]
  /\ Spawnable \subseteq Triggers
  /\ WithPredicate \subseteq Triggers
  /\ Windows \subseteq Nat
  /\ MaxWindow \in Nat
  /\ Grain \in Nat \ {0}
  /\ Capacity \in Nat \ {0}
  /\ MayDrop \in BOOLEAN
  /\ None \notin Versions

VARIABLES
  row,       \* row[t]: the row of t in the triggers table, or None
  log,       \* log[t]: the rows of t in trigger_events
  workers,   \* workers[t]: tasks that watch for t
  spawning,  \* spawning[t]: registrations of t that have yet to spawn the worker
  queue,     \* the channel
  pc,        \* where the dispatcher is
  ev,        \* the event it holds
  trig,      \* the row it loaded
  target,    \* the strategy it resolved
  verdict,   \* the outcome it is about to record
  served,    \* the server has not been dropped
  now,
  crashes,
  born,      \* history: registrations of t, or rows of t started at boot
  stale,     \* history: runs started for t since it was switched off
  seen,      \* history: what the lineage of ev was since ev was taken
  faulted,   \* history: a lookup failed since ev was taken
  lastRun    \* history: when the last recorded run for t and a key ended

table == <<row, log>>
pool == <<workers, spawning, born>>
dispatcher == <<pc, ev, trig, target, verdict, seen, faulted>>
vars == <<row, log, workers, spawning, queue, pc, ev, trig, target, verdict,
          served, now, crashes, born, stale, seen, faulted, lastRun,
          current, past>>

Keys == UNION { KeysOf[t] : t \in Triggers }
Enabled(t) == row[t] # None /\ row[t].enabled
\* The dispatcher's task is over and its channel closed: it returned, or it
\* panicked.
Ended == pc \in {"exited", "panicked"}
Stamp(time) == time \div Grain

\* Slip: a row in the second of the cutoff does not count.
DedupHitSlip(t, key, window) ==
  \E e \in log[t] : e.key = key /\ e.stamp > Stamp(now - window)

\* check_dedup: both sides truncated to the second, every row counts.
DedupHit(t, key, window) ==
  \E e \in log[t] : e.key = key /\ e.stamp >= Stamp(now - window)

\* from_config: an empty channel, and a worker per enabled trigger.
AtBoot(t) == IF Enabled(t) /\ t \in Spawnable THEN 1 ELSE 0

Init ==
  /\ LineageInit
  /\ row \in [Triggers -> {None} \cup
                [enabled : BOOLEAN, window : Windows, last : {None}]]
  /\ \A t \in Triggers : row[t] # None => Pinned[t] \in past[LineOf[t]]
  /\ log = [t \in Triggers |-> {}]
  /\ workers = [t \in Triggers |-> AtBoot(t)]
  /\ born = workers
  /\ spawning = [t \in Triggers |-> 0]
  /\ queue = <<>>
  /\ pc = "recv"
  /\ ev = None /\ trig = None /\ target = None /\ verdict = None
  /\ served = TRUE
  /\ now = 0
  /\ crashes = 0
  /\ stale = [t \in Triggers |-> 0]
  /\ seen = {}
  /\ faulted = FALSE
  /\ lastRun = [t \in Triggers |-> [k \in Keys |-> None]]

-----------------------------------------------------------------------------
(* The tools, and the lineage under them.                                  *)

\* Slip: a registration that finds its row starts a worker too.
RegisterSlip(t) ==
  /\ served
  /\ row[t] # None
  /\ spawning' = [spawning EXCEPT ![t] = @ + 1]
  /\ spawning[t] = 0
  /\ UNCHANGED <<table, workers, born, queue, dispatcher, served, now, crashes, stale,
                 lastRun, lineage>>

\* trigger_register.  A row with that id is left as it is, whatever its
\* state; else it is inserted and the worker spawned in a second step.  The
\* strategy's row is asked for, not whether it is active.
Register(t) ==
  /\ served
  /\ Pinned[t] \in past[LineOf[t]]
  /\ row[t] = None
  /\ born[t] < MaxBorn
  /\ \E window \in Windows :
       row' = [row EXCEPT ![t] = [enabled |-> TRUE, window |-> window, last |-> None]]
  /\ spawning' = [spawning EXCEPT ![t] = @ + 1]
  /\ born' = [born EXCEPT ![t] = @ + 1]
  /\ stale' = [stale EXCEPT ![t] = 0]
  /\ UNCHANGED <<log, workers, queue, dispatcher, served, now, crashes, lastRun, lineage>>

\* WorkerPool::spawn.  A handle kept from an earlier registration is
\* replaced, which detaches its task and does not stop it.
SpawnWorker(t) ==
  /\ spawning[t] > 0
  /\ spawning' = [spawning EXCEPT ![t] = @ - 1]
  /\ workers' = [workers EXCEPT ![t] = IF t \in Spawnable THEN @ + 1 ELSE @]
  /\ UNCHANGED <<table, queue, dispatcher, served, now, crashes, born, stale,
                 lastRun, lineage>>

\* trigger_delete: the row and its events; the worker goes on.
Delete(t) ==
  /\ served
  /\ row[t] # None
  /\ row' = [row EXCEPT ![t] = None]
  /\ log' = [log EXCEPT ![t] = {}]
  /\ lastRun' = [lastRun EXCEPT ![t] = [k \in Keys |-> None]]
  /\ UNCHANGED <<pool, queue, dispatcher, served, now, crashes, stale, lineage>>

\* The events go, the row does not.
DeleteTorn(t) ==
  /\ served
  /\ row[t] # None
  /\ log' = [log EXCEPT ![t] = {}]
  /\ lastRun' = [lastRun EXCEPT ![t] = [k \in Keys |-> None]]
  /\ UNCHANGED <<row, pool, queue, dispatcher, served, now, crashes, stale, lineage>>

\* trigger_set_enabled: the row, and nothing of the worker.
SetEnabled(t, on) ==
  /\ served
  /\ row[t] # None
  /\ row' = [row EXCEPT ![t].enabled = on]
  /\ stale' = [stale EXCEPT ![t] = IF on THEN 0 ELSE @]
  /\ UNCHANGED <<log, pool, queue, dispatcher, served, now, crashes, lastRun, lineage>>

\* strategy_register and strategy_delete.
Reregister ==
  /\ served
  /\ LineageNext
  /\ seen' = IF pc = "recv" \/ Ended THEN {}
             ELSE seen \cup {current'[LineOf[ev.trigger]]}
  /\ UNCHANGED <<table, pool, queue, pc, ev, trig, target, verdict, faulted, served,
                 now, crashes, stale, lastRun>>

-----------------------------------------------------------------------------
(* The workers: try_send, which drops the event when the channel is full.  *)
Fire(t) ==
  /\ workers[t] > 0
  /\ ~Ended
  /\ Len(queue) < Capacity
  /\ \E k \in KeysOf[t] : queue' = Append(queue, [trigger |-> t, key |-> k])
  /\ UNCHANGED <<table, pool, dispatcher, served, now, crashes, stale, lastRun, lineage>>

\* The channel is closed: the worker returns.
WorkerExits(t) ==
  /\ workers[t] > 0
  /\ Ended
  /\ workers' = [workers EXCEPT ![t] = @ - 1]
  /\ UNCHANGED <<table, spawning, born, queue, dispatcher, served, now, crashes,
                 stale, lastRun, lineage>>

-----------------------------------------------------------------------------
(* The dispatcher.                                                         *)
Still == UNCHANGED <<pool, served, now, crashes, lineage>>

Receive ==
  /\ pc = "recv" /\ queue # <<>>
  /\ ev' = Head(queue)
  /\ queue' = Tail(queue)
  /\ pc' = "load"
  /\ seen' = {current[LineOf[ev'.trigger]]}
  /\ UNCHANGED <<table, trig, target, verdict, faulted, stale, lastRun>> /\ Still

Continue ==
  /\ pc' = "recv"
  /\ ev' = None /\ trig' = None /\ target' = None /\ verdict' = None
  /\ seen' = {} /\ faulted' = FALSE
  /\ UNCHANGED <<queue, stale>> /\ Still

\* Not found, disabled, or the load failed: no row is written.
DropEvent ==
  /\ pc = "load"
  /\ Continue /\ UNCHANGED <<table, lastRun>>

\* Slip: a disabled row is loaded like any other.
LoadTriggerSlip ==
  /\ pc = "load" /\ row[ev.trigger] # None
  /\ trig' = row[ev.trigger]
  /\ pc' = IF ev.trigger \in WithPredicate THEN "predicate" ELSE "dedup"
  /\ UNCHANGED <<table, queue, ev, target, verdict, seen, faulted, stale, lastRun>> /\ Still

LoadTrigger ==
  /\ pc = "load" /\ Enabled(ev.trigger)
  /\ trig' = row[ev.trigger]
  /\ pc' = IF ev.trigger \in WithPredicate THEN "predicate" ELSE "dedup"
  /\ UNCHANGED <<table, queue, ev, target, verdict, seen, faulted, stale, lastRun>> /\ Still

GoRecord(v) == pc' = "record" /\ verdict' = v

Predicate ==
  /\ pc = "predicate"
  /\ \/ pc' = "dedup" /\ UNCHANGED verdict
     \/ GoRecord("predicate_false")
     \/ GoRecord("predicate_error")
  /\ UNCHANGED <<table, queue, ev, trig, target, seen, faulted, stale, lastRun>> /\ Still

Deduplicated == ev.key # NoKey /\ trig.window > 0

\* `Utc::now() - Duration::milliseconds(window)` is a date.
HasCutoff == Deduplicated => trig.window <= MaxWindow

CheckDedup ==
  /\ pc = "dedup" /\ HasCutoff
  /\ IF Deduplicated /\ DedupHit(ev.trigger, ev.key, trig.window)
     THEN GoRecord("dedup")
     ELSE pc' = "resolve" /\ UNCHANGED verdict
  /\ UNCHANGED <<table, queue, ev, trig, target, seen, faulted, stale, lastRun>> /\ Still

\* The check fails: the event goes on as if it were new.
CheckDedupFails ==
  /\ pc = "dedup" /\ Deduplicated /\ HasCutoff
  /\ pc' = "resolve"
  /\ faulted' = TRUE
  /\ UNCHANGED <<table, queue, ev, trig, target, verdict, seen, stale, lastRun>> /\ Still

TaskEnds ==
  /\ queue' = <<>>
  /\ ev' = None /\ trig' = None /\ target' = None /\ verdict' = None
  /\ seen' = {} /\ faulted' = FALSE
  /\ UNCHANGED <<table, stale, lastRun>> /\ Still

\* The subtraction overflows and panics, in the dispatcher's own task.
CheckDedupPanics ==
  /\ pc = "dedup" /\ ~HasCutoff
  /\ pc' = "panicked"
  /\ TaskEnds

\* Slip: always the version hashed into the trigger's id.
ResolveSlip ==
  /\ pc = "resolve"
  /\ target' = Pinned[ev.trigger]
  /\ pc' = "run"
  /\ UNCHANGED <<table, queue, ev, trig, verdict, seen, faulted, stale, lastRun>> /\ Still

\* The lineage's active version; without one, the pinned one.
Resolve ==
  /\ pc = "resolve"
  /\ LET active == current[LineOf[ev.trigger]]
     IN target' = IF active \in Versions THEN active ELSE Pinned[ev.trigger]
  /\ pc' = "run"
  /\ UNCHANGED <<table, queue, ev, trig, verdict, seen, faulted, stale, lastRun>> /\ Still

\* The lookup fails: the pinned one, too.
ResolveFails ==
  /\ pc = "resolve"
  /\ target' = Pinned[ev.trigger]
  /\ pc' = "run"
  /\ faulted' = TRUE
  /\ UNCHANGED <<table, queue, ev, trig, verdict, seen, stale, lastRun>> /\ Still

\* Weak::upgrade, then run_strategy_with_event: it refuses a version that is
\* no longer active, and what else run_strategy_with_event refuses.
StartRun ==
  /\ pc = "run" /\ served
  /\ target = current[LineOf[ev.trigger]]
  /\ pc' = "running"
  /\ stale' = [stale EXCEPT ![ev.trigger] = IF Enabled(ev.trigger) THEN 0 ELSE @ + 1]
  /\ UNCHANGED <<table, queue, ev, trig, target, verdict, seen, faulted, lastRun>> /\ Still

RefuseRun ==
  /\ pc = "run" /\ served
  /\ GoRecord("run_error")
  /\ UNCHANGED <<table, queue, ev, trig, target, seen, faulted, stale, lastRun>> /\ Still

Exit ==
  /\ pc = "run" /\ ~served
  /\ pc' = "exited"
  /\ TaskEnds

EndRun ==
  /\ pc = "running"
  /\ GoRecord("run") \/ GoRecord("run_error")
  /\ UNCHANGED <<table, queue, ev, trig, target, seen, faulted, stale, lastRun>> /\ Still

Ran == verdict \in {"run", "run_error"}

\* record_event: the row, then last_fired_at of a real fire.
InsertEvent ==
  /\ pc = "record" /\ row[ev.trigger] # None
  /\ log' = [log EXCEPT ![ev.trigger] =
               @ \cup {[key |-> ev.key, stamp |-> Stamp(now), verdict |-> verdict]}]
  /\ lastRun' = IF Ran THEN [lastRun EXCEPT ![ev.trigger][ev.key] = now] ELSE lastRun
  /\ Continue

\* Slip: last_fired_at moves with every row.
RecordSlip ==
  /\ InsertEvent
  /\ row' = [row EXCEPT ![ev.trigger].last = Stamp(now)]

Record ==
  /\ InsertEvent
  /\ row' = IF verdict = "run"
            THEN [row EXCEPT ![ev.trigger].last = Stamp(now)]
            ELSE row

\* The second statement fails.
RecordTorn == InsertEvent /\ verdict = "run" /\ UNCHANGED row

Forget == IF Ran THEN [lastRun EXCEPT ![ev.trigger][ev.key] = None] ELSE lastRun

\* Slip: a failed insert is tried again.
RecordFailsSlip ==
  /\ pc = "record"
  /\ row[ev.trigger] = None
  /\ UNCHANGED vars

\* The insert fails, on a deleted trigger or on a fault: logged, no more.
RecordFails ==
  /\ pc = "record"
  /\ lastRun' = Forget
  /\ Continue /\ UNCHANGED table

\* The last sender is gone.
RecvClosed ==
  /\ pc = "recv" /\ queue = <<>> /\ ~served
  /\ \A t \in Triggers : workers[t] = 0
  /\ pc' = "exited"
  /\ UNCHANGED <<table, queue, ev, trig, target, verdict, seen, faulted, stale, lastRun>>
  /\ Still

Dispatch ==
  \/ Receive \/ DropEvent \/ LoadTrigger \/ Predicate
  \/ CheckDedup \/ CheckDedupFails \/ CheckDedupPanics \/ Resolve \/ ResolveFails
  \/ StartRun \/ RefuseRun \/ Exit \/ EndRun
  \/ Record \/ RecordTorn \/ RecordFails \/ RecvClosed

-----------------------------------------------------------------------------
\* The server is dropped, once no tool call holds it.
DropServer ==
  /\ MayDrop /\ served
  /\ \A t \in Triggers : spawning[t] = 0
  /\ served' = FALSE
  /\ UNCHANGED <<table, pool, queue, dispatcher, now, crashes, stale, lastRun, lineage>>

\* The process dies and from_config boots the next one.
Restart ==
  /\ crashes < MaxCrashes
  /\ crashes' = crashes + 1
  /\ workers' = [t \in Triggers |-> AtBoot(t)]
  /\ born' = workers'
  /\ spawning' = [t \in Triggers |-> 0]
  /\ queue' = <<>>
  /\ pc' = "recv"
  /\ ev' = None /\ trig' = None /\ target' = None /\ verdict' = None
  /\ seen' = {} /\ faulted' = FALSE
  /\ served' = TRUE
  /\ stale' = [t \in Triggers |-> 0]
  /\ lastRun' = IF pc = "running" \/ pc = "record"
                THEN [lastRun EXCEPT ![ev.trigger][ev.key] = None]
                ELSE lastRun
  /\ UNCHANGED <<table, now, lineage>>

Tick ==
  /\ now < MaxTime
  /\ now' = now + 1
  /\ UNCHANGED <<table, pool, queue, dispatcher, served, crashes, stale, lastRun, lineage>>

Tools ==
  \/ \E t \in Triggers :
       Register(t) \/ Delete(t) \/ DeleteTorn(t) \/ \E on \in BOOLEAN : SetEnabled(t, on)
  \/ Reregister

Next ==
  \/ Tools \/ Dispatch \/ DropServer \/ Restart \/ Tick
  \/ \E t \in Triggers : SpawnWorker(t) \/ Fire(t) \/ WorkerExits(t)

Spec == Init /\ [][Next]_vars

\* The dispatcher's awaits of the store and of predicates end.  The run need
\* not: it may await the node for ever (AwaitsNode of RunPipeline), and the
\* dispatcher awaits it.
Fairness == WF_vars(pc # "running" /\ Dispatch)

-----------------------------------------------------------------------------
(* A trigger switched off or deleted starts at most one more run, of the   *)
(* event whose row the dispatcher had already loaded, however many events  *)
(* are queued and however often its worker fires on.                       *)
StaleFiresOnce == \A t \in Triggers : stale[t] <= 1

(* Two runs for one dedup key: the second starts only after the window     *)
(* that the trigger asks for has passed since the first one ended, in real *)
(* time and not in the truncated seconds the rows are compared by.  Off    *)
(* only when the check itself failed, or the first run left no row.        *)
NoRepeatWithinWindow ==
  [][pc = "run" /\ pc' = "running" /\ Deduplicated /\ ~faulted =>
       LET last == lastRun[ev.trigger][ev.key]
       IN last = None \/ now > last + trig.window]_vars

(* The version an event is about to run was the lineage's active version   *)
(* at some moment since the event was taken; the pinned one only when the  *)
(* lineage had none: re-registering a strategy never orphans its triggers. *)
FreshTarget ==
  pc = "run" /\ ~faulted =>
    target \in seen \/ (seen \cap {Unborn, Dormant} # {} /\ target = Pinned[ev.trigger])

(* last_fired_at moves forward, and only with a row in the history that    *)
(* says a run happened in that second: never for an event that was         *)
(* skipped, refused or lost.                                               *)
LastFiredTruthful ==
  [][\A t \in Triggers :
       row[t] # None /\ row'[t] # None /\ row'[t].last # row[t].last =>
         /\ row[t].last = None \/ row[t].last < row'[t].last
         /\ \E e \in log'[t] : e.verdict = "run" /\ e.stamp = row'[t].last]_vars

(* Every registration that created a row, and every row enabled at boot,   *)
(* has one worker or is about to: none is missed, whatever the race        *)
(* between registering, deleting and spawning, and none is started twice.  *)
OneWorkerPerRegistration ==
  ~Ended =>
    \A t \in Spawnable : workers[t] + spawning[t] = born[t]

(* Whatever fails on the way, the dispatcher gets back to its channel,     *)
(* unless the server is gone, a window without a cutoff made it panic, or  *)
(* the run it awaits never ends.                                           *)
DispatcherReturns ==
  (pc # "recv") ~> \/ pc = "recv"
                   \/ pc = "exited" /\ ~served
                   \/ pc = "panicked" /\ \E w \in Windows : w > MaxWindow
                   \/ [](pc = "running")
=============================================================================
