-------------------------- MODULE MCTriggerDispatch --------------------------
(* One lineage and two triggers of it: an interval trigger, whose worker   *)
(* gives no dedup keys, through every change of its row, its lineage and   *)
(* its server while time stands still; or a log trigger, whose worker      *)
(* gives them, while time passes and lineage, process and server stay.     *)
EXTENDS TriggerDispatch

CONSTANTS onLog, onInterval, line, v1, v2, tx1

MCLines == {line}
MCVersions == {v1, v2}
MCTriggers == {onLog, onInterval}
IntervalOnly == {onInterval}
MCLineOf == [t \in Triggers |-> line]
MCPinned == [t \in Triggers |-> v1]
MCKeys == [t \in Triggers |-> IF t = onLog THEN {tx1} ELSE {NoKey}]
\* One that spans two seconds' rows, and one that has no cutoff.
WindowsAround == {2, 9}

Untouched(t) == row[t] = None /\ born[t] = 0
Lifecycle == /\ Untouched(onLog) /\ now = 0
             \* its events have no key, so that the window tells nothing
             /\ row[onInterval] # None => row[onInterval].window = 2
Repeats == /\ Untouched(onInterval) /\ born[onLog] <= 1
           /\ crashes = 0 /\ served /\ current[line] = v1 /\ past[line] = {v1}

\* The lineage starts with an active first version.
SettledInit == /\ Init
               /\ current = [l \in Lines |-> v1]
               /\ past = [l \in Lines |-> {v1}]
               /\ Lifecycle \/ Repeats
SettledSpec == SettledInit /\ [][Next /\ (Lifecycle \/ Repeats)']_vars
SettledFairSpec == SettledSpec /\ Fairness
=============================================================================
