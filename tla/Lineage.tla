------------------------------- MODULE Lineage -------------------------------
(***************************************************************************)
(* What the strategy table promises to those who follow a lineage (a       *)
(* trigger, a run, captured records): a lineage is founded once, has one   *)
(* current version at a time, never goes back to a version it left, and    *)
(* once dormant stays dormant.                                             *)
(***************************************************************************)
CONSTANTS
  Lines,      \* lineage ids
  Versions,   \* strategy ids
  Unborn,     \* no strategy of the lineage was ever registered
  Dormant     \* its active version was deleted

VARIABLES
  current,  \* current[l]: the active version of lineage l
  past      \* past[l]: the versions lineage l ever had

lineage == <<current, past>>

LineageInit ==
  /\ current \in [Lines -> Versions \cup {Unborn, Dormant}]
  /\ past \in [Lines -> SUBSET Versions]
  /\ \A l \in Lines :
       /\ current[l] = Unborn <=> past[l] = {}
       /\ current[l] \in Versions => current[l] \in past[l]

Found(l, v) ==
  /\ current[l] = Unborn
  /\ current' = [current EXCEPT ![l] = v]
  /\ past' = [past EXCEPT ![l] = {v}]

Replace(l, v) ==
  /\ current[l] \in Versions
  /\ v \notin past[l]
  /\ current' = [current EXCEPT ![l] = v]
  /\ past' = [past EXCEPT ![l] = @ \cup {v}]

\* strategy_delete, or a replacement cut short.
Drop(l) ==
  /\ current[l] \in Versions
  /\ current' = [current EXCEPT ![l] = Dormant]
  /\ UNCHANGED past

LineageNext ==
  \E l \in Lines :
    Drop(l) \/ \E v \in Versions : Found(l, v) \/ Replace(l, v)

LineageSpec == LineageInit /\ [][LineageNext]_lineage
=============================================================================
