--------------------------- MODULE StrategyRegistry ---------------------------
(***************************************************************************)
(* The strategies table (executor-state, strategies.rs): content-addressed *)
(* rows, soft-deleted and never removed, tied to a lineage by name.  Every *)
(* call holds the store's mutex; the two statements of a replacement are   *)
(* not a transaction, so a fault can come between them.                    *)
(***************************************************************************)
EXTENDS Naturals, FiniteSets

CONSTANTS
  Names,
  Contents,     \* bundles: execute, records, view and actions
  WithActions,  \* the bundles with a named action
  Ulids,        \* what mint_lineage_id returns
  MaxClock,     \* bound on the clock, in seconds
  MaxRows,      \* bound on the table
  Unborn, Dormant, None

ASSUME RegistryAssumption ==
  /\ WithActions \subseteq Contents
  /\ MaxClock \in Nat
  /\ MaxRows \in Nat

\* hash_bundle and hash_bundle_with_lineage: injective, over disjoint
\* domains.  A row from before lineages existed is its own lineage.
LegacyHash(c) == [lineage |-> None, content |-> c]
Hash(l, c) == [lineage |-> l, content |-> c]

LegacyId == { LegacyHash(c) : c \in Contents \ WithActions }
LineageId == Ulids \cup LegacyId
Id == LegacyId \cup { Hash(l, c) : l \in LineageId, c \in Contents }

\* None is not a lineage or a strategy id, and a minted lineage is no hash.
ASSUME NoneAssumption == None \notin Ulids \cup Id /\ Ulids \cap Id = {}

\* Nor are the two states of a lineage without a current version.
ASSUME MarkAssumption ==
  Unborn \notin Id /\ Dormant \notin Id /\ Unborn # Dormant

VARIABLES
  rows,    \* rows[i]: the row with id i, for the ids in the table
  clock,   \* now_rfc3339, in seconds
  answer   \* what the last strategy_register answered

vars == <<rows, clock, answer>>

Present(i) == i \in DOMAIN rows
Active(i) == Present(i) /\ ~rows[i].deleted
Of(l) == { i \in DOMAIN rows : rows[i].lineage = l }

\* Slip: the lookup does not ask for deleted_at IS NULL.
GetByNameSlip(n) == { i \in DOMAIN rows : rows[i].name = n }

GetByName(n) == { i \in DOMAIN rows : ~rows[i].deleted /\ rows[i].name = n }
GetActiveForLineage(l) == { i \in Of(l) : ~rows[i].deleted }
LineageVersionCount(l) == Cardinality(Of(l))

\* The rank of a row by created_at, ties included.
VersionForId(i) ==
  Cardinality({ j \in Of(rows[i].lineage) : rows[j].created <= rows[i].created })

NoAnswer == [kind |-> "none", name |-> None, id |-> None, version |-> 0]

\* Any table an older release may have left: legacy rows under distinct
\* names, possibly deleted.
Init ==
  /\ \E left \in SUBSET LegacyId :
       \E name \in [left -> Names], deleted \in [left -> BOOLEAN] :
         rows = [i \in left |->
                   [name |-> name[i], lineage |-> i, created |-> 0,
                    deleted |-> deleted[i]]]
  /\ \A i, j \in DOMAIN rows : Active(i) /\ Active(j) /\ i # j
       => rows[i].name # rows[j].name
  /\ clock = 0
  /\ answer = NoAnswer

NewRow(n, l) == [name |-> n, lineage |-> l, created |-> clock, deleted |-> FALSE]
Put(table, i, row) == [j \in DOMAIN table \cup {i} |-> IF j = i THEN row ELSE table[j]]
Room == Cardinality(DOMAIN rows) < MaxRows
Deleted(i) == [rows EXCEPT ![i].deleted = TRUE]

-----------------------------------------------------------------------------
(* register.  No active row of that name: a fresh lineage.                 *)
RegisterFresh(n, c) ==
  \E l \in Ulids :
    /\ GetByName(n) = {}
    /\ Of(l) = {}
    /\ Room
    /\ rows' = Put(rows, Hash(l, c), NewRow(n, l))
    /\ answer' = [kind |-> "created", name |-> n, id |-> Hash(l, c),
                  version |-> 1]
    /\ UNCHANGED clock

\* Slip: the lineage is not mixed into the hash.
IdForSlip(i, c) == IF c \in WithActions THEN Hash(rows[i].lineage, c)
                                        ELSE LegacyHash(c)

\* The id of content c next to the active row i of its name.
IdFor(i, c) ==
  IF rows[i].lineage = i /\ c \notin WithActions
  THEN LegacyHash(c)
  ELSE Hash(rows[i].lineage, c)

\* A row with that id exists, whatever its state and name.
RegisterExisting(n, c) ==
  \E i \in GetByName(n) :
    /\ Present(IdFor(i, c))
    /\ answer' = [kind |-> "exists", name |-> n, id |-> IdFor(i, c),
                  version |-> VersionForId(IdFor(i, c))]
    /\ UNCHANGED <<rows, clock>>

\* Slip: an insert that fails is answered like one that worked.
RegisterReplaceBlind(n, c) ==
  \E i \in GetByName(n) :
    /\ ~Present(IdFor(i, c)) /\ Room
    /\ rows' = Deleted(i)
    /\ answer' = [kind |-> "replaced", name |-> n, id |-> IdFor(i, c),
                  version |-> LineageVersionCount(rows[i].lineage) + 1]
    /\ UNCHANGED clock

\* Slip: the previous version is not soft-deleted.
RegisterReplaceSlip(n, c) ==
  \E i \in GetByName(n) :
    /\ ~Present(IdFor(i, c)) /\ Room
    /\ rows' = Put(rows, IdFor(i, c), NewRow(n, rows[i].lineage))
    /\ answer' = [kind |-> "replaced", name |-> n, id |-> IdFor(i, c),
                  version |-> LineageVersionCount(rows[i].lineage) + 1]
    /\ UNCHANGED clock

\* Soft-delete the old version, insert the new one in the same lineage.
RegisterReplace(n, c) ==
  \E i \in GetByName(n) :
    /\ ~Present(IdFor(i, c)) /\ Room
    /\ rows' = Put(Deleted(i), IdFor(i, c), NewRow(n, rows[i].lineage))
    /\ answer' = [kind |-> "replaced", name |-> n, id |-> IdFor(i, c),
                  version |-> LineageVersionCount(rows[i].lineage) + 1]
    /\ UNCHANGED clock

\* The soft delete happens, the insert does not.
RegisterTorn(n, c) ==
  \E i \in GetByName(n) :
    /\ ~Present(IdFor(i, c))
    /\ rows' = Deleted(i)
    /\ answer' = [kind |-> "error", name |-> n, id |-> None, version |-> 0]
    /\ UNCHANGED clock

(* soft_delete: idempotent.                                                *)
SoftDelete(i) ==
  /\ Present(i)
  /\ rows' = Deleted(i)
  /\ UNCHANGED <<clock, answer>>

Tick ==
  /\ clock < MaxClock
  /\ clock' = clock + 1
  /\ UNCHANGED <<rows, answer>>

-----------------------------------------------------------------------------
Register(n, c) ==
  RegisterFresh(n, c) \/ RegisterExisting(n, c) \/ RegisterReplace(n, c)

Next ==
  \/ \E n \in Names, c \in Contents : Register(n, c) \/ RegisterTorn(n, c)
  \/ \E i \in DOMAIN rows : SoftDelete(i)
  \/ Tick

Spec == Init /\ [][Next]_vars

-----------------------------------------------------------------------------

(* The unique indexes idx_strategies_name_active and                       *)
(* idx_strategies_lineage_active never fire: no two active rows share a    *)
(* name or a lineage, so no registration fails on them.                    *)
OneActive ==
  \A i, j \in DOMAIN rows : Active(i) /\ Active(j) /\ i # j =>
    rows[i].name # rows[j].name /\ rows[i].lineage # rows[j].lineage

(* A lineage belongs to one name for ever: nobody's triggers, runs or      *)
(* records end up under the strategy of another name.                      *)
LineageHasOneName ==
  \A i, j \in DOMAIN rows :
    rows[i].lineage = rows[j].lineage => rows[i].name = rows[j].name

(* The version answered for a replacement is the one version_for_id gives  *)
(* the active row later: the latest row of a lineage is number N of N,     *)
(* however close together the registrations were.                          *)
LatestIsLast ==
  \A i \in DOMAIN rows : Active(i) =>
    VersionForId(i) = LineageVersionCount(rows[i].lineage)

(* What a lineage is to those who follow it by name or by version: nobody  *)
(* else's, whole, and with one row in force.                               *)
LineagesSound == OneActive /\ LineageHasOneName /\ LatestIsLast

(* Only a row of a lineage from before lineages had ids can be answered to *)
(* another name than its own: bundles of a minted lineage never alias.     *)
NoAliasing ==
  answer.kind = "exists" /\ rows[answer.id].name # answer.name
    => rows[answer.id].lineage \in LegacyId

(* A name whose bundle is active goes without one only by strategy_delete  *)
(* or a replacement cut short, never by a registration that succeeds.      *)
NameSurvives ==
  [][\A n \in Names : GetByName(n) # {} /\ GetByName(n)' = {} =>
       \/ answer' = answer
       \/ answer'.kind = "error" /\ answer'.name = n]_vars

\* What a lineage shows those who follow it.
Follow == INSTANCE Lineage WITH
  Lines <- LineageId,
  Versions <- Id,
  current <- [l \in LineageId |->
                IF Of(l) = {} THEN Unborn
                ELSE IF GetActiveForLineage(l) = {} THEN Dormant
                ELSE CHOOSE i \in GetActiveForLineage(l) : TRUE],
  past <- [l \in LineageId |-> Of(l)]

(* The table implements the lineage contract: one current version, no way  *)
(* back to a version it left, none out of dormancy.                        *)
ImplementsLineage == Follow!LineageSpec

(* strategies.rs:317-321, the case matrix of register: for a name with an  *)
(* active row and different content "soft-delete old, insert new"; and     *)
(* active_strategy (strategies.rs:114): the row answered is the active     *)
(* one.                                                                    *)
RegisterActivates ==
  [][\A n \in Names, c \in Contents :
       Register(n, c) => \E i \in GetByName(n)' : answer'.id = i]_vars
=============================================================================
