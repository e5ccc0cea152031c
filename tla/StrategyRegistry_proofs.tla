------------------------ MODULE StrategyRegistry_proofs ------------------------
(***************************************************************************)
(* Proofs about the strategies table for every set of names, bundles and   *)
(* minted lineages, over every table an older release may have left.       *)
(***************************************************************************)
EXTENDS StrategyRegistry, TLAPS

Row == [name : Names, lineage : LineageId, created : 0..MaxClock, deleted : BOOLEAN]

TableOK ==
  /\ DOMAIN rows \subseteq Id
  /\ rows \in [DOMAIN rows -> Row]
  /\ clock \in 0..MaxClock
  /\ \A i \in DOMAIN rows : rows[i].created <= clock

(* An id with a lineage in its hash is a row of that lineage; an id without*)
(* one belongs to a lineage from before lineages had ids.                  *)
Hashed ==
  \A i \in DOMAIN rows :
    IF i \in LegacyId THEN rows[i].lineage \in LegacyId
                      ELSE i.lineage = rows[i].lineage

(* The active row of a lineage is its youngest.                            *)
Youngest ==
  \A i, j \in DOMAIN rows :
    Active(i) /\ rows[j].lineage = rows[i].lineage => rows[j].created <= rows[i].created

AnswerOK ==
  answer.kind = "exists" =>
    /\ Present(answer.id)
    /\ rows[answer.id].name = answer.name \/ rows[answer.id].lineage \in LegacyId

IInv == TableOK /\ Hashed /\ OneActive /\ LineageHasOneName /\ Youngest /\ AnswerOK

-----------------------------------------------------------------------------
(* Ids.                                                                    *)
LEMMA Ids ==
  /\ LegacyId \subseteq LineageId /\ LegacyId \subseteq Id /\ Ulids \subseteq LineageId
  /\ \A l \in LineageId, c \in Contents :
       Hash(l, c) \in Id /\ Hash(l, c).lineage = l /\ Hash(l, c) \notin LegacyId
  /\ \A c \in Contents \ WithActions : LegacyHash(c) \in LegacyId
<1>1. LegacyId \subseteq LineageId /\ LegacyId \subseteq Id /\ Ulids \subseteq LineageId
  BY DEF LineageId, Id
<1>2. None \notin LineageId
  BY <1>1, NoneAssumption DEF LineageId
<1>3. ASSUME NEW l \in LineageId, NEW c \in Contents
      PROVE  Hash(l, c) \in Id /\ Hash(l, c).lineage = l /\ Hash(l, c) \notin LegacyId
  <2>1. Hash(l, c) \in Id /\ Hash(l, c).lineage = l
    BY DEF Hash, Id
  <2>2. \A i \in LegacyId : i.lineage = None
    BY DEF LegacyId, LegacyHash
  <2>3. QED
    BY <1>2, <2>1, <2>2
<1>4. \A c \in Contents \ WithActions : LegacyHash(c) \in LegacyId
  BY DEF LegacyId
<1>5. QED
  BY <1>1, <1>3, <1>4

(* The id of new content lies in the lineage of the active row, or both    *)
(* are from before lineages had ids.                                       *)
LEMMA IdForType ==
  ASSUME TableOK, NEW i \in DOMAIN rows, NEW c \in Contents
  PROVE  /\ IdFor(i, c) \in Id
         /\ \/ IdFor(i, c) \in LegacyId /\ rows[i].lineage \in LegacyId
            \/ IdFor(i, c) \notin LegacyId /\ IdFor(i, c).lineage = rows[i].lineage
<1>1. rows[i].lineage \in LineageId /\ i \in Id
  BY DEF TableOK, Row
<1>2. CASE rows[i].lineage = i /\ c \notin WithActions
  <2>1. IdFor(i, c) = LegacyHash(c) /\ LegacyHash(c) \in LegacyId
    BY <1>2, Ids DEF IdFor
  <2>2. i \in LegacyId
    BY <1>1, <1>2, NoneAssumption DEF LineageId
  <2>3. QED
    BY <1>2, <2>1, <2>2, Ids
<1>3. CASE ~(rows[i].lineage = i /\ c \notin WithActions)
  <2>1. IdFor(i, c) = Hash(rows[i].lineage, c)
    BY <1>3 DEF IdFor
  <2>2. QED
    BY <1>1, <2>1, Ids
<1>4. QED
  BY <1>2, <1>3

-----------------------------------------------------------------------------
(* What every operation does to the table: the rows in gone are soft-      *)
(* deleted, the ids in new are added under name n in lineage l, and        *)
(* nothing else about a row changes.                                       *)
Effect(gone, new, n, l) ==
  /\ DOMAIN rows' = DOMAIN rows \cup new
  /\ new \cap DOMAIN rows = {}
  /\ rows' \in [DOMAIN rows' -> Row]
  /\ \A j \in DOMAIN rows :
       /\ rows'[j].name = rows[j].name
       /\ rows'[j].lineage = rows[j].lineage
       /\ rows'[j].created = rows[j].created
       /\ rows'[j].deleted <=> rows[j].deleted \/ j \in gone
  /\ \A k \in new :
       /\ rows'[k].name = n
       /\ rows'[k].lineage = l
       /\ rows'[k].created = clock
       /\ ~rows'[k].deleted

(* What makes an addition harmless: its id and lineage agree, its name and *)
(* lineage are free of active rows, and its lineage is of its name.        *)
Admissible(gone, new, n, l) ==
  /\ new \subseteq Id
  /\ \A k \in new :
       /\ IF k \in LegacyId THEN l \in LegacyId ELSE k.lineage = l
       /\ \A m \in new : m = k
       /\ \A j \in DOMAIN rows : rows[j].lineage = l => rows[j].name = n
       /\ \A j \in DOMAIN rows :
            Active(j) /\ j \notin gone => rows[j].name # n /\ rows[j].lineage # l

LEMMA DeletedEffect ==
  ASSUME TableOK, NEW i \in DOMAIN rows, rows' = Deleted(i), NEW n, NEW l
  PROVE  Effect({i}, {}, n, l)
<1>1. DOMAIN rows' = DOMAIN rows
  BY DEF Deleted
<1>2. \A j \in DOMAIN rows : rows[j] \in Row
  BY DEF TableOK
<1>3. \A j \in DOMAIN rows :
        rows'[j] = IF j = i THEN [rows[j] EXCEPT !.deleted = TRUE] ELSE rows[j]
  BY DEF Deleted
<1>4. \A j \in DOMAIN rows : rows'[j] \in Row
  BY <1>2, <1>3 DEF Row
<1>5. rows' \in [DOMAIN rows' -> Row]
  BY <1>1, <1>4 DEF Deleted
<1>6. \A j \in DOMAIN rows :
        /\ rows'[j].name = rows[j].name
        /\ rows'[j].lineage = rows[j].lineage
        /\ rows'[j].created = rows[j].created
        /\ rows'[j].deleted <=> rows[j].deleted \/ j \in {i}
  BY <1>2, <1>3 DEF Row
<1>7. QED
  BY <1>1, <1>5, <1>6 DEF Effect

LEMMA NewRowType ==
  ASSUME TableOK, NEW n \in Names, NEW l \in LineageId
  PROVE  /\ NewRow(n, l) \in Row
         /\ NewRow(n, l).name = n /\ NewRow(n, l).lineage = l
         /\ NewRow(n, l).created = clock /\ ~NewRow(n, l).deleted
BY DEF TableOK, Row, NewRow

LEMMA AddedEffect ==
  ASSUME TableOK, NEW k, k \notin DOMAIN rows, NEW n \in Names, NEW l \in LineageId,
         rows' = Put(rows, k, NewRow(n, l))
  PROVE  Effect({}, {k}, n, l)
<1>1. DOMAIN rows' = DOMAIN rows \cup {k}
  BY DEF Put
<1>2. (\A j \in DOMAIN rows : rows'[j] = rows[j]) /\ rows'[k] = NewRow(n, l)
  BY DEF Put
<1>3. \A j \in DOMAIN rows : rows[j] \in Row
  BY DEF TableOK
<1>4. \A j \in DOMAIN rows' : rows'[j] \in Row
  BY <1>1, <1>2, <1>3, NewRowType
<1>5. rows' \in [DOMAIN rows' -> Row]
  BY <1>4 DEF Put
<1>6. QED
  BY <1>1, <1>2, <1>5, NewRowType DEF Effect

LEMMA ReplacedEffect ==
  ASSUME TableOK, NEW i \in DOMAIN rows, NEW k, k \notin DOMAIN rows,
         NEW n \in Names, NEW l \in LineageId,
         rows' = Put(Deleted(i), k, NewRow(n, l))
  PROVE  Effect({i}, {k}, n, l)
<1>1. DOMAIN Deleted(i) = DOMAIN rows
  BY DEF Deleted
<1>2. DOMAIN rows' = DOMAIN rows \cup {k}
  BY <1>1 DEF Put
<1>3. (\A j \in DOMAIN rows : rows'[j] = Deleted(i)[j]) /\ rows'[k] = NewRow(n, l)
  BY <1>1 DEF Put
<1>4. \A j \in DOMAIN rows : rows[j] \in Row
  BY DEF TableOK
<1>5. \A j \in DOMAIN rows :
        rows'[j] = IF j = i THEN [rows[j] EXCEPT !.deleted = TRUE] ELSE rows[j]
  BY <1>3 DEF Deleted
<1>6. \A j \in DOMAIN rows' : rows'[j] \in Row
  <2>1. \A j \in DOMAIN rows : rows'[j] \in Row
    BY <1>4, <1>5 DEF Row
  <2>2. QED
    BY <1>2, <1>3, <2>1, NewRowType
<1>7. rows' \in [DOMAIN rows' -> Row]
  BY <1>1, <1>6 DEF Put
<1>8. \A j \in DOMAIN rows :
        /\ rows'[j].name = rows[j].name
        /\ rows'[j].lineage = rows[j].lineage
        /\ rows'[j].created = rows[j].created
        /\ rows'[j].deleted <=> rows[j].deleted \/ j \in {i}
  BY <1>4, <1>5 DEF Row
<1>9. QED
  BY <1>2, <1>3, <1>7, <1>8, NewRowType DEF Effect

-----------------------------------------------------------------------------
(* An admissible effect keeps the table's invariant.                       *)
TableInv == TableOK /\ Hashed /\ OneActive /\ LineageHasOneName /\ Youngest

LEMMA EffectKeeps ==
  ASSUME TableInv, NEW gone, NEW new, NEW n, NEW l, UNCHANGED clock,
         Effect(gone, new, n, l), Admissible(gone, new, n, l)
  PROVE  TableInv'
<1>1. DOMAIN rows' = DOMAIN rows \cup new /\ new \cap DOMAIN rows = {}
  BY DEF Effect
<1>2. \A j \in DOMAIN rows :
        /\ rows'[j].name = rows[j].name
        /\ rows'[j].lineage = rows[j].lineage
        /\ rows'[j].created = rows[j].created
        /\ rows'[j].deleted <=> rows[j].deleted \/ j \in gone
  BY DEF Effect
<1>3. \A k \in new :
        /\ rows'[k].name = n
        /\ rows'[k].lineage = l
        /\ rows'[k].created = clock
        /\ ~rows'[k].deleted
  BY DEF Effect
<1>4. clock \in 0..MaxClock /\ \A i \in DOMAIN rows : rows[i].created <= clock
  BY DEF TableInv, TableOK
<1>5. TableOK'
  <2>1. DOMAIN rows' \subseteq Id
    BY <1>1 DEF TableInv, TableOK, Admissible
  <2>2. \A i \in DOMAIN rows' : rows'[i].created <= clock
    BY <1>1, <1>2, <1>3, <1>4
  <2>3. QED
    BY <1>4, <2>1, <2>2 DEF TableOK, Effect
<1>6. Hashed'
  BY <1>1, <1>2, <1>3 DEF TableInv, Hashed, Admissible
<1>7. OneActive'
  BY <1>1, <1>2, <1>3 DEF TableInv, OneActive, Active, Present, Admissible
<1>8. LineageHasOneName'
  BY <1>1, <1>2, <1>3 DEF TableInv, LineageHasOneName, Admissible
<1>9. Youngest'
  <2>1. SUFFICES ASSUME NEW i \in DOMAIN rows', NEW j \in DOMAIN rows',
                        ~rows'[i].deleted, rows'[j].lineage = rows'[i].lineage
                 PROVE  rows'[j].created <= rows'[i].created
    BY DEF Youngest, Active, Present
  <2>2. CASE i \in new
    BY <1>1, <1>2, <1>3, <1>4, <2>2
  <2>3. CASE i \in DOMAIN rows /\ j \in DOMAIN rows
    BY <1>2, <2>1, <2>3 DEF TableInv, Youngest, Active, Present
  <2>4. CASE i \in DOMAIN rows /\ j \in new
    BY <1>2, <1>3, <2>1, <2>4 DEF Admissible, Active, Present
  <2>5. QED
    BY <1>1, <2>2, <2>3, <2>4
<1>10. QED
  BY <1>5, <1>6, <1>7, <1>8, <1>9 DEF TableInv

-----------------------------------------------------------------------------
(* The operations as effects.                                              *)
LEMMA FreshIs ==
  ASSUME TableInv, NEW n \in Names, NEW c \in Contents, RegisterFresh(n, c)
  PROVE  /\ \E l \in Ulids :
              /\ Effect({}, {Hash(l, c)}, n, l) /\ Admissible({}, {Hash(l, c)}, n, l)
              /\ Of(l) = {} /\ l \in LineageId
         /\ GetByName(n) = {}
         /\ answer'.kind = "created" /\ answer'.name = n /\ UNCHANGED clock
<1>1. PICK l \in Ulids :
        /\ GetByName(n) = {} /\ Of(l) = {}
        /\ rows' = Put(rows, Hash(l, c), NewRow(n, l))
        /\ answer' = [kind |-> "created", name |-> n, id |-> Hash(l, c), version |-> 1]
        /\ UNCHANGED clock
  BY DEF RegisterFresh
<1>2. l \in LineageId
  BY Ids
<1>3. /\ Hash(l, c) \in Id /\ Hash(l, c).lineage = l /\ Hash(l, c) \notin LegacyId
  BY <1>2, Ids
<1>4. \A j \in DOMAIN rows : rows[j].lineage # l
  BY <1>1 DEF Of
<1>5. Hash(l, c) \notin DOMAIN rows
  BY <1>3, <1>4 DEF TableInv, Hashed
<1>6. \A j \in DOMAIN rows : Active(j) => rows[j].name # n
  BY <1>1 DEF GetByName, Active
<1>7. Effect({}, {Hash(l, c)}, n, l)
  BY <1>1, <1>2, <1>5, AddedEffect DEF TableInv
<1>8. Admissible({}, {Hash(l, c)}, n, l)
  BY <1>3, <1>4, <1>6 DEF Admissible
<1>9. answer'.kind = "created" /\ answer'.name = n
  BY <1>1
<1>10. QED
  BY <1>1, <1>2, <1>7, <1>8, <1>9

LEMMA ReplaceIs ==
  ASSUME TableInv, NEW n \in Names, NEW c \in Contents, RegisterReplace(n, c)
  PROVE  /\ \E i \in GetByName(n) :
              /\ Effect({i}, {IdFor(i, c)}, n, rows[i].lineage)
              /\ Admissible({i}, {IdFor(i, c)}, n, rows[i].lineage)
         /\ answer'.kind = "replaced" /\ answer'.name = n /\ UNCHANGED clock
<1>1. PICK i \in GetByName(n) :
        /\ ~Present(IdFor(i, c))
        /\ rows' = Put(Deleted(i), IdFor(i, c), NewRow(n, rows[i].lineage))
        /\ answer' = [kind |-> "replaced", name |-> n, id |-> IdFor(i, c),
                      version |-> LineageVersionCount(rows[i].lineage) + 1]
        /\ UNCHANGED clock
  BY DEF RegisterReplace
<1>2. i \in DOMAIN rows /\ Active(i) /\ rows[i].name = n
  BY DEF GetByName, Active, Present
<1>3. rows[i].lineage \in LineageId
  BY <1>2 DEF TableInv, TableOK, Row
<1>4. Effect({i}, {IdFor(i, c)}, n, rows[i].lineage)
  BY <1>1, <1>2, <1>3, ReplacedEffect DEF TableInv, Present
<1>5. \A j \in DOMAIN rows : rows[j].lineage = rows[i].lineage => rows[j].name = n
  BY <1>2 DEF TableInv, LineageHasOneName
<1>6. \A j \in DOMAIN rows : Active(j) /\ j # i =>
        rows[j].name # n /\ rows[j].lineage # rows[i].lineage
  BY <1>2 DEF TableInv, OneActive
<1>7. Admissible({i}, {IdFor(i, c)}, n, rows[i].lineage)
  BY <1>2, <1>5, <1>6, IdForType DEF TableInv, Admissible
<1>8. answer'.kind = "replaced" /\ answer'.name = n
  BY <1>1
<1>9. QED
  BY <1>1, <1>4, <1>7, <1>8

LEMMA DeleteIs ==
  ASSUME TableInv, NEW i \in DOMAIN rows, rows' = Deleted(i), NEW n, NEW l
  PROVE  Effect({i}, {}, n, l) /\ Admissible({i}, {}, n, l)
<1>1. Effect({i}, {}, n, l)
  BY DeletedEffect DEF TableInv
<1>2. Admissible({i}, {}, n, l)
  BY DEF Admissible
<1>3. QED
  BY <1>1, <1>2

LEMMA TornIs ==
  ASSUME TableInv, NEW n \in Names, NEW c \in Contents, RegisterTorn(n, c)
  PROVE  /\ \E i \in GetByName(n) : i \in DOMAIN rows /\ rows' = Deleted(i)
         /\ answer'.kind = "error" /\ answer'.name = n /\ UNCHANGED clock
<1>1. PICK i \in GetByName(n) :
        /\ rows' = Deleted(i)
        /\ answer' = [kind |-> "error", name |-> n, id |-> None, version |-> 0]
        /\ UNCHANGED clock
  BY DEF RegisterTorn
<1>2. i \in DOMAIN rows
  BY DEF GetByName
<1>3. answer'.kind = "error" /\ answer'.name = n
  BY <1>1
<1>4. QED
  BY <1>1, <1>2, <1>3

-----------------------------------------------------------------------------
(* The answer part of the invariant survives whatever keeps names and      *)
(* lineages, and the answer of an existing row is right.                   *)
LEMMA AnswerKept ==
  ASSUME AnswerOK, NEW gone, NEW new, NEW n, NEW l, Effect(gone, new, n, l),
         answer' = answer \/ answer'.kind # "exists"
  PROVE  AnswerOK'
<1>1. CASE answer'.kind # "exists"
  BY <1>1 DEF AnswerOK
<1>2. CASE answer' = answer
  BY <1>2 DEF AnswerOK, Effect, Present
<1>3. QED
  BY <1>1, <1>2

LEMMA ExistingAnswer ==
  ASSUME TableInv, NEW n \in Names, NEW c \in Contents, RegisterExisting(n, c)
  PROVE  AnswerOK'
<1>1. PICK i \in GetByName(n) :
        /\ Present(IdFor(i, c))
        /\ answer' = [kind |-> "exists", name |-> n, id |-> IdFor(i, c),
                      version |-> VersionForId(IdFor(i, c))]
        /\ UNCHANGED <<rows, clock>>
  BY DEF RegisterExisting
<1>2. i \in DOMAIN rows /\ rows[i].name = n
  BY DEF GetByName
<1>3. answer'.name = n /\ answer'.id = IdFor(i, c) /\ rows' = rows
  BY <1>1
<1>4. IdFor(i, c) \in DOMAIN rows
  BY <1>1 DEF Present
<1>5. rows[IdFor(i, c)].name = n \/ rows[IdFor(i, c)].lineage \in LegacyId
  <2>1. CASE IdFor(i, c) \in LegacyId
    BY <1>4, <2>1 DEF TableInv, Hashed
  <2>2. CASE IdFor(i, c) \notin LegacyId
    <3>1. rows[IdFor(i, c)].lineage = rows[i].lineage
      BY <1>2, <1>4, <2>2, IdForType DEF TableInv, Hashed
    <3>2. QED
      BY <1>2, <1>4, <3>1 DEF TableInv, LineageHasOneName
  <2>3. QED
    BY <2>1, <2>2
<1>6. QED
  BY <1>3, <1>4, <1>5 DEF AnswerOK, Present

LEMMA InitOK == Init => IInv
<1> SUFFICES ASSUME Init PROVE IInv
  OBVIOUS
<1>1. PICK left \in SUBSET LegacyId :
        \E name \in [left -> Names], deleted \in [left -> BOOLEAN] :
          rows = [i \in left |-> [name |-> name[i], lineage |-> i, created |-> 0,
                                  deleted |-> deleted[i]]]
  BY DEF Init
<1>2. PICK name \in [left -> Names], deleted \in [left -> BOOLEAN] :
        rows = [i \in left |-> [name |-> name[i], lineage |-> i, created |-> 0,
                                deleted |-> deleted[i]]]
  BY <1>1
<1>3. clock = 0 /\ answer.kind = "none"
  BY DEF Init, NoAnswer
<1>4. DOMAIN rows = left
  BY <1>2
<1>5. \A i \in DOMAIN rows :
        rows[i].lineage = i /\ rows[i].created = 0 /\ i \in LegacyId /\ rows[i] \in Row
  BY <1>2, <1>4, Ids, RegistryAssumption DEF Row
<1>6. TableOK
  BY <1>2, <1>3, <1>4, <1>5, Ids, RegistryAssumption DEF TableOK
<1>7. Hashed
  BY <1>5 DEF Hashed
<1>8. OneActive
  BY <1>5 DEF OneActive, Init
<1>9. LineageHasOneName
  BY <1>5 DEF LineageHasOneName
<1>10. Youngest
  BY <1>5 DEF Youngest
<1>11. AnswerOK
  BY <1>3 DEF AnswerOK
<1>12. QED
  BY <1>6, <1>7, <1>8, <1>9, <1>10, <1>11 DEF IInv

LEMMA StepKeeps == IInv /\ [Next]_vars => IInv'
<1> SUFFICES ASSUME IInv, [Next]_vars PROVE IInv'
  OBVIOUS
<1>1. TableInv /\ AnswerOK
  BY DEF IInv, TableInv
<1>2. ASSUME TableInv', AnswerOK' PROVE IInv'
  BY <1>2 DEF IInv, TableInv
<1>3. ASSUME NEW n \in Names, NEW c \in Contents, RegisterFresh(n, c)
      PROVE  IInv'
  <2>1. PICK l \in Ulids :
          Effect({}, {Hash(l, c)}, n, l) /\ Admissible({}, {Hash(l, c)}, n, l)
    BY <1>1, <1>3, FreshIs
  <2>2. answer'.kind # "exists" /\ UNCHANGED clock
    BY <1>1, <1>3, FreshIs
  <2>3. TableInv'
    BY <1>1, <2>1, <2>2, EffectKeeps
  <2>4. AnswerOK'
    BY <1>1, <2>1, <2>2, AnswerKept
  <2>5. QED
    BY <1>2, <2>3, <2>4
<1>4. ASSUME NEW n \in Names, NEW c \in Contents, RegisterExisting(n, c)
      PROVE  IInv'
  <2>1. UNCHANGED <<rows, clock>>
    BY <1>4 DEF RegisterExisting
  <2>2. TableInv'
    BY <1>1, <2>1 DEF TableInv, TableOK, Hashed, OneActive, LineageHasOneName,
                      Youngest, Active, Present
  <2>3. QED
    BY <1>1, <1>2, <1>4, <2>2, ExistingAnswer
<1>5. ASSUME NEW n \in Names, NEW c \in Contents, RegisterReplace(n, c)
      PROVE  IInv'
  <2>1. PICK i \in GetByName(n) :
          /\ Effect({i}, {IdFor(i, c)}, n, rows[i].lineage)
          /\ Admissible({i}, {IdFor(i, c)}, n, rows[i].lineage)
    BY <1>1, <1>5, ReplaceIs
  <2>2. answer'.kind # "exists" /\ UNCHANGED clock
    BY <1>1, <1>5, ReplaceIs
  <2>3. TableInv'
    BY <1>1, <2>1, <2>2, EffectKeeps
  <2>4. AnswerOK'
    BY <1>1, <2>1, <2>2, AnswerKept
  <2>5. QED
    BY <1>2, <2>3, <2>4
<1>6. ASSUME NEW n \in Names, NEW c \in Contents, RegisterTorn(n, c)
      PROVE  IInv'
  <2>1. PICK i \in GetByName(n) : i \in DOMAIN rows /\ rows' = Deleted(i)
    BY <1>1, <1>6, TornIs
  <2>2. answer'.kind # "exists" /\ UNCHANGED clock
    BY <1>1, <1>6, TornIs
  <2>3. Effect({i}, {}, n, None) /\ Admissible({i}, {}, n, None)
    BY <1>1, <2>1, DeleteIs
  <2>4. TableInv'
    BY <1>1, <2>2, <2>3, EffectKeeps
  <2>5. AnswerOK'
    BY <1>1, <2>2, <2>3, AnswerKept
  <2>6. QED
    BY <1>2, <2>4, <2>5
<1>7. ASSUME NEW i \in DOMAIN rows, SoftDelete(i)
      PROVE  IInv'
  <2>1. rows' = Deleted(i) /\ UNCHANGED clock /\ answer' = answer
    BY <1>7 DEF SoftDelete
  <2>2. Effect({i}, {}, None, None) /\ Admissible({i}, {}, None, None)
    BY <1>1, <2>1, DeleteIs
  <2>3. TableInv'
    BY <1>1, <2>1, <2>2, EffectKeeps
  <2>4. AnswerOK'
    BY <1>1, <2>1, <2>2, AnswerKept
  <2>5. QED
    BY <1>2, <2>3, <2>4
<1>8. CASE Tick
  <2>1. clock' = clock + 1 /\ clock < MaxClock /\ UNCHANGED <<rows, answer>>
    BY <1>8 DEF Tick
  <2>2. TableOK'
    <3>1. \A i \in DOMAIN rows : rows[i].created \in 0..MaxClock
      BY <1>1 DEF TableInv, TableOK, Row
    <3>2. clock \in 0..MaxClock /\ \A i \in DOMAIN rows : rows[i].created <= clock
      BY <1>1 DEF TableInv, TableOK
    <3>3. clock' \in 0..MaxClock /\ \A i \in DOMAIN rows : rows[i].created <= clock'
      BY <2>1, <3>1, <3>2, RegistryAssumption
    <3>4. QED
      BY <1>1, <2>1, <3>3 DEF TableInv, TableOK
  <2>3. TableInv' /\ AnswerOK'
    BY <1>1, <2>1, <2>2 DEF TableInv, Hashed, OneActive, LineageHasOneName, Youngest,
                            Active, Present, AnswerOK
  <2>4. QED
    BY <1>2, <2>3
<1>9. CASE UNCHANGED vars
  BY <1>1, <1>2, <1>9 DEF vars, TableInv, TableOK, Hashed, OneActive, LineageHasOneName,
                          Youngest, Active, Present, AnswerOK
<1>10. QED
  BY <1>3, <1>4, <1>5, <1>6, <1>7, <1>8, <1>9 DEF Next, Register

(* The table's invariant holds for ever: ids, lineages and names agree,    *)
(* and the active row of a lineage is its youngest.                        *)
THEOREM Invariance == Spec => []IInv
<1>1. QED
  BY InitOK, StepKeeps, PTL DEF Spec

-----------------------------------------------------------------------------
(* Nobody else's, whole, and one row in force: two active rows share       *)
(* neither name nor lineage, a lineage keeps one name, and the active row  *)
(* is version N of N.                                                      *)
THEOREM Lineages == Spec => []LineagesSound
<1>1. IInv => LineagesSound
  <2> SUFFICES ASSUME IInv PROVE LineagesSound
    OBVIOUS
  <2>1. LatestIsLast
    <3>1. SUFFICES ASSUME NEW i \in DOMAIN rows, Active(i)
                   PROVE  VersionForId(i) = LineageVersionCount(rows[i].lineage)
      BY DEF LatestIsLast
    <3>2. { j \in Of(rows[i].lineage) : rows[j].created <= rows[i].created }
            = Of(rows[i].lineage)
      BY <3>1 DEF IInv, Youngest, Of
    <3>3. QED
      BY <3>2 DEF VersionForId, LineageVersionCount
  <2>2. QED
    BY <2>1 DEF IInv, LineagesSound
<1>2. QED
  BY <1>1, Invariance, PTL

(* register answers an existing row of another name only where that row    *)
(* is of a lineage from before lineages had ids.                           *)
THEOREM Aliases == Spec => []NoAliasing
<1>1. IInv => NoAliasing
  BY DEF IInv, AnswerOK, NoAliasing
<1>2. QED
  BY <1>1, Invariance, PTL

(* A name with an active bundle loses it only to a deletion or to a        *)
(* replacement whose insert failed, which says so.                         *)
THEOREM Survival == Spec => NameSurvives
<1>1. ASSUME IInv, [Next]_vars, NEW n \in Names, GetByName(n) # {}, GetByName(n)' = {}
      PROVE  answer' = answer \/ (answer'.kind = "error" /\ answer'.name = n)
  <2>1. TableInv
    BY <1>1 DEF IInv, TableInv
  <2>2. PICK i \in DOMAIN rows : ~rows[i].deleted /\ rows[i].name = n
    BY <1>1 DEF GetByName
  <2>3. ASSUME NEW m \in Names, NEW c \in Contents, RegisterFresh(m, c)
        PROVE  FALSE
    <3>1. PICK l \in Ulids : Effect({}, {Hash(l, c)}, m, l)
      BY <2>1, <2>3, FreshIs
    <3>2. QED
      BY <1>1, <2>2, <3>1 DEF Effect, GetByName
  <2>4. ASSUME NEW m \in Names, NEW c \in Contents, RegisterExisting(m, c)
        PROVE  FALSE
    BY <1>1, <2>4 DEF RegisterExisting, GetByName
  <2>5. ASSUME NEW m \in Names, NEW c \in Contents, RegisterReplace(m, c)
        PROVE  FALSE
    <3>1. PICK j \in GetByName(m) : Effect({j}, {IdFor(j, c)}, m, rows[j].lineage)
      BY <2>1, <2>5, ReplaceIs
    <3>2. CASE i = j
      <4>1. rows[j].name = m
        BY DEF GetByName
      <4>2. IdFor(j, c) \in GetByName(n)'
        BY <2>2, <3>1, <3>2, <4>1 DEF Effect, GetByName
      <4>3. QED
        BY <1>1, <4>2
    <3>3. CASE i # j
      BY <1>1, <2>2, <3>1, <3>3 DEF Effect, GetByName
    <3>4. QED
      BY <3>2, <3>3
  <2>6. ASSUME NEW m \in Names, NEW c \in Contents, RegisterTorn(m, c)
        PROVE  answer'.kind = "error" /\ answer'.name = n
    <3>1. PICK j \in GetByName(m) : j \in DOMAIN rows /\ rows' = Deleted(j)
      BY <2>1, <2>6, TornIs
    <3>2. Effect({j}, {}, m, None)
      BY <2>1, <3>1, DeleteIs
    <3>3. i = j
      BY <1>1, <2>2, <3>2 DEF Effect, GetByName
    <3>4. m = n
      BY <2>2, <3>3 DEF GetByName
    <3>5. QED
      BY <2>1, <2>6, <3>4, TornIs
  <2>7. QED
    BY <1>1, <2>3, <2>4, <2>5, <2>6
       DEF Next, Register, SoftDelete, Tick, vars
<1>2. IInv /\ [Next]_vars =>
        [\A n \in Names : GetByName(n) # {} /\ GetByName(n)' = {} =>
           \/ answer' = answer
           \/ answer'.kind = "error" /\ answer'.name = n]_vars
  BY <1>1
<1>3. QED
  BY <1>2, Invariance, PTL DEF Spec, NameSurvives

-----------------------------------------------------------------------------
(* The lineage contract.                                                   *)
CurrentOf(l) ==
  IF Of(l) = {} THEN Unborn
  ELSE IF GetActiveForLineage(l) = {} THEN Dormant
  ELSE CHOOSE i \in GetActiveForLineage(l) : TRUE

LEMMA CurrentIs ==
  ASSUME OneActive, NEW i \in DOMAIN rows, Active(i)
  PROVE  CurrentOf(rows[i].lineage) = i
<1>1. GetActiveForLineage(rows[i].lineage) = {i}
  BY DEF OneActive, GetActiveForLineage, Of, Active, Present
<1>2. Of(rows[i].lineage) # {}
  BY DEF Of
<1>3. QED
  BY <1>1, <1>2 DEF CurrentOf

(* The lineages an effect does not touch look the same after it.           *)
LEMMA Untouched ==
  ASSUME NEW gone, NEW new, NEW n, NEW l, Effect(gone, new, n, l),
         NEW m, new = {} \/ m # l,
         \A j \in DOMAIN rows : j \in gone => rows[j].deleted \/ rows[j].lineage # m
  PROVE  Of(m)' = Of(m) /\ CurrentOf(m)' = CurrentOf(m)
<1>1. Of(m)' = Of(m)
  BY DEF Of, Effect
<1>2. GetActiveForLineage(m)' = GetActiveForLineage(m)
  BY <1>1 DEF GetActiveForLineage, Of, Effect
<1>3. QED
  BY <1>1, <1>2 DEF CurrentOf

LEMMA LineageStep ==
  ASSUME TableInv, TableInv', [Next]_vars
  PROVE  [Follow!LineageNext]_(Follow!lineage)
<1> DEFINE current == [l \in LineageId |-> CurrentOf(l)]
           past == [l \in LineageId |-> Of(l)]
           Same == \A m \in LineageId : CurrentOf(m)' = CurrentOf(m) /\ Of(m)' = Of(m)
<1>1. OneActive /\ OneActive' /\ \A i \in DOMAIN rows : rows[i].lineage \in LineageId /\ i \in Id
  BY DEF TableInv, TableOK, Row
<1>2. ASSUME Same PROVE [Follow!LineageNext]_(Follow!lineage)
  <2>1. current' = current /\ past' = past
    BY <1>2
  <2>2. QED
    BY <2>1 DEF Follow!lineage, CurrentOf
<1>3. ASSUME NEW i \in DOMAIN rows, rows' = Deleted(i)
      PROVE  [Follow!LineageNext]_(Follow!lineage)
  <2>0. PICK l \in LineageId : l = rows[i].lineage
    BY <1>1
  <2>1. Effect({i}, {}, None, None)
    BY <1>3, DeleteIs
  <2>2. CASE rows[i].deleted
    BY <1>2, <2>1, <2>2, Untouched
  <2>3. CASE ~rows[i].deleted
    <3>1. CurrentOf(l) = i
      BY <1>1, <2>0, <2>3, CurrentIs DEF Active, Present
    <3>2. Of(l)' = Of(l) /\ Of(l) # {}
      BY <2>0, <2>1 DEF Effect, Of
    <3>3. GetActiveForLineage(l)' = {}
      BY <1>1, <2>0, <2>1, <2>3, <3>2 DEF GetActiveForLineage, Of, Effect, OneActive, Active, Present
    <3>4. CurrentOf(l)' = Dormant
      BY <3>2, <3>3 DEF CurrentOf
    <3>5. \A m \in LineageId : m # l => Of(m)' = Of(m) /\ CurrentOf(m)' = CurrentOf(m)
      BY <2>0, <2>1, Untouched
    <3>6. past' = past
      BY <3>2, <3>5
    <3>7. current' = [current EXCEPT ![l] = Dormant]
      BY <1>1, <3>4, <3>5
    <3>8. current[l] \in Id
      BY <1>1, <3>1
    <3>9. Follow!Drop(l)
      BY <3>6, <3>7, <3>8 DEF Follow!Drop, CurrentOf
    <3>10. QED
      BY <1>1, <3>9 DEF Follow!LineageNext
  <2>4. QED
    BY <2>2, <2>3
<1>4. ASSUME NEW gone, NEW k \in Id, NEW n, NEW l \in LineageId,
             Effect(gone, {k}, n, l),
             \A j \in gone : j \in DOMAIN rows /\ rows[j].lineage = l
      PROVE  /\ current' = [current EXCEPT ![l] = k]
             /\ past' = [past EXCEPT ![l] = @ \cup {k}]
             /\ k \notin past[l]
  <2>1. k \in DOMAIN rows' /\ k \notin DOMAIN rows /\ rows'[k].lineage = l /\ ~rows'[k].deleted
    BY <1>4 DEF Effect
  <2>2. Of(l)' = Of(l) \cup {k} /\ k \notin Of(l)
    BY <1>4, <2>1 DEF Effect, Of
  <2>3. GetActiveForLineage(l)' = {k}
    BY <1>1, <2>1 DEF GetActiveForLineage, Of, OneActive, Active, Present
  <2>4. CurrentOf(l)' = k
    BY <2>2, <2>3 DEF CurrentOf
  <2>5. \A m \in LineageId : m # l => Of(m)' = Of(m) /\ CurrentOf(m)' = CurrentOf(m)
    BY <1>4, Untouched
  <2>6. QED
    BY <2>2, <2>4, <2>5
<1> HIDE DEF current, past
<1>5. ASSUME NEW n \in Names, NEW c \in Contents, RegisterFresh(n, c)
      PROVE  [Follow!LineageNext]_(Follow!lineage)
  <2>1. PICK l \in Ulids :
          Effect({}, {Hash(l, c)}, n, l) /\ Of(l) = {} /\ l \in LineageId
    BY <1>5, FreshIs
  <2>2. Hash(l, c) \in Id
    BY <2>1, Ids
  <2>3. PICK k \in Id : k = Hash(l, c)
    BY <2>2
  <2>4. PICK gone \in SUBSET DOMAIN rows : gone = {}
    OBVIOUS
  <2>5. Effect(gone, {k}, n, l) /\ \A j \in gone : j \in DOMAIN rows /\ rows[j].lineage = l
    BY <2>1, <2>3, <2>4
  <2>6. /\ current' = [current EXCEPT ![l] = k]
        /\ past' = [past EXCEPT ![l] = @ \cup {k}]
        /\ k \notin past[l]
    <3>1. l \in LineageId
      BY <2>1
    <3>2. QED
      BY <1>4, <2>5, <3>1
  <2>7. current[l] = Unborn /\ past[l] = {}
    BY <2>1 DEF CurrentOf, current, past
  <2>8. past' = [past EXCEPT ![l] = {k}]
    <3>1. past[l] \cup {k} = {k}
      BY <2>7
    <3>2. QED
      BY <2>6, <3>1
  <2>9. Follow!Found(l, k)
    BY <2>6, <2>7, <2>8 DEF Follow!Found, CurrentOf, current, past
  <2>10. QED
    BY <2>1, <2>9 DEF Follow!LineageNext
<1>6. ASSUME NEW n \in Names, NEW c \in Contents, RegisterReplace(n, c)
      PROVE  [Follow!LineageNext]_(Follow!lineage)
  <2>1. PICK i \in GetByName(n) :
          /\ Effect({i}, {IdFor(i, c)}, n, rows[i].lineage)
          /\ Admissible({i}, {IdFor(i, c)}, n, rows[i].lineage)
    BY <1>6, ReplaceIs
  <2>2. i \in DOMAIN rows /\ Active(i) /\ i \in Id
    BY <1>1 DEF GetByName, Active, Present
  <2>3. PICK l \in LineageId : l = rows[i].lineage
    BY <1>1, <2>2
  <2>4. PICK k \in Id : k = IdFor(i, c)
    BY <2>1 DEF Admissible
  <2>5. Effect({i}, {k}, n, l)
    BY <2>1, <2>3, <2>4
  <2>6. /\ current' = [current EXCEPT ![l] = k]
        /\ past' = [past EXCEPT ![l] = @ \cup {k}]
        /\ k \notin past[l]
    <3>1. \A j \in {i} : j \in DOMAIN rows /\ rows[j].lineage = l
      BY <2>2, <2>3
    <3>2. QED
      BY <1>4, <2>5, <3>1
  <2>7. current[l] \in Id
    BY <1>1, <2>2, <2>3, CurrentIs DEF current
  <2>8. Follow!Replace(l, k)
    BY <2>6, <2>7 DEF Follow!Replace, CurrentOf, current, past
  <2>9. QED
    BY <2>8 DEF Follow!LineageNext
<1>7. ASSUME rows' = rows PROVE [Follow!LineageNext]_(Follow!lineage)
  <2>1. Same
    BY <1>7 DEF CurrentOf, Of, GetActiveForLineage
  <2>2. QED
    BY <1>2, <2>1
<1>8. ASSUME NEW n \in Names, NEW c \in Contents, RegisterTorn(n, c)
      PROVE  [Follow!LineageNext]_(Follow!lineage)
  BY <1>3, <1>8, TornIs
<1>9. ASSUME NEW i \in DOMAIN rows, SoftDelete(i)
      PROVE  [Follow!LineageNext]_(Follow!lineage)
  BY <1>3, <1>9 DEF SoftDelete
<1>10. ASSUME NEW n \in Names, NEW c \in Contents, RegisterExisting(n, c)
       PROVE  rows' = rows
  BY <1>10 DEF RegisterExisting
<1>11. (Tick \/ UNCHANGED vars) => rows' = rows
  BY DEF Tick, vars
<1>12. QED
  BY <1>5, <1>6, <1>7, <1>8, <1>9, <1>10, <1>11 DEF Next, Register

(* The table implements the lineage contract for every instance: one       *)
(* current version, no way back to one that was left, none out of          *)
(* dormancy.                                                               *)
THEOREM Refinement == Spec => ImplementsLineage
<1>1. Init => Follow!LineageInit
  <2> SUFFICES ASSUME Init PROVE Follow!LineageInit
    OBVIOUS
  <2> DEFINE current == [l \in LineageId |-> CurrentOf(l)]
             past == [l \in LineageId |-> Of(l)]
  <2>1. OneActive /\ DOMAIN rows \subseteq Id
    BY InitOK DEF IInv, TableOK
  <2>2. \A l \in LineageId : Of(l) \subseteq Id
    BY <2>1 DEF Of
  <2>3. \A l \in LineageId :
          \/ Of(l) = {} /\ CurrentOf(l) = Unborn
          \/ Of(l) # {} /\ CurrentOf(l) = Dormant
          \/ Of(l) # {} /\ CurrentOf(l) \in Of(l)
    BY DEF CurrentOf, GetActiveForLineage
  <2>4. /\ current \in [LineageId -> Id \cup {Unborn, Dormant}]
        /\ past \in [LineageId -> SUBSET Id]
    BY <2>2, <2>3
  <2>5. \A l \in LineageId :
          /\ current[l] = Unborn <=> past[l] = {}
          /\ current[l] \in Id => current[l] \in past[l]
    BY <2>2, <2>3, MarkAssumption
  <2>6. QED
    BY <2>4, <2>5 DEF Follow!LineageInit, CurrentOf
<1>2. IInv /\ IInv' /\ [Next]_vars => [Follow!LineageNext]_(Follow!lineage)
  BY LineageStep DEF IInv, TableInv
<1>3. QED
  BY <1>1, <1>2, Invariance, PTL DEF Spec, ImplementsLineage, Follow!LineageSpec
===============================================================================
