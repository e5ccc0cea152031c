----------------------------- MODULE Reads_proofs -----------------------------
(***************************************************************************)
(* Proofs about what is read: the dashboard, for any strategies, any       *)
(* number of overlapping requests, and deletes and captures in between;    *)
(* the lists, totals and logs of Reads, for any tables, histories, chains; *)
(* the host functions of a strategy, for any texts, overloads, arguments;  *)
(* the captures of a run, for any ABIs, specs and execution rows.          *)
(***************************************************************************)
EXTENDS Dashboard, Requests, FiniteSetTheorems, SequenceTheorems, WellFoundedInduction, TLAPS

Flying(r) == pc[r] \in {"render", "store", "fallback"}

(* Types, with those of the answers and of the history that TypeOK leaves  *)
(* to the model checker.                                                   *)
TypeInv ==
    /\ TypeOK
    /\ answer = [r \in Readers |-> answer[r]]
    /\ base \in [Readers -> [Strategies -> Nat]]
    /\ \A r \in Readers : Flying(r) => reading[r] \in Strategies

(* What StaleIsLatestGood says of a row, and that no row holds more than   *)
(* there is.                                                               *)
CacheInv(s) ==
    /\ best[s] <= records[s]
    /\ cache[s] # None =>
          /\ ~overtaken[s] => cache[s] = best[s]
          /\ cache[s] >= rowLow[s]

(* A rendering in flight has seen at least what was stored when it began.  *)
FlightInv(r) ==
    Flying(r) => flightLow[r] <= seen[r] /\ seen[r] <= records[reading[r]]

(* What a request holds is not older than the request, and only a strategy *)
(* without a view is missing.                                              *)
Fresh(r, s) ==
    got[r][s] # None =>
        /\ got[r][s].confidence = "full" => got[r][s].seen >= base[r][s]
        /\ got[r][s].confidence = "missing" => s \in Viewless

RequestInv(r) ==
    /\ \A s \in Strategies : base[r][s] <= records[s] /\ Fresh(r, s)
    /\ Flying(r) => seen[r] >= base[r][reading[r]]
    /\ pc[r] = "idle" => \A s \in Strategies : got[r][s] = None
    /\ pc[r] # "done" => answer[r] = None

\* FullMeansRendered of one request.
FullIsRendered(r) ==
    answer[r] # None /\ answer[r].confidence = "full" =>
        /\ answer[r].status \in {"ok", "no_provider"}
        /\ \A s \in Strategies : got[r][s] # None =>
              \/ s \in Viewless
              \/ got[r][s].confidence = "full" /\ got[r][s].seen >= base[r][s]

IInv ==
    /\ TypeInv
    /\ \A s \in Strategies : CacheInv(s)
    /\ \A r \in Readers : FlightInv(r) /\ RequestInv(r) /\ FullIsRendered(r)

-----------------------------------------------------------------------------
LEMMA LargerOf ==
    ASSUME NEW m \in Nat, NEW n \in Nat
    PROVE  /\ Max({m, n}) \in {m, n}
           /\ m <= Max({m, n})
           /\ m <= n => Max({m, n}) = n
<1>1. \E x \in {m, n} : \A y \in {m, n} : x >= y
  OBVIOUS
<1>2. Max({m, n}) \in {m, n} /\ \A y \in {m, n} : Max({m, n}) >= y
  BY <1>1 DEF Max
<1>3. QED
  BY <1>2

LEMMA EnvelopeType ==
    ASSUME NEW n \in Nat
    PROVE  /\ [confidence |-> "full", seen |-> n] \in Envelope
           /\ [confidence |-> "stale", seen |-> n] \in Envelope
           /\ [confidence |-> "partial"] \in Envelope
           /\ [confidence |-> "missing"] \in Envelope
BY DEF Envelope

(* Keeping an envelope ends the rendering, if there was one.               *)
LEMMA KeepType ==
    ASSUME TypeInv, NEW r \in Readers, NEW s \in Strategies, NEW e \in Envelope, Keep(r, s, e)
    PROVE  /\ got' \in [Readers -> [Strategies -> Envelope \cup {None}]]
           /\ pc' \in [Readers -> {"idle", "next", "render", "store", "fallback", "done"}]
           /\ reading' \in [Readers -> Strategies \cup {None}]
           /\ seen' \in [Readers -> Nat]
           /\ ~Flying(r)'
           /\ \A q \in Readers \ {r} : Flying(q)' => Flying(q) /\ reading'[q] = reading[q]
BY DEF TypeInv, TypeOK, Keep, Flying

LEMMA InitIInv == Init => IInv
<1> SUFFICES ASSUME Init PROVE IInv
  OBVIOUS
<1>1. TypeInv
  BY DEF Init, TypeInv, TypeOK, Flying
<1>2. \A s \in Strategies : CacheInv(s)
  BY DEF Init, CacheInv
<1>3. \A r \in Readers : FlightInv(r) /\ RequestInv(r) /\ FullIsRendered(r)
  BY DEF Init, FlightInv, RequestInv, FullIsRendered, Fresh, Flying
<1> QED
  BY <1>1, <1>2, <1>3 DEF IInv

-----------------------------------------------------------------------------
(* One step of a request keeps the types.                                  *)
LEMMA ReadType ==
    ASSUME TypeInv, NEW r \in Readers, Read(r)
    PROVE  TypeInv'
<1>1. ASSUME NEW s \in Strategies, NEW e \in Envelope, Keep(r, s, e),
             UNCHANGED <<active, records, answer, base>>,
             todo' = todo \/ todo' = [todo EXCEPT ![r] = @ \ {s}],
             cache' \in [Strategies -> Nat \cup {None}],
             best' \in [Strategies -> Nat], rowLow' \in [Strategies -> Nat],
             overtaken' \in [Strategies -> BOOLEAN], UNCHANGED flightLow
      PROVE  TypeInv'
  <2>1. todo' \in [Readers -> SUBSET Strategies]
    <3>1. todo \in [Readers -> SUBSET Strategies] /\ todo[r] \ {s} \in SUBSET Strategies
      BY DEF TypeInv, TypeOK
    <3>2. CASE todo' = [todo EXCEPT ![r] = todo[r] \ {s}]
      BY <3>1, <3>2
    <3> QED
      BY <1>1, <3>1, <3>2
  <2>2. TypeOK'
    BY <1>1, <2>1, KeepType DEF TypeInv, TypeOK
  <2>3. answer' = [q \in Readers |-> answer'[q]] /\ base' \in [Readers -> [Strategies -> Nat]]
    BY <1>1 DEF TypeInv
  <2>4. \A q \in Readers : Flying(q)' => reading'[q] \in Strategies
    BY <1>1, KeepType DEF TypeInv
  <2> QED
    BY <2>2, <2>3, <2>4 DEF TypeInv
<1>2. CASE List(r)
  BY <1>2 DEF List, TypeInv, TypeOK, Flying, store
<1>14. CASE ListFails(r)
  BY <1>14 DEF ListFails, TypeInv, TypeOK, Flying, store, locals, ghosts
<1>3. CASE Render(r)
  BY <1>3 DEF Render, TypeInv, TypeOK, Flying, store, locals, ghosts
<1>4. CASE Answer(r)
  <2>1. answer' = [q \in Readers |-> answer'[q]]
    BY <1>4 DEF Answer, TypeInv
  <2> QED
    BY <1>4, <2>1 DEF Answer, TypeInv, TypeOK, Flying, store, locals, ghosts
<1>5. CASE AnswerView(r)
  BY <1>5 DEF AnswerView, TypeInv, TypeOK, Flying, store, ghosts
<1>6. ASSUME NEW s \in Strategies, Open(r, s) PROVE TypeInv'
  BY <1>6 DEF Open, TypeInv, TypeOK, Flying, store, ghosts
<1>7. ASSUME NEW s \in Strategies, Snapshot(r, s) PROVE TypeInv'
  BY <1>7 DEF Snapshot, TypeInv, TypeOK, Flying, store
<1>8. ASSUME NEW s \in Strategies, NoView(r, s) PROVE TypeInv'
  BY <1>1, <1>8, EnvelopeType DEF NoView, TypeInv, TypeOK, store, ghosts
<1>9. ASSUME NEW s \in Strategies, SnapshotFails(r, s) PROVE TypeInv'
  BY <1>1, <1>9, EnvelopeType DEF SnapshotFails, TypeInv, TypeOK, store, ghosts
<1>10. ASSUME NEW s \in Strategies, Store(r, s) PROVE TypeInv'
  <2>1. Full(r) \in Envelope
    BY EnvelopeType DEF Full, TypeInv, TypeOK
  <2>2. cache' \in [Strategies -> Nat \cup {None}] /\ best' \in [Strategies -> Nat]
    <3>1. best[s] \in Nat /\ seen[r] \in Nat
      BY DEF TypeInv, TypeOK
    <3>2. Max({best[s], seen[r]}) \in Nat
      BY <3>1, LargerOf
    <3>3. cache' = [cache EXCEPT ![s] = seen[r]] /\ best' = [best EXCEPT ![s] = Max({best[s], seen[r]})]
      BY <1>10 DEF Store, Upsert
    <3> QED
      BY <3>1, <3>2, <3>3 DEF TypeInv, TypeOK
  <2>3. rowLow' \in [Strategies -> Nat] /\ overtaken' \in [Strategies -> BOOLEAN]
    BY <1>10 DEF Store, TypeInv, TypeOK
  <2> QED
    BY <1>1, <1>10, <2>1, <2>2, <2>3 DEF Store
<1>11. ASSUME NEW s \in Strategies, StoreFails(r, s) PROVE TypeInv'
  <2>1. Full(r) \in Envelope
    BY EnvelopeType DEF Full, TypeInv, TypeOK
  <2> QED
    BY <1>1, <1>11, <2>1 DEF StoreFails, TypeInv, TypeOK, store, ghosts
<1>12. ASSUME NEW s \in Strategies, Fallback(r, s) PROVE TypeInv'
  <2>1. (IF cache[s] = None THEN [confidence |-> "partial"]
         ELSE [confidence |-> "stale", seen |-> cache[s]]) \in Envelope
    BY EnvelopeType DEF TypeInv, TypeOK
  <2> QED
    BY <1>1, <1>12, <2>1 DEF Fallback, TypeInv, TypeOK, store, ghosts
<1>13. ASSUME NEW s \in Strategies, FallbackFails(r, s) PROVE TypeInv'
  BY <1>1, <1>13, EnvelopeType DEF FallbackFails, TypeInv, TypeOK, store, ghosts
<1> QED
  BY <1>2, <1>3, <1>4, <1>5, <1>6, <1>7, <1>8, <1>9, <1>10, <1>11, <1>12, <1>13, <1>14 DEF Read

LEMMA TypeStep == TypeInv /\ [Next]_vars => TypeInv'
<1> SUFFICES ASSUME TypeInv, [Next]_vars PROVE TypeInv'
  OBVIOUS
<1>1. CASE \E r \in Readers : Read(r)
  BY <1>1, ReadType
<1>2. ASSUME NEW s \in Strategies, Delete(s) \/ DeleteFails(s) PROVE TypeInv'
  <2>1. /\ cache' = cache \/ cache' = [cache EXCEPT ![s] = None]
        /\ best' = best \/ best' = [best EXCEPT ![s] = 0]
        /\ active' \in SUBSET active
        /\ UNCHANGED <<records, pc, todo, reading, seen, got, answer, base, flightLow, rowLow, overtaken>>
    BY <1>2 DEF Delete, DeleteFails, DropCache, locals
  <2>2. cache' \in [Strategies -> Nat \cup {None}] /\ best' \in [Strategies -> Nat]
    <3>1. cache \in [Strategies -> Nat \cup {None}] /\ best \in [Strategies -> Nat]
      BY DEF TypeInv, TypeOK
    <3>2. [cache EXCEPT ![s] = None] \in [Strategies -> Nat \cup {None}]
      BY <3>1
    <3>3. [best EXCEPT ![s] = 0] \in [Strategies -> Nat]
      BY <3>1
    <3> QED
      BY <2>1, <3>1, <3>2, <3>3
  <2>3. active' \subseteq Strategies
    BY <2>1 DEF TypeInv, TypeOK
  <2> QED
    BY <2>1, <2>2, <2>3 DEF TypeInv, TypeOK, Flying
<1>3. ASSUME NEW s \in Strategies, Capture(s) PROVE TypeInv'
  BY <1>3 DEF Capture, TypeInv, TypeOK, Flying, locals, ghosts
<1>4. CASE UNCHANGED vars
  BY <1>4 DEF vars, store, locals, ghosts, TypeInv, TypeOK, Flying
<1> QED
  BY <1>1, <1>2, <1>3, <1>4 DEF Next

-----------------------------------------------------------------------------
LEMMA ReadCache ==
    ASSUME TypeInv, NEW r \in Readers, Read(r),
           \A s \in Strategies : CacheInv(s), \A q \in Readers : FlightInv(q)
    PROVE  /\ \A s \in Strategies : CacheInv(s)'
           /\ \A q \in Readers : FlightInv(q)'
<1> USE DEF TypeInv, TypeOK
<1> DEFINE Goal == /\ \A s \in Strategies : CacheInv(s)'
                   /\ \A q \in Readers : FlightInv(q)'
<1>1. ASSUME UNCHANGED <<cache, best, records, rowLow, overtaken, flightLow, reading, seen>>,
             \A q \in Readers : Flying(q)' => Flying(q)
      PROVE  Goal
  BY <1>1 DEF CacheInv, FlightInv
<1>2. ASSUME NEW s \in Strategies, NEW e \in Envelope, Keep(r, s, e), UNCHANGED <<records, flightLow>>
      PROVE  \A q \in Readers : FlightInv(q)'
  <2>1. ~Flying(r)' /\ \A q \in Readers \ {r} : Flying(q)' => Flying(q) /\ reading'[q] = reading[q]
    BY <1>2, KeepType
  <2>2. \A q \in Readers \ {r} : seen'[q] = seen[q]
    BY <1>2 DEF Keep
  <2> QED
    BY <1>2, <2>1, <2>2 DEF FlightInv
<1>3. ASSUME NEW s \in Strategies, NEW e \in Envelope, Keep(r, s, e),
             UNCHANGED <<cache, best, records, rowLow, overtaken, flightLow>>
      PROVE  Goal
  <2>1. \A t \in Strategies : CacheInv(t)'
    BY <1>3 DEF CacheInv
  <2> QED
    BY <1>2, <1>3, <2>1
<1>4. CASE List(r)
  BY <1>1, <1>4 DEF List, Flying, store
<1>5. CASE ListFails(r)
  BY <1>1, <1>5 DEF ListFails, Flying, store, locals, ghosts
<1>6. CASE Render(r)
  BY <1>1, <1>6 DEF Render, Flying, store, locals, ghosts
<1>7. CASE Answer(r)
  BY <1>1, <1>7 DEF Answer, Flying, store, locals, ghosts
<1>8. CASE AnswerView(r)
  BY <1>1, <1>8 DEF AnswerView, Flying, store, ghosts
<1>9. ASSUME NEW s \in Strategies, Open(r, s) PROVE Goal
  BY <1>1, <1>9 DEF Open, Flying, store, ghosts
<1>10. ASSUME NEW s \in Strategies, Snapshot(r, s) PROVE Goal
  <2>1. UNCHANGED <<cache, best, records, rowLow, overtaken>>
    BY <1>10 DEF Snapshot, store
  <2>2. seen'[r] = records[s] /\ flightLow'[r] = best[s] /\ reading'[r] = s
    BY <1>10 DEF Snapshot
  <2>3. best[s] <= records[s] /\ records[s] \in Nat /\ best[s] \in Nat
    BY DEF CacheInv
  <2>4. FlightInv(r)'
    BY <2>1, <2>2, <2>3 DEF FlightInv
  <2>5. \A q \in Readers \ {r} :
           /\ pc'[q] = pc[q] /\ seen'[q] = seen[q]
           /\ flightLow'[q] = flightLow[q] /\ reading'[q] = reading[q]
    BY <1>10 DEF Snapshot
  <2>6. \A q \in Readers \ {r} : FlightInv(q)'
    BY <2>1, <2>5 DEF FlightInv, Flying
  <2>7. \A t \in Strategies : CacheInv(t)'
    BY <2>1 DEF CacheInv
  <2> QED
    BY <2>4, <2>6, <2>7
<1>11. ASSUME NEW s \in Strategies, NoView(r, s) PROVE Goal
  BY <1>3, <1>11, EnvelopeType DEF NoView, store, ghosts
<1>12. ASSUME NEW s \in Strategies, SnapshotFails(r, s) PROVE Goal
  BY <1>3, <1>12, EnvelopeType DEF SnapshotFails, store, ghosts
<1>13. ASSUME NEW s \in Strategies, Store(r, s) PROVE Goal
  <2>1. Keep(r, s, Full(r)) /\ UNCHANGED <<records, flightLow>> /\ Full(r) \in Envelope
    BY <1>13, EnvelopeType DEF Store, Full
  <2>2. ASSUME NEW t \in Strategies \ {s} PROVE CacheInv(t)'
    <3>1. /\ cache'[t] = cache[t] /\ best'[t] = best[t] /\ records'[t] = records[t]
          /\ rowLow'[t] = rowLow[t] /\ overtaken'[t] = overtaken[t]
      BY <1>13, <2>2 DEF Store, Upsert
    <3> QED
      BY <3>1 DEF CacheInv
  <2>3. CacheInv(s)'
    <3>1. flightLow[r] <= seen[r] /\ seen[r] <= records[s]
      BY <1>13 DEF Store, FlightInv, Flying
    <3>2. best[s] <= records[s]
      BY DEF CacheInv
    <3>3. /\ cache'[s] = seen[r] /\ rowLow'[s] = flightLow[r] /\ records'[s] = records[s]
          /\ best'[s] = Max({best[s], seen[r]}) /\ overtaken'[s] = (best[s] > flightLow[r])
      BY <1>13 DEF Store, Upsert
    <3>4. /\ flightLow[r] \in Nat /\ seen[r] \in Nat /\ best[s] \in Nat /\ records[s] \in Nat
      OBVIOUS
    <3>5. best'[s] <= records'[s]
      <4>1. Max({best[s], seen[r]}) \in {best[s], seen[r]}
        BY <3>4, LargerOf
      <4> QED
        BY <3>1, <3>2, <3>3, <3>4, <4>1
    <3>6. ~overtaken'[s] => cache'[s] = best'[s]
      <4>1. SUFFICES ASSUME ~overtaken'[s] PROVE cache'[s] = best'[s]
        OBVIOUS
      <4>2. ~(best[s] > flightLow[r])
        BY <3>3, <4>1
      <4>3. best[s] <= seen[r]
        BY <3>1, <3>4, <4>2
      <4>4. Max({best[s], seen[r]}) = seen[r]
        BY <3>4, <4>3, LargerOf
      <4> QED
        BY <3>3, <4>4
    <3> QED
      BY <3>1, <3>3, <3>5, <3>6 DEF CacheInv
  <2> QED
    BY <1>2, <2>1, <2>2, <2>3
<1>14. ASSUME NEW s \in Strategies, StoreFails(r, s) PROVE Goal
  <2>1. Full(r) \in Envelope
    BY EnvelopeType DEF Full
  <2> QED
    BY <1>3, <1>14, <2>1 DEF StoreFails, store, ghosts
<1>15. ASSUME NEW s \in Strategies, Fallback(r, s) PROVE Goal
  <2>1. (IF cache[s] = None THEN [confidence |-> "partial"]
         ELSE [confidence |-> "stale", seen |-> cache[s]]) \in Envelope
    BY EnvelopeType
  <2> QED
    BY <1>3, <1>15, <2>1 DEF Fallback, store, ghosts
<1>16. ASSUME NEW s \in Strategies, FallbackFails(r, s) PROVE Goal
  BY <1>3, <1>16, EnvelopeType DEF FallbackFails, store, ghosts
<1> QED
  BY <1>4, <1>5, <1>6, <1>7, <1>8, <1>9, <1>10, <1>11, <1>12, <1>13, <1>14, <1>15, <1>16 DEF Read

(* What is kept is fresh: full only with what this rendering saw, missing  *)
(* only without a view, stale and partial never count as either.           *)
Honest(r, s, e) ==
    /\ e.confidence = "full" => e.seen >= base[r][s]
    /\ e.confidence = "missing" => s \in Viewless

LEMMA ReadOwn ==
    ASSUME TypeInv, NEW r \in Readers, Read(r), RequestInv(r), FullIsRendered(r)
    PROVE  RequestInv(r)' /\ FullIsRendered(r)'
<1> USE DEF TypeInv, TypeOK
<1>1. ASSUME NEW s \in Strategies, NEW e \in Envelope, Keep(r, s, e), Honest(r, s, e),
             pc[r] \in {"next", "store", "fallback"}, UNCHANGED <<records, base, answer>>
      PROVE  RequestInv(r)' /\ FullIsRendered(r)'
  <2>1. pc'[r] = "next" /\ answer'[r] = None
    BY <1>1 DEF Keep, RequestInv
  <2>2. \A t \in Strategies : got'[r][t] = IF t = s THEN e ELSE got[r][t]
    BY <1>1 DEF Keep
  <2>3. \A t \in Strategies : Fresh(r, t)'
    BY <1>1, <2>2 DEF Fresh, Honest, RequestInv
  <2> QED
    BY <1>1, <2>1, <2>3 DEF RequestInv, FullIsRendered, Flying
<1>13. CASE ListFails(r)
  BY <1>13 DEF ListFails, RequestInv, FullIsRendered, Fresh, Flying, store, locals, ghosts
<1>2. CASE List(r)
  BY <1>2 DEF List, RequestInv, FullIsRendered, Fresh, Flying, store
<1>3. CASE Render(r)
  BY <1>3 DEF Render, RequestInv, FullIsRendered, Fresh, Flying, store, locals, ghosts
<1>4. CASE Answer(r)
  <2>1. RequestInv(r)'
    BY <1>4 DEF Answer, RequestInv, Fresh, Flying, store, locals, ghosts
  <2>2. PICK w \in Walks :
          LET S      == Contributing(got[r])
              merged == Aggregate(S, w.idle)
              status == IF merged.assets # Entries(S) THEN "truncated" ELSE w.status
          IN  answer' = [answer EXCEPT ![r] =
                 [ confidence |-> Confidence(got[r], status), status |-> status,
                   idle |-> w.idle, assets |-> merged.assets,
                   truncated |-> merged.truncated ]]
    BY <1>4 DEF Answer
  <2> DEFINE S == Contributing(got[r])
             status == IF Aggregate(S, w.idle).assets # Entries(S) THEN "truncated" ELSE w.status
  <2>3. answer'[r].status = status /\ answer'[r].confidence = Confidence(got[r], status)
    BY <2>2
  <2>4. ASSUME answer'[r].confidence = "full" PROVE FullIsRendered(r)'
    <3>1. status \in {"ok", "no_provider"}
      <4>1. w.status \in {"no_provider", "rpc_error", "ok", "truncated"}
        BY DEF Walks
      <4>2. status \notin {"truncated", "rpc_error"}
        BY <2>3, <2>4 DEF Confidence
      <4> QED
        BY <4>1, <4>2
    <3>2. ASSUME NEW s \in Strategies, got[r][s] # None, s \notin Viewless
          PROVE  got[r][s].confidence = "full" /\ got[r][s].seen >= base[r][s]
      <4>1. Health(got[r][s]) \notin {"failed", "stale"}
        BY <2>3, <2>4, <3>2 DEF Confidence
      <4>2. Fresh(r, s)
        BY DEF RequestInv
      <4>3. got[r][s].confidence # "missing"
        BY <4>2, <3>2 DEF Fresh
      <4>4. got[r][s].confidence = "full"
        BY <4>1, <4>3 DEF Health
      <4> QED
        BY <4>2, <4>4, <3>2 DEF Fresh
    <3>3. UNCHANGED <<got, base>>
      BY <1>4 DEF Answer, locals, ghosts
    <3> QED
      BY <2>3, <3>1, <3>2, <3>3 DEF FullIsRendered
  <2>5. ASSUME answer'[r].confidence # "full" PROVE FullIsRendered(r)'
    BY <2>5 DEF FullIsRendered
  <2> QED
    BY <2>1, <2>4, <2>5
<1>5. CASE AnswerView(r)
  BY <1>5 DEF AnswerView, RequestInv, FullIsRendered, Fresh, Flying, store, ghosts
<1>6. ASSUME NEW s \in Strategies, Open(r, s) PROVE RequestInv(r)' /\ FullIsRendered(r)'
  BY <1>6 DEF Open, RequestInv, FullIsRendered, Fresh, Flying, store, ghosts
<1>7. ASSUME NEW s \in Strategies, Snapshot(r, s) PROVE RequestInv(r)' /\ FullIsRendered(r)'
  BY <1>7 DEF Snapshot, RequestInv, FullIsRendered, Fresh, Flying, store
<1>8. ASSUME NEW s \in Strategies, NoView(r, s) PROVE RequestInv(r)' /\ FullIsRendered(r)'
  BY <1>1, <1>8, EnvelopeType DEF NoView, Honest, store, ghosts
<1>9. ASSUME NEW s \in Strategies, SnapshotFails(r, s) PROVE RequestInv(r)' /\ FullIsRendered(r)'
  BY <1>1, <1>9, EnvelopeType DEF SnapshotFails, Honest, store, ghosts
<1>10. ASSUME NEW s \in Strategies, Store(r, s) \/ StoreFails(r, s)
       PROVE  RequestInv(r)' /\ FullIsRendered(r)'
  <2>1. Full(r) \in Envelope
    BY EnvelopeType DEF Full
  <2>2. Honest(r, s, Full(r))
    BY <1>10 DEF Honest, Full, RequestInv, Flying, Store, StoreFails
  <2> QED
    BY <1>1, <1>10, <2>1, <2>2 DEF Store, StoreFails, store, ghosts
<1>11. ASSUME NEW s \in Strategies, Fallback(r, s) PROVE RequestInv(r)' /\ FullIsRendered(r)'
  <2> DEFINE e == IF cache[s] = None THEN [confidence |-> "partial"]
                  ELSE [confidence |-> "stale", seen |-> cache[s]]
  <2>1. e \in Envelope
    BY EnvelopeType
  <2>2. Honest(r, s, e)
    BY DEF Honest
  <2> QED
    BY <1>1, <1>11, <2>1, <2>2 DEF Fallback, store, ghosts
<1>12. ASSUME NEW s \in Strategies, FallbackFails(r, s) PROVE RequestInv(r)' /\ FullIsRendered(r)'
  BY <1>1, <1>12, EnvelopeType DEF FallbackFails, Honest, store, ghosts
<1> QED
  BY <1>2, <1>3, <1>4, <1>5, <1>6, <1>7, <1>8, <1>9, <1>10, <1>11, <1>12, <1>13 DEF Read

(* Requests do not touch each other's state.                               *)
LEMMA ReadOthers ==
    ASSUME TypeInv, NEW r \in Readers, Read(r), NEW q \in Readers \ {r},
           RequestInv(q), FullIsRendered(q)
    PROVE  RequestInv(q)' /\ FullIsRendered(q)'
<1>1. /\ pc'[q] = pc[q] /\ seen'[q] = seen[q] /\ reading'[q] = reading[q]
      /\ got'[q] = got[q] /\ answer'[q] = answer[q] /\ base'[q] = base[q]
      /\ records' = records
  <2> USE DEF TypeInv, TypeOK
  <2>1. CASE List(r) \/ ListFails(r) \/ Render(r) \/ AnswerView(r)
    BY <2>1 DEF List, ListFails, Render, AnswerView, store, locals, ghosts
  <2>2. CASE Answer(r)
    BY <2>2 DEF Answer, store, locals, ghosts
  <2>3. CASE \E s \in Strategies :
               Open(r, s) \/ Snapshot(r, s) \/ NoView(r, s) \/ SnapshotFails(r, s)
    BY <2>3 DEF Open, Snapshot, NoView, SnapshotFails, Keep, store, ghosts
  <2>4. CASE \E s \in Strategies :
               Store(r, s) \/ StoreFails(r, s) \/ Fallback(r, s) \/ FallbackFails(r, s)
    BY <2>4 DEF Store, StoreFails, Fallback, FallbackFails, Keep, store, ghosts
  <2> QED
    BY <2>1, <2>2, <2>3, <2>4 DEF Read
<1> QED
  BY <1>1 DEF RequestInv, FullIsRendered, Fresh, Flying

(* Deletes and captures: the cache is dropped or kept, records only grow.  *)
LEMMA OthersKeepIInv ==
    ASSUME IInv, NEW s \in Strategies, Delete(s) \/ DeleteFails(s) \/ Capture(s)
    PROVE  /\ \A t \in Strategies : CacheInv(t)'
           /\ \A r \in Readers : FlightInv(r)' /\ RequestInv(r)' /\ FullIsRendered(r)'
<1> USE DEF IInv, TypeInv, TypeOK
<1>1. UNCHANGED <<pc, reading, seen, got, answer, base, flightLow, rowLow, overtaken>>
  BY DEF Delete, DeleteFails, Capture, locals, ghosts
<1>2. \A t \in Strategies : records'[t] >= records[t] /\ records'[t] \in Nat
  <2>1. records \in [Strategies -> Nat]
    OBVIOUS
  <2>2. CASE Delete(s) \/ DeleteFails(s)
    BY <2>1, <2>2 DEF Delete, DeleteFails
  <2>3. CASE Capture(s)
    BY <2>1, <2>3 DEF Capture
  <2> QED
    BY <2>2, <2>3
<1>3. \A t \in Strategies :
         \/ cache'[t] = cache[t] /\ best'[t] = best[t]
         \/ cache'[t] = None /\ best'[t] = 0
  <2>1. ASSUME NEW t \in Strategies, DropCache(s)
        PROVE  \/ cache'[t] = cache[t] /\ best'[t] = best[t]
               \/ cache'[t] = None /\ best'[t] = 0
    BY <2>1 DEF DropCache
  <2>2. CASE DropCache(s)
    BY <2>1, <2>2
  <2>3. CASE cache' = cache /\ best' = best
    BY <2>3
  <2> QED
    BY <2>2, <2>3 DEF Delete, DeleteFails, Capture, ghosts
<1>4. ASSUME NEW t \in Strategies PROVE CacheInv(t)'
  <2>1. CacheInv(t) /\ rowLow'[t] = rowLow[t] /\ overtaken'[t] = overtaken[t]
    BY <1>1
  <2>2. best[t] \in Nat /\ records[t] \in Nat
    OBVIOUS
  <2> QED
    BY <1>2, <1>3, <2>1, <2>2 DEF CacheInv
<1>7. ASSUME NEW q \in Readers PROVE FlightInv(q)'
  <2>1. /\ pc'[q] = pc[q] /\ flightLow'[q] = flightLow[q] /\ seen'[q] = seen[q] /\ reading'[q] = reading[q]
        /\ seen[q] \in Nat
    BY <1>1
  <2>2. Flying(q) => reading[q] \in Strategies /\ records[reading[q]] \in Nat
    OBVIOUS
  <2> QED
    BY <1>2, <2>1, <2>2 DEF FlightInv, Flying
<1>5. \A r \in Readers : RequestInv(r)'
  BY <1>1, <1>2 DEF RequestInv, Fresh, Flying
<1>6. \A r \in Readers : FullIsRendered(r)'
  BY <1>1 DEF FullIsRendered
<1> QED
  BY <1>4, <1>5, <1>6, <1>7

LEMMA StepIInv == IInv /\ [Next]_vars => IInv'
<1> SUFFICES ASSUME IInv, [Next]_vars PROVE IInv'
  OBVIOUS
<1>1. TypeInv'
  BY TypeStep DEF IInv
<1>2. ASSUME NEW r \in Readers, Read(r) PROVE IInv'
  <2>1. /\ \A t \in Strategies : CacheInv(t)'
        /\ \A q \in Readers : FlightInv(q)'
    BY <1>2, ReadCache DEF IInv
  <2>2. \A q \in Readers : RequestInv(q)' /\ FullIsRendered(q)'
    BY <1>2, ReadOwn, ReadOthers DEF IInv
  <2> QED
    BY <1>1, <2>1, <2>2 DEF IInv
<1>3. ASSUME NEW s \in Strategies, Delete(s) \/ DeleteFails(s) \/ Capture(s) PROVE IInv'
  BY <1>1, <1>3, OthersKeepIInv DEF IInv
<1>4. CASE UNCHANGED vars
  BY <1>1, <1>4 DEF IInv, vars, store, locals, ghosts, CacheInv, FlightInv, RequestInv, Fresh,
                    Flying, FullIsRendered
<1> QED
  BY <1>2, <1>3, <1>4 DEF Next

LEMMA Invariance == Spec => []IInv
BY InitIInv, StepIInv, PTL DEF Spec

-----------------------------------------------------------------------------
(* The cuts of the aggregation.  Entries are totally ordered, so a finite, *)
(* non-empty set of them has a last one: it is the one with the most       *)
(* entries before it, and what it was let in with bounds the whole set.    *)
LEMMA EntryType ==
    ASSUME NEW S \in SUBSET Strategies
    PROVE  /\ IsFiniteSet(Entries(S))
           /\ Entries(S) \subseteq Nat \X Nat
<1>1. IsFiniteSet(S)
  <2>1. IsFiniteSet(Strategies)
    BY StrategiesAssumption
  <2> QED
    BY <2>1, FS_Subset
<1>2. IsFiniteSet(S \X (1..MaxPerStrategy))
  <2>1. 1 \in Int /\ MaxPerStrategy \in Int
    BY BoundsAssumption
  <2>2. IsFiniteSet(1..MaxPerStrategy)
    BY <2>1, FS_Interval
  <2> QED
    BY <1>1, <2>2, FS_Product
<1>3. Entries(S) \in SUBSET (S \X (1..MaxPerStrategy))
  BY DEF Entries
<1>4. IsFiniteSet(Entries(S))
  BY <1>2, <1>3, FS_Subset
<1>5. Entries(S) \subseteq Nat \X Nat
  <2>1. S \subseteq Nat
    BY StrategiesAssumption
  <2>2. 1..MaxPerStrategy \subseteq Nat
    BY BoundsAssumption
  <2> QED
    BY <1>3, <2>1, <2>2
<1> QED
  BY <1>4, <1>5

LEMMA Ordered ==
    ASSUME NEW e \in Nat \X Nat, NEW f \in Nat \X Nat, e # f
    PROVE  Before(e, f) \/ Before(f, e)
BY DEF Before

LEMMA BeforeTransitive ==
    ASSUME NEW e \in Nat \X Nat, NEW f \in Nat \X Nat, NEW g \in Nat \X Nat,
           Before(e, f), Before(f, g)
    PROVE  Before(e, g)
BY DEF Before

LEMMA LastEntry ==
    ASSUME NEW A \in SUBSET (Nat \X Nat), IsFiniteSet(A), A # {}
    PROVE  \E f \in A : \A e \in A \ {f} : Before(e, f)
<1> DEFINE Final(T, f) == \A e \in T \ {f} : Before(e, f)
           Bad == {T \in SUBSET A : T # {} /\ ~\E f \in T : Final(T, f)}
<1>1. SUFFICES ASSUME Bad # {} PROVE FALSE
  OBVIOUS
<1>2. PICK T \in Bad : \A U \in Bad : ~(<<U, T>> \in StrictSubsetOrdering(A))
  <2>1. IsWellFoundedOn(StrictSubsetOrdering(A), FiniteSubsetsOf(A))
    BY FS_StrictSubsetOrderingWellFounded
  <2>2. Bad \subseteq FiniteSubsetsOf(A)
    BY FS_FiniteSubsetsOfFinite
  <2> HIDE DEF Bad
  <2> QED
    BY <1>1, <2>1, <2>2, WFMin
<1>3. PICK x \in T : TRUE
  OBVIOUS
<1> DEFINE U == T \ {x}
<1>4. U # {}
  <2>1. U = {} => Final(T, x)
    OBVIOUS
  <2> QED
    BY <2>1
<1>5. U \notin Bad
  <2>1. <<U, T>> \in StrictSubsetOrdering(A)
    BY <1>3 DEF StrictSubsetOrdering
  <2> QED
    BY <1>2, <2>1
<1>6. PICK f \in U : Final(U, f)
  BY <1>4, <1>5
<1>7. CASE Before(x, f)
  <2>1. Final(T, f)
    BY <1>6, <1>7
  <2> QED
    BY <1>6, <2>1
<1>8. CASE Before(f, x)
  <2>1. ASSUME NEW e \in T \ {x}, e # f PROVE Before(e, x)
    <3>1. Before(e, f)
      BY <1>6, <2>1
    <3> QED
      BY <1>8, <3>1, BeforeTransitive
  <2>2. Final(T, x)
    BY <1>8, <2>1
  <2> QED
    BY <1>3, <2>2
<1> QED
  BY <1>6, <1>7, <1>8, Ordered

(* The list never outgrows what the idle balances leave of the cap.        *)
LEMMA WithinCap ==
    ASSUME NEW S \in SUBSET Strategies, NEW idle \in 0..MaxTotal
    PROVE  /\ IsFiniteSet(Aggregate(S, idle).assets)
           /\ Cardinality(Aggregate(S, idle).assets) \in Nat
           /\ idle + Cardinality(Aggregate(S, idle).assets) <= MaxTotal
<1> DEFINE A == Aggregate(S, idle).assets
<1>1. A \in SUBSET Entries(S) /\ \A f \in A : idle + CountBefore(S, f) < MaxTotal
  BY DEF Aggregate
<1> HIDE DEF A
<1>2. IsFiniteSet(A) /\ A \in SUBSET (Nat \X Nat) /\ Cardinality(A) \in Nat
  BY <1>1, EntryType, FS_Subset, FS_CardinalityType
<1>3. idle \in Nat /\ MaxTotal \in Nat /\ idle <= MaxTotal
  BY BoundsAssumption
<1>4. CASE A = {}
  <2>1. Cardinality(A) = 0
    BY <1>4, FS_EmptySet
  <2> QED
    BY <1>2, <1>3, <2>1 DEF A
<1>5. CASE A # {}
  <2>1. PICK f \in A : \A e \in A \ {f} : Before(e, f)
    BY <1>2, <1>5, LastEntry
  <2> DEFINE B == {e \in Entries(S) : Before(e, f)}
  <2>2. IsFiniteSet(B) /\ Cardinality(B) \in Nat
    <3>1. B \in SUBSET Entries(S)
      OBVIOUS
    <3> QED
      BY <3>1, EntryType, FS_Subset, FS_CardinalityType
  <2>3. A \ {f} \in SUBSET B
    BY <1>1, <2>1
  <2>4. CountBefore(S, f) = Cardinality(B)
    BY DEF CountBefore
  <2> HIDE DEF B
  <2>5. Cardinality(A \ {f}) <= Cardinality(B)
    BY <2>2, <2>3, FS_Subset
  <2>6. Cardinality(A \ {f}) = Cardinality(A) - 1
    BY <1>2, <2>1, FS_RemoveElement
  <2>7. idle + Cardinality(B) < MaxTotal
    BY <1>1, <2>1, <2>4
  <2> QED
    BY <1>2, <1>3, <2>2, <2>5, <2>6, <2>7 DEF A
<1> QED
  BY <1>4, <1>5

(* Where a declared entry is missing without a mark, some entry was cut.   *)
LEMMA CutShows ==
    ASSUME NEW S \in SUBSET Strategies, NEW idle \in 0..MaxTotal,
           NEW s \in S, NEW i \in 1..Declares[s],
           <<s, i>> \notin Aggregate(S, idle).assets,
           s \notin Aggregate(S, idle).truncated
    PROVE  Aggregate(S, idle).assets # Entries(S)
<1> DEFINE A == Aggregate(S, idle).assets
           B == {e \in Entries(S) : Before(e, <<s, 1>>)}
<1>1. Declares[s] \in Nat /\ MaxPerStrategy \in Nat
  BY DeclaresAssumption, BoundsAssumption
<1>2. CASE i <= MaxPerStrategy
  <2>1. <<s, i>> \in Entries(S)
    BY <1>1, <1>2 DEF Entries
  <2> QED
    BY <2>1
<1>3. CASE ~(i <= MaxPerStrategy)
  <2>1. Declares[s] > MaxPerStrategy
    BY <1>1, <1>3
  <2>2. ~(idle + Cardinality(B) <= MaxTotal)
    BY <2>1 DEF Aggregate, CountBefore
  <2>3. B \in SUBSET Entries(S) /\ IsFiniteSet(Entries(S))
    BY EntryType
  <2>4. Cardinality(B) \in Nat
    BY <2>3, FS_Subset, FS_CardinalityType
  <2>5. /\ IsFiniteSet(A) /\ Cardinality(A) \in Nat
        /\ idle + Cardinality(A) <= MaxTotal
    BY WithinCap
  <2> HIDE DEF A, B
  <2>6. A = Entries(S) => Cardinality(B) <= Cardinality(A)
    BY <2>3, <2>5, FS_Subset
  <2>7. A # Entries(S)
    BY <2>2, <2>4, <2>5, <2>6, BoundsAssumption
  <2> QED
    BY <2>7 DEF A
<1> QED
  BY <1>2, <1>3

(* CutsAreTold of one request.                                             *)
CutsTold(r) ==
    answer[r] # None =>
        /\ Cardinality(answer[r].assets) + answer[r].idle <= MaxTotal
        /\ \A s \in Contributing(got[r]) : \A i \in 1..Declares[s] :
              \/ <<s, i>> \in answer[r].assets
              \/ s \in answer[r].truncated
              \/ answer[r].confidence # "full"

LEMMA AnswerTells ==
    ASSUME TypeInv, NEW r \in Readers, Answer(r)
    PROVE  CutsTold(r)'
<1> DEFINE S == Contributing(got[r])
<1>1. PICK w \in Walks :
         LET merged == Aggregate(S, w.idle)
             status == IF merged.assets # Entries(S) THEN "truncated" ELSE w.status
         IN  answer' = [answer EXCEPT ![r] =
                [ confidence |-> Confidence(got[r], status), status |-> status,
                  idle |-> w.idle, assets |-> merged.assets,
                  truncated |-> merged.truncated ]]
  BY DEF Answer
<1>2. S \in SUBSET Strategies
  BY DEF Contributing
<1>3. w.idle \in 0..MaxTotal
  BY BoundsAssumption DEF Walks
<1>4. got' = got /\ r \in DOMAIN answer
  BY DEF Answer, locals, TypeInv
<1> DEFINE merged == Aggregate(S, w.idle)
           status == IF merged.assets # Entries(S) THEN "truncated" ELSE w.status
<1>5. /\ answer'[r].confidence = Confidence(got[r], status)
      /\ answer'[r].idle = w.idle /\ answer'[r].assets = merged.assets
      /\ answer'[r].truncated = merged.truncated
  BY <1>1, <1>4
<1>6. Cardinality(answer'[r].assets) + answer'[r].idle <= MaxTotal
  <2>1. /\ w.idle + Cardinality(merged.assets) <= MaxTotal
        /\ Cardinality(merged.assets) \in Nat
    BY <1>2, <1>3, WithinCap
  <2> QED
    BY <1>3, <1>5, <2>1, BoundsAssumption
<1>7. ASSUME NEW s \in S, NEW i \in 1..Declares[s],
             <<s, i>> \notin merged.assets, s \notin merged.truncated
      PROVE  answer'[r].confidence # "full"
  <2>1. merged.assets # Entries(S)
    BY <1>2, <1>3, <1>7, CutShows
  <2>2. status = "truncated"
    BY <2>1
  <2>3. Confidence(got[r], "truncated") # "full"
    BY DEF Confidence
  <2> QED
    BY <1>5, <2>2, <2>3
<1>8. Contributing(got'[r]) = S
  BY <1>4
<1> HIDE DEF S, merged, status
<1> QED
  BY <1>5, <1>6, <1>7, <1>8 DEF CutsTold

(* An answer is given once, and its envelopes are kept.                    *)
LEMMA AnswerStays ==
    ASSUME IInv, [Next]_vars, NEW r \in Readers
    PROVE  \/ Answer(r)
           \/ answer'[r] = None
           \/ answer'[r] = answer[r] /\ got'[r] = got[r]
<1> USE DEF IInv, TypeInv, TypeOK
<1>1. ASSUME NEW q \in Readers, Read(q), q # r
      PROVE  answer'[r] = answer[r] /\ got'[r] = got[r]
  <2>1. CASE List(q) \/ ListFails(q) \/ Render(q) \/ AnswerView(q)
    BY <1>1, <2>1 DEF List, ListFails, Render, AnswerView, store, locals, ghosts
  <2>2. CASE Answer(q)
    BY <1>1, <2>2 DEF Answer, store, locals, ghosts
  <2>3. CASE \E s \in Strategies :
               Open(q, s) \/ Snapshot(q, s) \/ NoView(q, s) \/ SnapshotFails(q, s)
    BY <1>1, <2>3 DEF Open, Snapshot, NoView, SnapshotFails, Keep, store, ghosts
  <2>4. CASE \E s \in Strategies :
               Store(q, s) \/ StoreFails(q, s) \/ Fallback(q, s) \/ FallbackFails(q, s)
    BY <1>1, <2>4 DEF Store, StoreFails, Fallback, FallbackFails, Keep, store, ghosts
  <2> QED
    BY <1>1, <2>1, <2>2, <2>3, <2>4 DEF Read
<1>2. ASSUME Read(r), ~Answer(r) PROVE answer'[r] = None
  <2>1. pc[r] # "done" /\ answer' = answer
    BY <1>2 DEF Read, List, ListFails, Render, AnswerView, Open, Snapshot, NoView, SnapshotFails,
                Store, StoreFails, Fallback, FallbackFails, ghosts
  <2> QED
    BY <2>1 DEF RequestInv
<1>3. ASSUME NEW s \in Strategies, Delete(s) \/ DeleteFails(s) \/ Capture(s)
      PROVE  answer'[r] = answer[r] /\ got'[r] = got[r]
  BY <1>3 DEF Delete, DeleteFails, Capture, locals, ghosts
<1>4. CASE UNCHANGED vars
  BY <1>4 DEF vars, locals
<1> QED
  BY <1>1, <1>2, <1>3, <1>4 DEF Next

-----------------------------------------------------------------------------
(* The state is well typed for any strategies, requests and bounds.        *)
THEOREM Typing == Spec => []TypeOK
<1>1. IInv => TypeOK
  BY DEF IInv, TypeInv
<1> QED
  BY <1>1, Invariance, PTL

(* The last-known-good row is the one with the most records of those       *)
(* stored since the last drop, unless a better one was stored while it was *)
(* rendered, and never older than what was stored when that began.         *)
THEOREM LatestGood == Spec => []StaleIsLatestGood
<1>1. IInv => StaleIsLatestGood
  BY DEF IInv, CacheInv, StaleIsLatestGood
<1> QED
  BY <1>1, Invariance, PTL

(* A portfolio that says full rendered every listed view in this request,  *)
(* from records no older than it, and its walk was not cut, however many   *)
(* requests, deletes and captures go on meanwhile.  Tokens the walk could  *)
(* not read are not covered.                                               *)
THEOREM FullRendered == Spec => []FullMeansRendered
<1>1. IInv => FullMeansRendered
  BY DEF IInv, FullIsRendered, FullMeansRendered
<1> QED
  BY <1>1, Invariance, PTL

(* No asset is dropped silently: the assets and idle balances of every     *)
(* portfolio fit the total cap, and an entry that a contributing view      *)
(* declared is listed, or its strategy is marked, or the portfolio does    *)
(* not say full (aggregate_strategy_assets, run_balance_walk).             *)
THEOREM CutsTellable == Spec => []CutsAreTold
<1> DEFINE Told == \A r \in Readers : CutsTold(r)
<1>1. Init => Told
  BY DEF Init, CutsTold
<1>2. IInv /\ Told /\ [Next]_vars => Told'
  <2> SUFFICES ASSUME IInv, Told, [Next]_vars, NEW r \in Readers PROVE CutsTold(r)'
    OBVIOUS
  <2>1. CASE Answer(r)
    BY <2>1, AnswerTells DEF IInv
  <2>2. CASE answer'[r] = None
    BY <2>2 DEF CutsTold
  <2>3. CASE answer'[r] = answer[r] /\ got'[r] = got[r]
    <3>1. CutsTold(r)
      OBVIOUS
    <3> QED
      BY <2>3, <3>1 DEF CutsTold
  <2> QED
    BY <2>1, <2>2, <2>3, AnswerStays
<1>3. Told => CutsAreTold
  BY DEF CutsTold, CutsAreTold
<1> QED
  BY <1>1, <1>2, <1>3, Invariance, PTL DEF Spec

-----------------------------------------------------------------------------
(* Lists: rows in a strict order, by their ranks.                          *)

(* A set of naturals has a least member.                                   *)
LEMMA LeastNat ==
  ASSUME NEW T \in SUBSET Nat, T # {}
  PROVE  \E x \in T : \A y \in T : x <= y
<1>1. PICK x \in T : \A y \in T : ~(<<y, x>> \in OpToRel(<, Nat))
  BY NatLessThanWellFounded, WFMin
<1>2. \A y \in T : ~(y < x)
  BY <1>1 DEF OpToRel
<1>3. QED
  BY <1>2

(* Two rows of a list never tie.                                           *)
Strict(rows, before) ==
  /\ IsFiniteSet(rows)
  /\ \A r \in rows : <<r, r>> \notin before
  /\ \A r, s, t \in rows : <<r, s>> \in before /\ <<s, t>> \in before => <<r, t>> \in before
  /\ \A r, s \in rows : r # s => <<r, s>> \in before \/ <<s, r>> \in before

Ahead(rows, before, r) == {s \in rows : <<s, r>> \in before}
Rank(rows, before, r) == Cardinality(Ahead(rows, before, r))

(* The list holds every row once, in order.                                *)
Lists(list, rows, before) ==
  /\ list \in [1..Cardinality(rows) -> rows]
  /\ \A r \in rows : \E i \in 1..Cardinality(rows) : list[i] = r
  /\ \A i, j \in 1..Cardinality(rows) : i < j => <<list[i], list[j]>> \in before

(* A rank grows along the order and is below the number of rows.           *)
LEMMA Ranks ==
  ASSUME NEW rows, NEW before, Strict(rows, before)
  PROVE  /\ Cardinality(rows) \in Nat
         /\ \A r \in rows : /\ Rank(rows, before, r) \in Nat
                            /\ Rank(rows, before, r) + 1 <= Cardinality(rows)
         /\ \A r, s \in rows : <<r, s>> \in before =>
               Rank(rows, before, r) < Rank(rows, before, s)
<1>1. IsFiniteSet(rows) /\ Cardinality(rows) \in Nat
  BY FS_CardinalityType DEF Strict
<1>2. ASSUME NEW r \in rows
      PROVE  /\ IsFiniteSet(Ahead(rows, before, r))
             /\ Rank(rows, before, r) \in Nat
             /\ Rank(rows, before, r) + 1 <= Cardinality(rows)
  <2>1. Ahead(rows, before, r) \in SUBSET (rows \ {r})
    BY DEF Ahead, Strict
  <2>2. IsFiniteSet(rows \ {r}) /\ Cardinality(rows \ {r}) = Cardinality(rows) - 1
    BY <1>1, FS_RemoveElement
  <2>3. IsFiniteSet(Ahead(rows, before, r)) /\ Rank(rows, before, r) <= Cardinality(rows) - 1
    BY <2>1, <2>2, FS_Subset DEF Rank
  <2>4. Rank(rows, before, r) \in Nat
    BY <2>3, FS_CardinalityType DEF Rank
  <2>5. QED
    BY <1>1, <2>3, <2>4
<1>3. ASSUME NEW r \in rows, NEW s \in rows, <<r, s>> \in before
      PROVE  Rank(rows, before, r) < Rank(rows, before, s)
  <2>1. Ahead(rows, before, r) \in SUBSET Ahead(rows, before, s)
    BY <1>3 DEF Ahead, Strict
  <2>2. r \in Ahead(rows, before, s) /\ r \notin Ahead(rows, before, r)
    BY <1>3 DEF Ahead, Strict
  <2>3. IsFiniteSet(Ahead(rows, before, s))
    BY <1>2
  <2>4. Rank(rows, before, r) <= Rank(rows, before, s) /\ Rank(rows, before, r) # Rank(rows, before, s)
    BY <2>1, <2>2, <2>3, FS_Subset DEF Rank
  <2>5. QED
    BY <2>4, <1>2
<1>4. QED
  BY <1>1, <1>2, <1>3

(* Ranks are different, so every place is taken, and by one row only.      *)
LEMMA PlaceTaken ==
  ASSUME NEW rows, NEW before, Strict(rows, before)
  PROVE  \A i \in 1..Cardinality(rows) : \E r \in rows : Rank(rows, before, r) = i - 1
<1> DEFINE n == Cardinality(rows)
           f == [r \in rows |-> Rank(rows, before, r) + 1]
<1>1. n \in Nat /\ \A r \in rows : f[r] \in 1..n
  BY Ranks
<1>2. \A r, s \in rows : f[r] = f[s] => r = s
  <2> SUFFICES ASSUME NEW r \in rows, NEW s \in rows, r # s PROVE f[r] # f[s]
    OBVIOUS
  <2>1. <<r, s>> \in before \/ <<s, r>> \in before
    BY DEF Strict
  <2>2. QED
    BY <2>1, Ranks
<1>3. f \in Injection(rows, 1..n)
  BY <1>1, <1>2 DEF Injection, IsInjective
<1>4. IsFiniteSet(1..n) /\ Cardinality(1..n) = n
  BY <1>1, FS_Interval
<1>5. f \in Surjection(rows, 1..n)
  BY <1>3, <1>4, FS_Injection
<1>6. \A i \in 1..n : \E r \in rows : f[r] = i
  BY <1>5 DEF Surjection
<1>7. \A r \in rows : Rank(rows, before, r) = f[r] - 1
  BY Ranks
<1> HIDE DEF f
<1>8. QED
  BY <1>6, <1>7

(* What OrderBy chooses is such a list.                                    *)
LEMMA OrderByLists ==
  ASSUME NEW rows, NEW before, Strict(rows, before)
  PROVE  Lists(OrderBy(rows, before), rows, before)
<1> DEFINE n == Cardinality(rows)
           o == OrderBy(rows, before)
           Held(i) == CHOOSE r \in rows : Rank(rows, before, r) = i - 1
<1>1. o = [i \in 1..n |-> Held(i)]
  BY DEF OrderBy, Rank, Ahead
<1>2. \A i \in 1..n : o[i] \in rows /\ Rank(rows, before, o[i]) = i - 1
  <2>1. \A i \in 1..n : Held(i) \in rows /\ Rank(rows, before, Held(i)) = i - 1
    BY PlaceTaken
  <2> HIDE DEF Held, o
  <2>2. QED
    BY <1>1, <2>1
<1>3. o = [i \in 1..n |-> o[i]]
  <2> HIDE DEF Held, o
  <2>1. QED
    BY <1>1
<1>4. n \in Nat
  BY Ranks
<1> HIDE DEF o
<1>5. \A r \in rows : \E i \in 1..n : o[i] = r
  <2> TAKE r \in rows
  <2> DEFINE i == Rank(rows, before, r) + 1
  <2>1. i \in 1..n
    BY Ranks, <1>4
  <2>2. Rank(rows, before, o[i]) = Rank(rows, before, r)
    BY <2>1, <1>2, Ranks
  <2>3. o[i] = r
    <3>1. o[i] \in rows
      BY <2>1, <1>2
    <3>2. o[i] = r \/ <<o[i], r>> \in before \/ <<r, o[i]>> \in before
      BY <3>1 DEF Strict
    <3>3. QED
      BY <3>1, <3>2, <2>2, Ranks
  <2>4. QED
    BY <2>1, <2>3
<1>6. \A i, j \in 1..n : i < j => <<o[i], o[j]>> \in before
  <2> SUFFICES ASSUME NEW i \in 1..n, NEW j \in 1..n, i < j PROVE <<o[i], o[j]>> \in before
    OBVIOUS
  <2>1. Rank(rows, before, o[i]) < Rank(rows, before, o[j])
    BY <1>2, <1>4
  <2>2. o[i] # o[j] /\ <<o[j], o[i]>> \notin before
    BY <2>1, <1>2, Ranks
  <2>3. QED
    BY <2>2, <1>2 DEF Strict
<1>7. QED
  <2>1. o \in [1..n -> rows]
    BY <1>2, <1>3
  <2>2. QED
    BY <2>1, <1>5, <1>6 DEF Lists, o

(* There is no other such list.                                            *)
LEMMA OneOrder ==
  ASSUME NEW rows, NEW before, Strict(rows, before), NEW n \in Nat, NEW g \in [1..n -> rows],
         \A r \in rows : \E i \in 1..n : g[i] = r,
         \A i, j \in 1..n : i < j => <<g[i], g[j]>> \in before
  PROVE  OrderBy(rows, before) = g
<1>1. \A i, j \in 1..n : <<g[i], g[j]>> \in before => i < j
  <2> SUFFICES ASSUME NEW i \in 1..n, NEW j \in 1..n, <<g[i], g[j]>> \in before, ~(i < j)
               PROVE FALSE
    OBVIOUS
  <2>1. i = j \/ <<g[j], g[i]>> \in before
    OBVIOUS
  <2>2. <<g[i], g[i]>> \in before
    BY <2>1 DEF Strict
  <2>3. QED
    BY <2>2 DEF Strict
<1>2. \A i, j \in 1..n : g[i] = g[j] => i = j
  <2> SUFFICES ASSUME NEW i \in 1..n, NEW j \in 1..n, i # j, g[i] = g[j] PROVE FALSE
    OBVIOUS
  <2>1. i < j \/ j < i
    OBVIOUS
  <2>2. <<g[i], g[i]>> \in before
    BY <2>1
  <2>3. QED
    BY <2>2 DEF Strict
<1>3. Cardinality(rows) = n
  <2>1. g \in Bijection(1..n, rows)
    BY <1>2 DEF Bijection, Injection, Surjection, IsInjective
  <2>2. IsFiniteSet(1..n) /\ Cardinality(1..n) = n
    BY FS_Interval
  <2>3. QED
    BY <2>1, <2>2, FS_Bijection DEF ExistsBijection
<1>4. ASSUME NEW i \in 1..n
      PROVE  Rank(rows, before, g[i]) = i - 1
  <2> DEFINE h == [j \in 1..i - 1 |-> g[j]]
  <2>1. \A j \in 1..i - 1 : j \in 1..n /\ h[j] \in Ahead(rows, before, g[i])
    BY DEF Ahead
  <2>2. \A s \in Ahead(rows, before, g[i]) : \E j \in 1..i - 1 : h[j] = s
    BY <1>1 DEF Ahead
  <2>3. h \in Bijection(1..i - 1, Ahead(rows, before, g[i]))
    BY <2>1, <2>2, <1>2 DEF Bijection, Injection, Surjection, IsInjective
  <2>4. IsFiniteSet(1..i - 1) /\ Cardinality(1..i - 1) = i - 1
    BY FS_Interval
  <2>5. QED
    BY <2>3, <2>4, FS_Bijection DEF ExistsBijection, Rank
<1>5. ASSUME NEW i \in 1..n, NEW r \in rows, Rank(rows, before, r) = i - 1
      PROVE  r = g[i]
  BY <1>4, <1>5, Ranks DEF Strict
<1>6. \A i \in 1..n : (CHOOSE r \in rows : Rank(rows, before, r) = i - 1) = g[i]
  BY <1>4, <1>5
<1>7. OrderBy(rows, before) = [i \in 1..n |-> g[i]]
  BY <1>3, <1>6 DEF OrderBy, Rank, Ahead
<1>8. QED
  BY <1>7

-----------------------------------------------------------------------------
(* Lists of dated rows, newest first.                                      *)

(* Rows with an id each are listed newest first, without ties.             *)
LEMMA DatedIsStrict ==
  ASSUME NEW rows, IsDated(rows)
  PROVE  Strict(rows, NewestFirst(rows))
<1>1. \A r, s \in rows : <<r, s>> \in NewestFirst(rows) <=>
         r.at > s.at \/ (r.at = s.at /\ r.id > s.id)
  BY DEF NewestFirst
<1>2. IsFiniteSet(rows) /\ \A r \in rows : r.id \in Int /\ r.at \in Int
  BY DEF IsDated, IsTableOf
<1>3. \A r, s \in rows : r.id = s.id => r = s
  BY DEF IsDated, IsTableOf
<1>4. \A r \in rows : <<r, r>> \notin NewestFirst(rows)
  BY <1>1, <1>2
<1>5. \A r, s, t \in rows : <<r, s>> \in NewestFirst(rows) /\ <<s, t>> \in NewestFirst(rows) =>
                               <<r, t>> \in NewestFirst(rows)
  BY <1>1, <1>2
<1>6. \A r, s \in rows : r # s => <<r, s>> \in NewestFirst(rows) \/ <<s, r>> \in NewestFirst(rows)
  BY <1>1, <1>2, <1>3
<1>7. QED
  BY <1>2, <1>4, <1>5, <1>6 DEF Strict

(* The first m of n elements.                                              *)
LEMMA SubSeqIs ==
  ASSUME NEW S, NEW n \in Nat, NEW s \in [1..n -> S], NEW m \in Nat, m <= n
  PROVE  SubSeq(s, 1, m) = [i \in 1..m |-> s[i]]
<1>1. s \in Seq(S) /\ Len(s) = n
  OBVIOUS
<1>2. QED
  BY <1>1

(* The smaller of two naturals.                                            *)
LEMMA SmallerOf ==
  ASSUME NEW m \in Nat, NEW n \in Nat
  PROVE  /\ Min({m, n}) \in Nat /\ Min({m, n}) <= m /\ Min({m, n}) <= n
         /\ m <= n => Min({m, n}) = m
         /\ n <= m => Min({m, n}) = n
<1>1. \E x \in {m, n} : \A y \in {m, n} : x <= y
  OBVIOUS
<1>2. Min({m, n}) \in {m, n} /\ \A y \in {m, n} : Min({m, n}) <= y
  BY <1>1 DEF Min
<1>3. QED
  BY <1>2

(* A list shows each row once, its newest row first, and all of them       *)
(* unless its limit is reached.                                            *)
Shows(list, rows, limit) ==
  /\ Cardinality(rows) \in Nat
  /\ Len(list) = Min({limit, Cardinality(rows)})
  /\ list \in [1..Len(list) -> rows]
  /\ \A i, j \in 1..Len(list) : list[i] = list[j] => i = j
  /\ \A i \in 1..Len(list) : list[i].at <= list[1].at
  /\ Len(list) # limit \/ Cardinality(rows) <= limit =>
        \A r \in rows : \E i \in 1..Len(list) : list[i] = r

(* What the server cuts from a list.                                       *)
LEMMA NewestShows ==
  ASSUME NEW rows, IsDated(rows), NEW limit \in Nat
  PROVE  Shows(Newest(rows, limit), rows, limit)
<1> DEFINE n == Cardinality(rows)
           o == OrderBy(rows, NewestFirst(rows))
           m == Min({limit, n})
           list == Newest(rows, limit)
<1>1. Lists(o, rows, NewestFirst(rows)) /\ Strict(rows, NewestFirst(rows))
  BY DatedIsStrict, OrderByLists
<1>2. n \in Nat
  BY <1>1, Ranks
<1>3. m \in Nat /\ m <= n /\ m <= limit /\ (n <= limit => m = n) /\ (limit <= n => m = limit)
  BY <1>2, SmallerOf
<1>4. list = [i \in 1..m |-> o[i]]
  <2>1. list = SubSeq(o, 1, m)
    BY DEF Newest
  <2>2. SubSeq(o, 1, m) = [i \in 1..m |-> o[i]]
    BY <1>1, <1>2, <1>3, SubSeqIs DEF Lists
  <2>3. QED
    BY <2>1, <2>2
<1> HIDE DEF o, m, list
<1>5. Len(list) = m
  BY <1>3, <1>4
<1>6. \A i \in 1..m : i \in 1..n /\ list[i] = o[i] /\ list[i] \in rows
  BY <1>1, <1>2, <1>3, <1>4 DEF Lists
<1>7. \A i, j \in 1..m : list[i] = list[j] => i = j
  <2> SUFFICES ASSUME NEW i \in 1..m, NEW j \in 1..m, i < j PROVE list[i] # list[j]
    BY <1>3
  <2>1. <<list[i], list[j]>> \in NewestFirst(rows)
    BY <1>1, <1>6 DEF Lists
  <2>2. QED
    BY <2>1, <1>1, <1>6 DEF Strict
<1>8. \A i \in 1..m : list[i].at <= list[1].at
  <2> SUFFICES ASSUME NEW i \in 1..m PROVE list[i].at <= list[1].at
    OBVIOUS
  <2>1. 1 \in 1..m /\ list[1].at \in Int
    BY <1>3, <1>6 DEF IsDated
  <2>2. \A j, k \in 1..n : j < k => <<o[j], o[k]>> \in NewestFirst(rows)
    BY <1>1 DEF Lists
  <2>3. i # 1 => 1 < i
    BY <1>3
  <2>4. i # 1 => <<list[1], list[i]>> \in NewestFirst(rows)
    <3> HIDE DEF n
    <3>1. QED
      BY <1>6, <2>1, <2>2, <2>3
  <2>5. QED
    BY <2>1, <2>4, <1>6 DEF NewestFirst, IsDated
<1>9. m # limit \/ n <= limit => \A r \in rows : \E i \in 1..m : list[i] = r
  <2>1. m # limit \/ n <= limit => m = n
    BY <1>2, <1>3
  <2>2. QED
    BY <2>1, <1>1, <1>6 DEF Lists
<1>10. list \in [1..m -> rows]
  BY <1>4, <1>6
<1>11. QED
  BY <1>2, <1>5, <1>7, <1>8, <1>9, <1>10 DEF m, list, Shows

-----------------------------------------------------------------------------
(* Polls of the execution list.                                            *)

(* The queries of a poll are accepted, with the limit cut at the cap.      *)
LEMMA LastPair ==
  ASSUME NEW q, NEW S, q \in Seq(S), NEW key, NEW n \in 1..Len(q), q[n].key = key,
         \A i \in 1..Len(q) : i > n => q[i].key # key
  PROVE  LastOf(q, key) = {q[n].val}
<1> DEFINE at == {i \in DOMAIN q : q[i].key = key}
<1>1. n \in at /\ \A i \in at : i \in Int /\ i <= n
  OBVIOUS
<1> HIDE DEF at
<1>2. Max(at) = n
  <2>1. Max(at) \in at /\ \A i \in at : Max(at) >= i
    BY <1>1 DEF Max
  <2> DEFINE m == Max(at)
  <2> HIDE DEF m
  <2>2. m \in at /\ m >= n
    BY <1>1, <2>1 DEF m
  <2>3. m \in Int /\ m <= n /\ n \in Int
    BY <1>1, <2>2
  <2>4. m = n
    BY <2>2, <2>3
  <2>5. QED
    BY <2>4 DEF m
<1>3. at # {} /\ LastOf(q, key) = IF at = {} THEN {} ELSE {q[Max(at)].val}
  BY <1>1 DEF LastOf, at
<1>4. QED
  BY <1>2, <1>3

(* A key without a pair has no value.                                      *)
LEMMA NoPair ==
  ASSUME NEW q, NEW key, \A i \in DOMAIN q : q[i].key # key
  PROVE  LastOf(q, key) = {}
BY DEF LastOf

PollLimit(n) == Min({ListCap, n})

(* A poll answers the newest runs after its second.                        *)
LEMMA PollIs ==
  ASSUME NEW runs, NEW q, NEW n \in Nat \ {0}, NEW since,
         \A i \in DOMAIN q : q[i].key \in {"since", "limit"} /\ q[i].val.t # "garbled",
         LastOf(q, "limit") = {Limit(n).val}, LastOf(q, "since") = since,
         \A v \in since : IsTime(v)
  PROVE  ReadExecutionList(runs, q).val =
           Newest({r \in runs : \A t \in since : After(r.at, t)}, PollLimit(n))
<1> DEFINE f == ParseExecutionListQuery(q)
<1>1. LastOf(q, "status") = {} /\ LastOf(q, "strategy_id") = {}
  BY NoPair
<1>2. ParsePairs(q, {"strategy_id", "since", "status", "limit"}, Unchecked) = Is(q)
  <2> DEFINE keys == {"strategy_id", "since", "status", "limit"}
             result(p) == IF ~PercentDecode(p.val).ok THEN IsNot("percent")
                          ELSE IF p.key \notin keys THEN IsNot("unknown_parameter")
                          ELSE IF Unchecked(p) THEN Is(p) ELSE IsNot("bad_value")
             bad == {i \in DOMAIN q : ~result(q[i]).ok}
  <2>1. ASSUME NEW i \in DOMAIN q PROVE result(q[i]).ok
    BY DEF PercentDecode, Unchecked, Is
  <2> HIDE DEF result
  <2>2. bad = {}
    BY <2>1
  <2>3. ParsePairs(q, keys, Unchecked) = IF bad = {} THEN Is(q) ELSE result(q[Min(bad)])
    BY DEF ParsePairs, result
  <2>4. QED
    BY <2>2, <2>3
<1>3. {v.n : v \in LastOf(q, "limit")} = {n}
  <2>1. Limit(n).val.n = n
    BY DEF Limit
  <2>2. {v.n : v \in {Limit(n).val}} = {Limit(n).val.n}
    OBVIOUS
  <2>3. QED
    BY <2>1, <2>2
<1>4. Count(q, ListDefault, ListCap) = PollLimit(n)
  <2>1. Count(q, ListDefault, ListCap) = Min({ListCap} \cup {n})
    BY <1>3 DEF Count
  <2>2. {ListCap} \cup {n} = {ListCap, n}
    OBVIOUS
  <2>3. QED
    BY <2>1, <2>2 DEF PollLimit
<1>5. f = Is([strategy |-> {}, since |-> since, status |-> {}, outcome |-> {},
              limit |-> PollLimit(n)])
  <2>1. \A v \in LastOf(q, "limit") : IsCount(v)
    BY DEF IsCount, Limit
  <2>2. {v.w : v \in LastOf(q, "strategy_id")} = {} /\ {v.w : v \in LastOf(q, "status")} = {}
    BY <1>1
  <2>3. Is(q).ok = TRUE
    BY DEF Is
  <2>4. {} \ {"noop"} = {} /\ {} \cap {"noop"} = {}
    OBVIOUS
  <2>5. QED
    BY <1>1, <1>2, <1>4, <2>1, <2>2, <2>3, <2>4 DEF ParseExecutionListQuery
<1> HIDE DEF f
<1>6. Min({PollLimit(n), ListCap}) = PollLimit(n)
  BY SmallerOf, QueriesAssumption DEF PollLimit
<1>7. ListRuns(runs, f.val) =
        Newest({r \in runs : \A t \in since : After(r.at, t)}, PollLimit(n))
  BY <1>5, <1>6 DEF ListRuns, Is
<1>8. f.ok
  BY <1>5 DEF Is
<1>9. ReadExecutionList(runs, q) = Is(ListRuns(runs, f.val))
  BY <1>8 DEF ReadExecutionList, f
<1>10. QED
  BY <1>7, <1>9 DEF Is

(* ... without a second, all of them.                                      *)
LEMMA FirstPoll ==
  ASSUME NEW runs, NEW n \in Nat \ {0}
  PROVE  ReadExecutionList(runs, <<Limit(n)>>).val = Newest(runs, PollLimit(n))
<1> DEFINE q == <<Limit(n)>>
<1>1. q \in Seq({Limit(n)}) /\ Len(q) = 1 /\ q[1] = Limit(n) /\ DOMAIN q = 1..1
  OBVIOUS
<1>2. Limit(n).key = "limit" /\ Limit(n).val.t = "num"
  BY DEF Limit
<1> HIDE DEF q
<1>3. LastOf(q, "limit") = {Limit(n).val} /\ LastOf(q, "since") = {}
  <2>1. LastOf(q, "limit") = {q[1].val}
    BY <1>1, <1>2, LastPair
  <2>2. LastOf(q, "since") = {}
    BY <1>1, <1>2, NoPair
  <2>3. QED
    BY <1>1, <2>1, <2>2
<1>4. ReadExecutionList(runs, q).val = Newest({r \in runs : \A t \in {} : After(r.at, t)}, PollLimit(n))
  BY <1>1, <1>2, <1>3, PollIs
<1>5. {r \in runs : \A t \in {} : After(r.at, t)} = runs
  OBVIOUS
<1>6. QED
  BY <1>4, <1>5 DEF q

(* ... with the second that the first poll showed.                         *)
LEMMA SecondPoll ==
  ASSUME NEW runs, NEW n \in Nat \ {0}, NEW sec, NEW suffix
  PROVE  ReadExecutionList(runs, <<Since(sec, suffix), Limit(n)>>).val =
           Newest({r \in runs : After(r.at, Since(sec, suffix).val)}, PollLimit(n))
<1> DEFINE q == <<Since(sec, suffix), Limit(n)>>
           since == Since(sec, suffix).val
<1>1. q \in Seq({Since(sec, suffix), Limit(n)}) /\ Len(q) = 2 /\ q[1] = Since(sec, suffix)
      /\ q[2] = Limit(n) /\ DOMAIN q = 1..2
  OBVIOUS
<1>2. /\ Limit(n).key = "limit" /\ Limit(n).val.t = "num"
      /\ Since(sec, suffix).key = "since" /\ since.t = "time"
  BY DEF Limit, Since
<1> HIDE DEF q
<1>3. LastOf(q, "limit") = {Limit(n).val}
  <2> DEFINE S == {Since(sec, suffix), Limit(n)}
  <2>1. /\ q \in Seq(S) /\ 2 \in 1..Len(q) /\ q[2].key = "limit"
        /\ \A i \in 1..Len(q) : i > 2 => q[i].key # "limit"
    BY <1>1, <1>2
  <2> HIDE DEF S
  <2>2. LastOf(q, "limit") = {q[2].val}
    BY <2>1, LastPair, Zenon
  <2>3. QED
    BY <1>1, <2>2
<1>4. LastOf(q, "since") = {since}
  <2> DEFINE S == {Since(sec, suffix), Limit(n)}
  <2>1. /\ q \in Seq(S) /\ 1 \in 1..Len(q) /\ q[1].key = "since"
        /\ \A i \in 1..Len(q) : i > 1 => q[i].key # "since"
    BY <1>1, <1>2
  <2> HIDE DEF S
  <2>2. LastOf(q, "since") = {q[1].val}
    BY <2>1, LastPair, Zenon
  <2>3. QED
    BY <1>1, <2>2
<1>5. ReadExecutionList(runs, q).val =
        Newest({r \in runs : \A t \in {since} : After(r.at, t)}, PollLimit(n))
  <2>1. \A i \in DOMAIN q : q[i].key \in {"since", "limit"} /\ q[i].val.t # "garbled"
    BY <1>1, <1>2
  <2>2. \A v \in {since} : IsTime(v)
    BY <1>2 DEF IsTime
  <2> HIDE DEF since
  <2>3. QED
    BY <1>3, <1>4, <2>1, <2>2, PollIs
<1>6. {r \in runs : \A t \in {since} : After(r.at, t)} = {r \in runs : After(r.at, since)}
  OBVIOUS
<1>7. QED
  BY <1>5, <1>6 DEF q

(* Some of the runs of a history are a table of dated rows, by their index.*)
StartedRun(times, i) ==
  [id |-> i, at |-> times[i], strategy |-> 1, status |-> "succeeded", outcomes |-> {}]

(* Runs by their index.                                                    *)
LEMMA StartedRuns ==
  ASSUME NEW times, NEW n \in Nat, Len(times) = n, times \in Seq(Nat)
  PROVE  /\ \A r \in Started(times) : r.id \in 1..n /\ r = StartedRun(times, r.id)
         /\ \A i \in 1..n : StartedRun(times, i) \in Started(times)
         /\ \A i \in 1..n : StartedRun(times, i).id = i /\ StartedRun(times, i).at = times[i]
<1>1. Started(times) = {StartedRun(times, i) : i \in 1..n}
  BY DEF Started, StartedRun
<1>2. \A i : StartedRun(times, i).id = i /\ StartedRun(times, i).at = times[i]
  BY DEF StartedRun
<1>3. QED
  BY <1>1, <1>2

(* Any of them are a table of dated rows.                                  *)
LEMMA StartedAreDated ==
  ASSUME NEW times, NEW n \in Nat, Len(times) = n, times \in Seq(Nat),
         NEW rows \in SUBSET Started(times)
  PROVE  /\ IsDated(rows)
         /\ \A r \in rows : r.id \in 1..n /\ r.at = times[r.id]
<1>1. \A r \in Started(times) : r.id \in 1..n /\ r.at = times[r.id] /\ r.at \in Nat
  BY StartedRuns
<1>2. \A r, s \in Started(times) : r.id = s.id => r = s
  <2> TAKE r, s \in Started(times)
  <2>1. r = StartedRun(times, r.id) /\ s = StartedRun(times, s.id)
    BY StartedRuns
  <2>2. QED
    BY <2>1
<1>3. IsFiniteSet(rows)
  <2> DEFINE f == [r \in rows |-> r.id]
  <2>1. f \in Injection(rows, 1..n)
    BY <1>1, <1>2 DEF Injection, IsInjective
  <2>2. IsFiniteSet(1..n)
    BY FS_Interval
  <2>3. QED
    BY <2>1, <2>2, FS_Injection
<1>4. QED
  BY <1>1, <1>2, <1>3 DEF IsDated, IsTableOf

(* What two polls answer, and what neither does.                           *)
LEMMA PollMisses ==
  ASSUME NEW times \in Histories, NEW limit \in 1..ListCap + 1, NEW suffix \in {"Z", "fraction"},
         NEW before \in 1..Len(times),
         NEW first, first = ReadExecutionList(Started(SubSeq(times, 1, before)), <<Limit(limit)>>).val,
         NEW since, since = first[1].at,
         NEW second,
         second = ReadExecutionList(Started(times), <<Since(since, suffix), Limit(limit)>>).val,
         doc' = [topic |-> "poll", times |-> times, limit |-> limit, suffix |-> suffix,
                since |-> since, first |-> first, second |-> second]
  PROVE  PollsMissNothing'
<1> DEFINE n == Len(times)
           shown == Started(SubSeq(times, 1, before))
           later == {r \in Started(times) : After(r.at, Since(since, suffix).val)}
           max == PollLimit(limit)
<1>1. times \in Seq(Nat) /\ n \in Nat /\ \A i, j \in 1..n : i < j => times[i] <= times[j]
  BY ReadsAssumption
<1>2. SubSeq(times, 1, before) = [i \in 1..before |-> times[i]]
  BY <1>1
<1>3. shown \in SUBSET Started(times) /\ later \in SUBSET Started(times)
  BY <1>1, <1>2 DEF Started
<1>4. \A r \in shown : r.id \in 1..before
  BY <1>2 DEF Started
<1>5. \A i \in 1..before : \E r \in shown : r.id = i
  <2>1. SubSeq(times, 1, before) \in Seq(Nat) /\ Len(SubSeq(times, 1, before)) = before
         /\ before \in Nat
    BY <1>1, <1>2
  <2>2. \A i \in 1..before : StartedRun(SubSeq(times, 1, before), i) \in shown
                             /\ StartedRun(SubSeq(times, 1, before), i).id = i
    BY <2>1, StartedRuns
  <2>3. QED
    BY <2>2
<1>6. \A r \in later : After(times[r.id], Since(since, suffix).val)
  BY <1>1, <1>3, StartedAreDated
<1>7. \A i \in 1..n : After(times[i], Since(since, suffix).val) => \E r \in later : r.id = i
  BY <1>1, StartedRuns
<1>8. max \in Nat /\ max >= 1 /\ limit \in Nat \ {0}
  <2>1. ListCap \in Nat /\ limit \in Nat /\ ListCap >= 1 /\ limit >= 1
    BY QueriesAssumption
  <2>2. QED
    BY <2>1, SmallerOf DEF PollLimit
<1>9. first = Newest(shown, max) /\ second = Newest(later, max)
  BY <1>8, FirstPoll, SecondPoll
<1>10. IsDated(shown) /\ IsDated(later)
  BY <1>1, <1>3, StartedAreDated
<1> HIDE DEF shown, later, max
<1>11. Shows(first, shown, max) /\ Shows(second, later, max)
  BY <1>8, <1>9, <1>10, NewestShows
<1>12. /\ first \in [1..Len(first) -> shown]
       /\ Len(first) \in Nat /\ Len(first) >= 1
       /\ \A i \in 1..Len(first) : first[i].at <= first[1].at
       /\ Len(first) # max => \A r \in shown : \E i \in 1..Len(first) : first[i] = r
  <2>1. Cardinality(shown) \in Nat /\ Cardinality(shown) >= 1
    <3>1. shown # {} /\ IsFiniteSet(shown)
      BY <1>5, <1>10 DEF IsDated, IsTableOf
    <3>2. QED
      BY <3>1, FS_CardinalityType, FS_EmptySet
  <2>2. Len(first) = Min({max, Cardinality(shown)})
    BY <1>11 DEF Shows
  <2>3. Len(first) \in Nat /\ Len(first) >= 1
    BY <1>8, <2>1, <2>2, SmallerOf
  <2>4. \A i \in 1..Len(first) : first[i].at <= first[1].at
    BY <1>11 DEF Shows
  <2>5. Len(first) # max => \A r \in shown : \E i \in 1..Len(first) : first[i] = r
    <3> SUFFICES ASSUME Len(first) # max PROVE \A r \in shown : \E i \in 1..Len(first) : first[i] = r
      OBVIOUS
    <3>1. QED
      BY <1>11 DEF Shows
  <2>6. first \in [1..Len(first) -> shown]
    BY <1>11 DEF Shows
  <2>7. QED
    BY <2>3, <2>4, <2>5, <2>6
<1>13. /\ second \in [1..Len(second) -> later]
       /\ Len(second) # max => \A r \in later : \E i \in 1..Len(second) : second[i] = r
  <2>1. second \in [1..Len(second) -> later]
    BY <1>11 DEF Shows
  <2>2. Len(second) # max => \A r \in later : \E i \in 1..Len(second) : second[i] = r
    <3> SUFFICES ASSUME Len(second) # max PROVE \A r \in later : \E i \in 1..Len(second) : second[i] = r
      OBVIOUS
    <3>1. QED
      BY <1>11 DEF Shows
  <2>3. QED
    BY <2>1, <2>2
<1>14. \A i \in 1..before : i \in 1..n
  OBVIOUS
<1>15. Ids(first) = {first[i].id : i \in 1..Len(first)} /\ Ids(second) = {second[i].id : i \in 1..Len(second)}
  BY <1>12, <1>13 DEF Ids
<1>16. PICK k \in 1..before : since = times[k]
  <2>1. first[1] \in shown
    BY <1>12
  <2>2. QED
    BY <2>1, <1>1, <1>3, <1>4, StartedAreDated
<1>17. since \in Nat /\ \A i \in 1..n : times[i] \in Nat
  <2>1. \A i \in 1..n : times[i] \in Nat
    BY <1>1
  <2>2. k \in 1..n
    BY <1>14
  <2>3. QED
    BY <2>1, <2>2, <1>16
<1>18. ASSUME suffix = "Z" PROVE Ids(first) \cap Ids(second) = {}
  <2> SUFFICES ASSUME NEW i \in Ids(first), i \in Ids(second) PROVE FALSE
    OBVIOUS
  <2>1. times[i] <= since
    <3>1. PICK p \in 1..Len(first) : first[p].id = i
      BY <1>15
    <3>2. first[p] \in shown
      BY <1>12
    <3>3. first[p].at = times[i]
      BY <3>1, <3>2, <1>1, <1>3, StartedAreDated
    <3>4. QED
      BY <3>3, <1>12
  <2>2. After(times[i], Since(since, suffix).val) /\ i \in 1..n
    <3>1. PICK p \in 1..Len(second) : second[p].id = i
      BY <1>15
    <3>2. second[p] \in later
      BY <1>13
    <3>3. QED
      BY <3>1, <3>2, <1>1, <1>3, <1>6, StartedAreDated
  <2>3. times[i] > since
    BY <2>2, <1>18 DEF After, Since
  <2>4. times[i] \in Nat /\ since \in Nat
    BY <2>2, <1>17
  <2>5. QED
    BY <2>1, <2>3, <2>4
<1>19. ASSUME max \notin {Len(first), Len(second)},
              NEW i \in DOMAIN times \ (Ids(first) \cup Ids(second))
       PROVE  suffix = "Z" /\ times[i] = since
  <2>1. i \in 1..n
    BY <1>1
  <2>2. i > before
    <3> SUFFICES ASSUME i \in 1..before PROVE FALSE
      BY <2>1
    <3>1. PICK r \in shown : r.id = i
      BY <1>5
    <3>2. PICK p \in 1..Len(first) : first[p] = r
      BY <1>12, <1>19
    <3>3. i \in Ids(first)
      BY <3>1, <3>2, <1>15
    <3>4. QED
      BY <3>3
  <2>3. times[i] >= since
    BY <2>1, <2>2, <1>1, <1>14, <1>16
  <2>4. ~After(times[i], Since(since, suffix).val)
    <3> SUFFICES ASSUME After(times[i], Since(since, suffix).val) PROVE FALSE
      OBVIOUS
    <3>1. PICK r \in later : r.id = i
      BY <2>1, <1>7
    <3>2. PICK p \in 1..Len(second) : second[p] = r
      BY <1>13, <1>19
    <3>3. i \in Ids(second)
      BY <3>1, <3>2, <1>15
    <3>4. QED
      BY <3>3
  <2>5. times[i] \in Nat /\ since \in Nat
    BY <2>1, <1>17
  <2>6. QED
    BY <2>3, <2>4, <2>5, SMTT(20) DEF After, Since
<1>20. max = Min({limit, ListCap})
  <2>1. {ListCap, limit} = {limit, ListCap}
    OBVIOUS
  <2>2. QED
    BY <2>1 DEF max, PollLimit
<1>21. QED
  BY <1>18, <1>19, <1>20 DEF PollsMissNothing

-----------------------------------------------------------------------------
(* The journal of a run.                                                   *)

(* A history: each function f on 0..k whose value at n is the table of the *)
(* first n decisions is the one Recorded chooses.                          *)
DecisionRow(times, i) == [at |-> times[i], seq |-> i - 1]
Decisions(times, n) == {DecisionRow(times, i) : i \in 1..n}

(* The next decision takes the next number.                                *)
LEMMA NextDecision ==
  ASSUME NEW times, NEW n \in Nat
  PROVE  /\ NextSeq(Decisions(times, n)) = n
         /\ RecordAt(Decisions(times, n), times[n + 1]) = Decisions(times, n + 1)
<1> DEFINE rows == Decisions(times, n)
<1>1. {r.seq : r \in rows} = 0..n - 1
  <2>1. \A i \in 1..n : DecisionRow(times, i).seq = i - 1
    BY DEF DecisionRow
  <2>2. \A r \in rows : r.seq \in 0..n - 1
    BY <2>1 DEF Decisions
  <2>3. ASSUME NEW k \in 0..n - 1 PROVE \E r \in rows : r.seq = k
    <3>1. k + 1 \in 1..n /\ DecisionRow(times, k + 1) \in rows
      BY DEF Decisions
    <3>2. DecisionRow(times, k + 1).seq = k
      BY <2>1, <3>1
    <3>3. QED
      BY <3>1, <3>2
  <2> HIDE DEF rows
  <2>4. QED
    BY <2>2, <2>3
<1>2. NextSeq(rows) = n
  <2>1. CASE n = 0
    <3>1. rows = {}
      BY <2>1 DEF Decisions
    <3>2. QED
      BY <2>1, <3>1 DEF NextSeq
  <2>2. CASE n # 0
    <3>1. rows # {}
      BY <2>2, <1>1
    <3>2. \E m \in 0..n - 1 : \A k \in 0..n - 1 : m >= k
      BY <2>2
    <3>3. Max(0..n - 1) \in 0..n - 1 /\ \A k \in 0..n - 1 : Max(0..n - 1) >= k
      BY <3>2 DEF Max
    <3>4. n - 1 \in 0..n - 1
      BY <2>2
    <3>5. Max(0..n - 1) = n - 1
      BY <3>3, <3>4
    <3> HIDE DEF rows
    <3>6. Max({r.seq : r \in rows}) = n - 1
      BY <3>5, <1>1
    <3>7. NextSeq(rows) = Max({r.seq : r \in rows}) + 1
      BY <3>1 DEF NextSeq
    <3>8. QED
      BY <3>6, <3>7
  <2>3. QED
    BY <2>1, <2>2
<1>3. RecordAt(rows, times[n + 1]) = rows \cup {DecisionRow(times, n + 1)}
  BY <1>2 DEF RecordAt, DecisionRow
<1>4. 1..n + 1 = (1..n) \cup {n + 1}
  OBVIOUS
<1>5. QED
  BY <1>2, <1>3, <1>4 DEF Decisions

(* The history that Recorded chooses is the table of the decisions.        *)
LEMMA RecordedIs ==
  ASSUME NEW times, Len(times) \in Nat
  PROVE  Recorded(times)[Len(times)] = Decisions(times, Len(times))
<1> DEFINE k == Len(times)
           Records(f) == f = [n \in 0..k |-> IF n = 0 THEN {} ELSE RecordAt(f[n - 1], times[n])]
           h == [n \in 0..k |-> Decisions(times, n)]
           g == CHOOSE f : Records(f)
<1>1. Records(h)
  <2>1. ASSUME NEW n \in 0..k
        PROVE  h[n] = IF n = 0 THEN {} ELSE RecordAt(h[n - 1], times[n])
    <3>1. CASE n = 0
      BY <3>1 DEF Decisions
    <3>2. CASE n # 0
      <4>1. n - 1 \in Nat /\ n - 1 \in 0..k /\ (n - 1) + 1 = n
        BY <3>2
      <4>2. RecordAt(Decisions(times, n - 1), times[n]) = Decisions(times, n)
        BY <4>1, NextDecision
      <4>3. QED
        BY <3>2, <4>1, <4>2
    <3>3. QED
      BY <3>1, <3>2
  <2>2. h = [n \in 0..k |-> h[n]]
    OBVIOUS
  <2> HIDE DEF h
  <2>3. QED
    BY <2>1, <2>2
<1>2. Records(g)
  BY <1>1
<1>3. Recorded(times) = g
  BY DEF Recorded
<1>4. \A n \in 0..k : g[n] = IF n = 0 THEN {} ELSE RecordAt(g[n - 1], times[n])
  <2> HIDE DEF g
  <2>1. QED
    BY <1>2
<1> HIDE DEF g, Records, h
<1> DEFINE Bad == {n \in 0..k : g[n] # Decisions(times, n)}
<1>5. Bad = {}
  <2>1. SUFFICES ASSUME Bad # {} PROVE FALSE
    OBVIOUS
  <2>2. PICK m \in Bad : \A n \in Bad : m <= n
    <3>1. Bad \in SUBSET Nat
      OBVIOUS
    <3> HIDE DEF Bad
    <3>2. QED
      BY <3>1, <2>1, LeastNat
  <2>3. m # 0
    BY <2>2, <1>4 DEF Decisions
  <2>4. m - 1 \in Nat /\ m - 1 \in 0..k /\ m - 1 \notin Bad /\ (m - 1) + 1 = m
    BY <2>2, <2>3
  <2>5. g[m - 1] = Decisions(times, m - 1)
    BY <2>4
  <2>6. g[m] = Decisions(times, m)
    BY <2>2, <2>3, <2>4, <2>5, <1>4, NextDecision
  <2>7. QED
    BY <2>2, <2>6
<1>6. QED
  BY <1>3, <1>5

(* The order of times and numbers is the order of the decisions.           *)
LEMMA JournalReads ==
  ASSUME NEW times \in Histories,
         doc' = [topic |-> "journal", times |-> times,
                list |-> ListForRun(Recorded(times)[Len(times)])]
  PROVE  JournalInOrder'
<1> DEFINE n == Len(times)
           rows == Decisions(times, n)
           g == [i \in 1..n |-> DecisionRow(times, i)]
<1>1. times \in Seq(Nat) /\ n \in Nat /\ \A i, j \in 1..n : i < j => times[i] <= times[j]
  BY ReadsAssumption
<1>2. \A i \in 1..n : g[i] \in rows /\ g[i].at = times[i] /\ g[i].seq = i - 1 /\ times[i] \in Nat
  BY <1>1 DEF Decisions, DecisionRow
<1>3. \A r \in rows : \E i \in 1..n : g[i] = r
  BY DEF Decisions
<1>4. g \in [1..n -> rows]
  BY <1>2
<1> HIDE DEF g, rows
<1>5. IsFiniteSet(rows)
  <2>1. g \in Surjection(1..n, rows)
    BY <1>3, <1>4 DEF Surjection
  <2>2. IsFiniteSet(1..n)
    BY <1>1, FS_Interval
  <2>3. QED
    BY <2>1, <2>2, FS_Surjection
<1>6. \A i, j \in 1..n : <<g[i], g[j]>> \in InTime(rows) <=> i < j
  <2> SUFFICES ASSUME NEW i \in 1..n, NEW j \in 1..n
               PROVE  <<g[i], g[j]>> \in InTime(rows) <=> i < j
    OBVIOUS
  <2>1. <<g[i], g[j]>> \in InTime(rows) <=>
          times[i] < times[j] \/ (times[i] = times[j] /\ i - 1 < j - 1)
    BY <1>2 DEF InTime
  <2>2. QED
    BY <2>1, <1>1, <1>2, SMTT(20)
<1>7. Strict(rows, InTime(rows))
  <2>1. \A r \in rows : <<r, r>> \notin InTime(rows)
    BY <1>1, <1>3, <1>6
  <2>2. ASSUME NEW r \in rows, NEW s \in rows, NEW t \in rows,
               <<r, s>> \in InTime(rows), <<s, t>> \in InTime(rows)
        PROVE  <<r, t>> \in InTime(rows)
    <3>1. PICK a, b, c \in 1..n : g[a] = r /\ g[b] = s /\ g[c] = t
      BY <1>3
    <3>2. a < b /\ b < c
      BY <2>2, <3>1, <1>6
    <3>3. a < c
      BY <3>2
    <3>4. QED
      BY <3>1, <3>3, <1>6
  <2>3. ASSUME NEW r \in rows, NEW s \in rows, r # s
        PROVE  <<r, s>> \in InTime(rows) \/ <<s, r>> \in InTime(rows)
    <3>1. PICK a, b \in 1..n : g[a] = r /\ g[b] = s
      BY <1>3
    <3>2. a < b \/ b < a
      BY <2>3, <3>1
    <3>3. QED
      BY <3>1, <3>2, <1>6
  <2>4. QED
    BY <1>5, <2>1, <2>2, <2>3 DEF Strict
<1>8. OrderBy(rows, InTime(rows)) = g
  <2>1. \A i, j \in 1..n : i < j => <<g[i], g[j]>> \in InTime(rows)
    BY <1>6
  <2>2. n \in Nat
    BY <1>1
  <2> HIDE DEF n
  <2>3. QED
    BY <1>3, <1>4, <1>7, <2>1, <2>2, OneOrder
<1>9. ListForRun(Recorded(times)[n]) = g
  BY <1>1, <1>8, RecordedIs DEF ListForRun, rows
<1>10. g = [i \in DOMAIN times |-> [at |-> times[i], seq |-> i - 1]]
  BY <1>1 DEF g, DecisionRow
<1>11. QED
  BY <1>9, <1>10 DEF JournalInOrder

-----------------------------------------------------------------------------
(* The logs of a range of blocks.                                          *)

(* The members that are kept, one member of the list after the other.      *)
KeptAt(h, s, P, n) ==
  IF n = 0 THEN <<>> ELSE IF n \in P THEN Append(h[n - 1], s[n]) ELSE h[n - 1]

IsKept(h, s, P, k) == h = [n \in 0..k |-> KeptAt(h, s, P, n)]

(* There are such functions, of any length.                                *)
LEMMA KeptExists ==
  ASSUME NEW s, NEW P, NEW k \in Nat
  PROVE  \E h : IsKept(h, s, P, k)
<1> DEFINE Bad == {n \in Nat : ~\E h : IsKept(h, s, P, n)}
<1>1. SUFFICES ASSUME Bad # {} PROVE FALSE
  OBVIOUS
<1>2. PICK m \in Bad : \A n \in Bad : m <= n
  <2>1. Bad \in SUBSET Nat
    OBVIOUS
  <2> HIDE DEF Bad
  <2>2. QED
    BY <2>1, <1>1, LeastNat
<1>3. CASE m = 0
  <2> DEFINE h == [n \in 0..0 |-> <<>>]
  <2>1. IsKept(h, s, P, 0)
    BY DEF IsKept, KeptAt
  <2>2. QED
    BY <2>1, <1>3
<1>4. CASE m # 0
  <2>1. m - 1 \in Nat /\ m - 1 \notin Bad
    BY <1>2, <1>4
  <2>2. PICK h : IsKept(h, s, P, m - 1)
    BY <2>1
  <2> DEFINE g == [n \in 0..m |-> IF n = m THEN KeptAt(h, s, P, m) ELSE h[n]]
  <2>3. \A n \in 0..m : g[n] = KeptAt(g, s, P, n)
    <3> SUFFICES ASSUME NEW n \in 0..m PROVE g[n] = KeptAt(g, s, P, n)
      OBVIOUS
    <3>1. n # 0 => n - 1 \in 0..m /\ n - 1 # m /\ g[n - 1] = h[n - 1]
      OBVIOUS
    <3>2. KeptAt(g, s, P, n) = KeptAt(h, s, P, n)
      BY <3>1 DEF KeptAt
    <3>3. n # m => h[n] = KeptAt(h, s, P, n)
      BY <2>2 DEF IsKept
    <3>4. QED
      BY <3>2, <3>3
  <2>4. IsKept(g, s, P, m)
    <3>1. g = [n \in 0..m |-> g[n]]
      OBVIOUS
    <3> HIDE DEF g
    <3>2. QED
      BY <3>1, <2>3 DEF IsKept
  <2>5. QED
    BY <2>4
<1>5. QED
  BY <1>3, <1>4

(* So the one that Kept chooses is one of them.                            *)
LEMMA KeptStep ==
  ASSUME NEW s, Len(s) \in Nat, NEW P
  PROVE  /\ Kept(s, P)[0] = <<>>
         /\ \A n \in 1..Len(s) :
               Kept(s, P)[n] = IF n \in P THEN Append(Kept(s, P)[n - 1], s[n]) ELSE Kept(s, P)[n - 1]
<1> DEFINE k == Len(s)
           h == CHOOSE g : IsKept(g, s, P, k)
<1>1. IsKept(h, s, P, k)
  BY KeptExists
<1>2. Kept(s, P) = h
  BY DEF Kept, IsKept, KeptAt
<1> HIDE DEF h
<1>3. \A n \in 0..k : h[n] = KeptAt(h, s, P, n)
  BY <1>1 DEF IsKept
<1>4. QED
  BY <1>2, <1>3 DEF KeptAt

LEMMA HitsStep ==
  ASSUME NEW chain, DOMAIN chain = 1..Len(chain), Len(chain) \in Nat, NEW f
  PROVE  /\ Hits(chain, f)[0] = <<>>
         /\ \A n \in 1..Len(chain) :
               Hits(chain, f)[n] = IF Matches(chain[n], f)
                                   THEN Append(Hits(chain, f)[n - 1], chain[n])
                                   ELSE Hits(chain, f)[n - 1]
<1> DEFINE P == {n \in DOMAIN chain : Matches(chain[n], f)}
<1>1. \A n \in 1..Len(chain) : n \in P <=> Matches(chain[n], f)
  OBVIOUS
<1> HIDE DEF P
<1>2. QED
  BY <1>1, KeptStep DEF Hits, P

(* The two halves of a range of blocks.                                    *)
Low(f, m) == [f EXCEPT !.to = m]
High(f, m) == [f EXCEPT !.from = m + 1]

(* A log of the range is in the half of its block.                         *)
LEMMA HalvesMatch ==
  ASSUME NEW A, NEW T, NEW from \in Int, NEW to \in Int, NEW m \in from..to - 1,
         NEW f, f = [addresses |-> A, topics |-> T, from |-> from, to |-> to],
         NEW log, log.block \in Nat
  PROVE  /\ Matches(log, Low(f, m)) <=> Matches(log, f) /\ log.block <= m
         /\ Matches(log, High(f, m)) <=> Matches(log, f) /\ log.block > m
<1>1. /\ Low(f, m).addresses = A /\ Low(f, m).topics = T
      /\ Low(f, m).from = from /\ Low(f, m).to = m
  BY DEF Low
<1>2. /\ High(f, m).addresses = A /\ High(f, m).topics = T
      /\ High(f, m).from = m + 1 /\ High(f, m).to = to
  BY DEF High
<1>3. /\ log.block \in from..m <=> log.block \in from..to /\ log.block <= m
      /\ log.block \in m + 1..to <=> log.block \in from..to /\ log.block > m
  OBVIOUS
<1> DEFINE Rest(g) == /\ \E i \in DOMAIN g.addresses : log.address = g.addresses[i]
                      /\ \A i \in DOMAIN g.topics :
                            g.topics[i] # {} => i \in DOMAIN log.topics /\ log.topics[i] \in g.topics[i]
<1>4. \A g : Matches(log, g) <=> Rest(g) /\ log.block \in g.from..g.to
  BY DEF Matches
<1>5. Rest(Low(f, m)) <=> Rest(f)
  BY <1>1
<1>6. Rest(High(f, m)) <=> Rest(f)
  BY <1>2
<1> HIDE DEF Rest
<1>7. f.from = from /\ f.to = to
  OBVIOUS
<1>8. QED
  BY <1>1, <1>2, <1>3, <1>4, <1>5, <1>6, <1>7

(* Appending to the second half.                                           *)
LEMMA AppendJoined ==
  ASSUME NEW S, NEW s \in Seq(S), NEW t \in Seq(S), NEW x \in S
  PROVE  s \o Append(t, x) = Append(s \o t, x)
OBVIOUS

(* The chain is sorted by block: what the first half finds comes before    *)
(* what the second half finds.                                             *)
Joined(chain, f, m, n, S) ==
  LET low == Hits(chain, Low(f, m))[n]
      high == Hits(chain, High(f, m))[n]
  IN  /\ low \in Seq(S) /\ high \in Seq(S)
      /\ Hits(chain, f)[n] = low \o high
      /\ high # <<>> => n # 0 /\ chain[n].block > m

(* ... one log of the chain after the other.                               *)
LEMMA HalvesJoin ==
  ASSUME NEW S, NEW chain \in Seq(S), \A i \in DOMAIN chain : chain[i].block \in Nat,
         \A i, j \in DOMAIN chain : i < j => chain[i].block <= chain[j].block,
         NEW A, NEW T, NEW from \in Int, NEW to \in Int, NEW m \in from..to - 1,
         NEW f, f = [addresses |-> A, topics |-> T, from |-> from, to |-> to],
         NEW n \in 0..Len(chain)
  PROVE  Joined(chain, f, m, n, S)
<1> DEFINE all(k) == Hits(chain, f)[k]
           low(k) == Hits(chain, Low(f, m))[k]
           high(k) == Hits(chain, High(f, m))[k]
           Good(k) == /\ low(k) \in Seq(S) /\ high(k) \in Seq(S)
                      /\ all(k) = low(k) \o high(k)
                      /\ high(k) # <<>> => k # 0 /\ chain[k].block > m
<1>1. /\ Hits(chain, f)[n] = all(n) /\ Hits(chain, Low(f, m))[n] = low(n)
      /\ Hits(chain, High(f, m))[n] = high(n)
  OBVIOUS
<1>2. Len(chain) \in Nat /\ DOMAIN chain = 1..Len(chain)
  OBVIOUS
<1>3. all(0) = <<>> /\ low(0) = <<>> /\ high(0) = <<>>
  BY <1>2, HitsStep
<1>4. ASSUME NEW k \in 1..Len(chain)
      PROVE  /\ all(k) = IF Matches(chain[k], f) THEN Append(all(k - 1), chain[k]) ELSE all(k - 1)
             /\ low(k) = IF Matches(chain[k], Low(f, m))
                         THEN Append(low(k - 1), chain[k]) ELSE low(k - 1)
             /\ high(k) = IF Matches(chain[k], High(f, m))
                          THEN Append(high(k - 1), chain[k]) ELSE high(k - 1)
  <2>1. all(k) = IF Matches(chain[k], f) THEN Append(all(k - 1), chain[k]) ELSE all(k - 1)
    BY <1>2, HitsStep
  <2>2. low(k) = IF Matches(chain[k], Low(f, m)) THEN Append(low(k - 1), chain[k]) ELSE low(k - 1)
    BY <1>2, HitsStep
  <2>3. high(k) = IF Matches(chain[k], High(f, m)) THEN Append(high(k - 1), chain[k]) ELSE high(k - 1)
    BY <1>2, HitsStep
  <2>4. QED
    BY <2>1, <2>2, <2>3
<1> HIDE DEF all, low, high
<1>5. Good(0)
  <2>1. <<>> \in Seq(S) /\ <<>> \o <<>> = <<>>
    BY EmptySeq, ConcatEmptySeq
  <2>2. QED
    BY <1>3, <2>1
<1>6. ASSUME NEW k \in 1..Len(chain), Good(k - 1)
      PROVE  Good(k)
  <2> DEFINE log == chain[k]
  <2>1. log \in S /\ log.block \in Nat
    BY <1>2
  <2>2. high(k - 1) # <<>> => log.block > m
    <3>1. SUFFICES ASSUME high(k - 1) # <<>> PROVE log.block > m
      OBVIOUS
    <3>2. k - 1 # 0 /\ chain[k - 1].block > m
      BY <3>1, <1>6
    <3>3. chain[k - 1].block <= log.block /\ chain[k - 1].block \in Nat
      BY <3>2, <1>2
    <3> HIDE DEF log
    <3>4. ASSUME NEW b \in Nat, NEW c \in Nat, b > m, b <= c PROVE c > m
      BY <3>4
    <3>5. QED
      BY <3>2, <3>3, <3>4, <2>1
  <2> HIDE DEF log
  <2>3. /\ Matches(log, Low(f, m)) <=> Matches(log, f) /\ log.block <= m
        /\ Matches(log, High(f, m)) <=> Matches(log, f) /\ log.block > m
    BY <2>1, HalvesMatch, SMTT(20)
  <2>4. /\ all(k) = IF Matches(log, f) THEN Append(all(k - 1), log) ELSE all(k - 1)
        /\ low(k) = IF Matches(log, Low(f, m)) THEN Append(low(k - 1), log) ELSE low(k - 1)
        /\ high(k) = IF Matches(log, High(f, m)) THEN Append(high(k - 1), log) ELSE high(k - 1)
    BY <1>4 DEF log
  <2>5. CASE ~Matches(log, f)
    <3>1. all(k) = all(k - 1) /\ low(k) = low(k - 1) /\ high(k) = high(k - 1)
      BY <2>3, <2>4, <2>5
    <3>2. QED
      BY <3>1, <1>6, <2>2, SMTT(20) DEF log
  <2>6. CASE Matches(log, f) /\ log.block <= m
    <3>1. high(k - 1) = <<>>
      BY <2>1, <2>2, <2>6
    <3>2. /\ all(k) = Append(all(k - 1), log) /\ low(k) = Append(low(k - 1), log)
          /\ high(k) = high(k - 1)
      BY <2>1, <2>3, <2>4, <2>6, SMTT(20)
    <3>3. low(k - 1) \in Seq(S) /\ all(k - 1) = low(k - 1) \o <<>>
      BY <3>1, <1>6
    <3>4. all(k - 1) = low(k - 1)
      BY <3>3, ConcatEmptySeq
    <3>5. low(k) \in Seq(S) /\ high(k) \in Seq(S) /\ all(k) = low(k) \o <<>>
      <4>1. Append(low(k - 1), log) \in Seq(S)
        BY <3>3, <2>1
      <4>2. QED
        BY <4>1, <3>1, <3>2, <3>4, <1>6, ConcatEmptySeq
    <3>6. QED
      BY <3>1, <3>2, <3>5
  <2>7. CASE Matches(log, f) /\ log.block > m
    <3>1. /\ all(k) = Append(all(k - 1), log) /\ low(k) = low(k - 1)
          /\ high(k) = Append(high(k - 1), log)
      BY <2>1, <2>3, <2>4, <2>7, SMTT(20)
    <3>2. low(k - 1) \o Append(high(k - 1), log) = Append(low(k - 1) \o high(k - 1), log)
      <4>1. low(k - 1) \in Seq(S) /\ high(k - 1) \in Seq(S) /\ log \in S
        BY <1>6, <2>1
      <4>2. QED
        BY <4>1, AppendJoined, SMTT(20)
    <3>3. low(k) \in Seq(S) /\ high(k) \in Seq(S)
      BY <1>6, <2>1, <3>1
    <3>4. all(k) = low(k) \o high(k)
      BY <1>6, <3>1, <3>2
    <3>5. k # 0 /\ chain[k].block > m
      BY <2>7 DEF log
    <3>6. QED
      BY <3>3, <3>4, <3>5
  <2>8. QED
    BY <2>1, <2>5, <2>6, <2>7, SMTT(20)
<1> HIDE DEF Good
<1>7. Good(n)
  <2> DEFINE Bad == {k \in 0..Len(chain) : ~Good(k)}
  <2>1. SUFFICES ASSUME Bad # {} PROVE FALSE
    OBVIOUS
  <2>2. Bad \in SUBSET Nat
    BY <1>2
  <2>3. PICK k \in Bad : \A j \in Bad : k <= j
    <3> HIDE DEF Bad
    <3>1. QED
      BY <2>1, <2>2, LeastNat
  <2>4. k # 0
    BY <2>3, <1>5
  <2>5. k \in 1..Len(chain) /\ k - 1 \in 0..Len(chain) /\ k - 1 \notin Bad
    BY <2>3, <2>4, <1>2
  <2>6. QED
    BY <2>3, <2>5, <1>6
<1>8. QED
  BY <1>1, <1>7 DEF Good, Joined

(* A block tag stands for a block of the node.                             *)
LEMMA EndIsBlock ==
  ASSUME NEW v, IsNumber(v) /\ IsFinite(v) => v.n \in Int, ParseLogBlockTag(v).ok
  PROVE  NodeBlock(ParseLogBlockTag(v).val) \in Int
<1>1. CASE v.t = "text" /\ v.s \in {"latest", "pending", "earliest", "finalized", "safe"}
  <2>1. ParseLogBlockTag(v) = Ok(v)
    BY <1>1 DEF ParseLogBlockTag, NonNegativeWhole, IsNumber
  <2>2. QED
    BY <2>1, <1>1, NodeReadsAssumption DEF Ok, NodeBlock
<1>2. CASE v.t \in {"decimal", "hex"} /\ v.n \in 0..WordMax
  <2>1. ParseLogBlockTag(v) = Ok(AtBlock(v.n))
    BY <1>2 DEF ParseLogBlockTag, NonNegativeWhole, IsNumber
  <2>2. QED
    BY <2>1, <1>2 DEF Ok, NodeBlock, AtBlock
<1>3. CASE NonNegativeWhole(v)
  <2>1. ParseLogBlockTag(v) = Ok(AtBlock(Saturate(v.n)))
    BY <1>3 DEF ParseLogBlockTag, NonNegativeWhole, IsNumber
  <2>2. v.n \in Nat
    BY <1>3 DEF NonNegativeWhole
  <2>3. Saturate(v.n) \in Nat
    BY <2>2, SmallerOf, NodeReadsAssumption DEF Saturate
  <2>4. QED
    BY <2>1, <2>3 DEF Ok, NodeBlock, AtBlock
<1>4. CASE /\ ~(v.t = "text" /\ v.s \in {"latest", "pending", "earliest", "finalized", "safe"})
           /\ ~(v.t \in {"decimal", "hex"} /\ v.n \in 0..WordMax)
           /\ ~NonNegativeWhole(v)
  <2>1. ParseLogBlockTag(v) = Fail("block_tag")
    BY <1>4 DEF ParseLogBlockTag
  <2>2. QED
    BY <2>1 DEF Fail
<1>5. QED
  BY <1>1, <1>2, <1>3, <1>4

(* So do both ends of a range.                                             *)
LEMMA RangeIsBlocks ==
  ASSUME NEW raw \in BlockRanges, BlockRange(raw).ok
  PROVE  /\ NodeBlock(BlockRange(raw).val[1]) \in Int
         /\ NodeBlock(BlockRange(raw).val[2]) \in Int
<1> DEFINE end(v, default) == IF IsNullish(v) THEN Ok(Named(default)) ELSE ParseLogBlockTag(v)
           pinned == ParseLogBlockTag(raw.blockTag)
           from   == end(raw.fromBlock, "earliest")
           to     == end(raw.toBlock, "latest")
<1>1. \A v \in {raw.blockTag, raw.fromBlock, raw.toBlock} : IsNumber(v) /\ IsFinite(v) => v.n \in Int
  BY NodeReadsAssumption
<1>2. \A s : NodeBlock(Named(s)) \in Int /\ Ok(Named(s)).val = Named(s)
  BY NodeReadsAssumption DEF NodeBlock, Named, Ok
<1>3. pinned.ok => NodeBlock(pinned.val) \in Int
  BY <1>1, EndIsBlock
<1>4. (from.ok => NodeBlock(from.val) \in Int) /\ (to.ok => NodeBlock(to.val) \in Int)
  BY <1>1, <1>2, EndIsBlock
<1>5. BlockRange(raw) =
        IF ~IsNullish(raw.blockTag)
        THEN IF pinned.ok THEN Ok(<<pinned.val, pinned.val>>) ELSE pinned
        ELSE IF ~from.ok THEN from
        ELSE IF ~to.ok THEN to ELSE Ok(<<from.val, to.val>>)
  BY DEF BlockRange
<1> HIDE DEF pinned, from, to
<1>6. CASE ~IsNullish(raw.blockTag)
  <2>1. pinned.ok
    BY <1>5, <1>6
  <2>2. BlockRange(raw) = Ok(<<pinned.val, pinned.val>>)
    BY <1>5, <1>6, <2>1
  <2>3. BlockRange(raw).val[1] = pinned.val /\ BlockRange(raw).val[2] = pinned.val
    BY <2>2 DEF Ok
  <2>4. QED
    BY <2>1, <2>3, <1>3
<1>7. CASE IsNullish(raw.blockTag)
  <2>1. from.ok /\ to.ok
    BY <1>5, <1>7
  <2>2. BlockRange(raw) = Ok(<<from.val, to.val>>)
    BY <1>5, <1>7, <2>1
  <2>3. BlockRange(raw).val[1] = from.val /\ BlockRange(raw).val[2] = to.val
    BY <2>2 DEF Ok
  <2>4. QED
    BY <2>1, <2>3, <1>4
<1>8. QED
  BY <1>6, <1>7

(* The least member of a set of naturals is one of it.                     *)
LEMMA MinIn ==
  ASSUME NEW T \in SUBSET Nat, T # {}
  PROVE  Min(T) \in T /\ \A x \in T : Min(T) <= x
<1>1. \E x \in T : \A y \in T : x <= y
  BY LeastNat
<1>2. QED
  BY <1>1 DEF Min

(* Of a list of checks, the first that fails fails.                        *)
LEMMA FirstFails ==
  ASSUME NEW S, NEW checks \in Seq(S), \E i \in DOMAIN checks : ~checks[i].ok
  PROVE  ~checks[Min({i \in DOMAIN checks : ~checks[i].ok})].ok
<1> DEFINE bad == {i \in DOMAIN checks : ~checks[i].ok}
<1>1. bad \in SUBSET Nat /\ bad # {}
  OBVIOUS
<1>2. Min(bad) \in bad
  <2> HIDE DEF bad
  <2>1. QED
    BY <1>1, MinIn
<1>3. QED
  BY <1>2

(* A filter that is accepted has the range and the slots of its query.     *)
LEMMA FilterIs ==
  ASSUME NEW addresses, NEW topics \in Topics, NEW raw, LogFilter(addresses, raw, topics).ok
  PROVE  LET range == BlockRange(raw)
         IN  /\ range.ok
             /\ LogFilter(addresses, raw, topics).val
                  = [addresses |-> addresses, topics |-> [i \in DOMAIN topics |-> TopicSlot(topics[i]).val],
                     from |-> NodeBlock(range.val[1]), to |-> NodeBlock(range.val[2])]
<1> DEFINE range == BlockRange(raw)
           slots == [i \in DOMAIN topics |-> TopicSlot(topics[i])]
           bad   == {i \in DOMAIN slots : ~slots[i].ok}
           T     == [i \in DOMAIN slots |-> slots[i].val]
           f     == [addresses |-> addresses, topics |-> T,
                     from |-> NodeBlock(range.val[1]), to |-> NodeBlock(range.val[2])]
<1>1. LogFilter(addresses, raw, topics) =
        IF ~range.ok THEN range ELSE IF bad # {} THEN slots[Min(bad)] ELSE Ok(f)
  BY DEF LogFilter
<1>2. bad # {} => ~slots[Min(bad)].ok
  <2>1. topics \in Seq({topics[i] : i \in DOMAIN topics})
    BY NodeReadsAssumption
  <2>2. slots \in Seq({slots[i] : i \in DOMAIN slots})
    BY <2>1
  <2> HIDE DEF slots
  <2>3. QED
    BY <2>2, FirstFails
<1>3. T = [i \in DOMAIN topics |-> TopicSlot(topics[i]).val]
  OBVIOUS
<1> HIDE DEF range, slots, bad
<1>4. range.ok /\ LogFilter(addresses, raw, topics) = Ok(f)
  BY <1>1, <1>2
<1>5. QED
  BY <1>3, <1>4 DEF Ok, range

(* A query that is answered, and its halves.                               *)
LEMMA LogQuery ==
  ASSUME NEW chain \in NodeLogs, NEW addresses, NEW topics \in Topics, NEW raw \in BlockRanges,
         NEW filter, filter = LogFilter(addresses, raw, topics),
         NEW reply, reply = IF filter.ok THEN GetLogs(chain, filter.val) ELSE filter,
         doc' = [topic |-> "logs", chain |-> chain, raw |-> raw, filter |-> filter,
                answer |-> reply]
  PROVE  LogsSplit'
<1>1. SUFFICES ASSUME reply.ok, NEW m \in filter.val.from..filter.val.to - 1
               PROVE  LET low  == GetLogs(chain, Low(filter.val, m))
                          high == GetLogs(chain, High(filter.val, m))
                      IN  low.ok /\ high.ok /\ low.val \o high.val = reply.val
  BY DEF LogsSplit, Low, High
<1>2. filter.ok /\ reply = GetLogs(chain, filter.val)
  BY <1>1
<1> DEFINE range == BlockRange(raw)
           T == [i \in DOMAIN topics |-> TopicSlot(topics[i]).val]
           from == NodeBlock(range.val[1])
           to == NodeBlock(range.val[2])
           f == filter.val
           n == Len(chain)
<1>3. range.ok /\ f = [addresses |-> addresses, topics |-> T, from |-> from, to |-> to]
  BY <1>2, FilterIs
<1>4. from \in Int /\ to \in Int
  BY <1>3, RangeIsBlocks
<1> HIDE DEF from, to, T, range
<1>5. f.from = from /\ f.to = to /\ f.addresses = addresses /\ f.topics = T
  BY <1>3
<1> HIDE DEF f
<1>6. m \in from..to - 1
  BY <1>1, <1>5 DEF f
<1>7. /\ chain \in Seq({chain[i] : i \in DOMAIN chain})
      /\ \A i \in DOMAIN chain : chain[i].block \in Nat
      /\ \A i, j \in DOMAIN chain : i < j => chain[i].block <= chain[j].block
  BY NodeReadsAssumption
<1>8. n \in 0..Len(chain)
  BY <1>7
<1> DEFINE S == {chain[i] : i \in DOMAIN chain}
           all == Hits(chain, f)[n]
           low == Hits(chain, Low(f, m))[n]
           high == Hits(chain, High(f, m))[n]
<1>9. low \in Seq(S) /\ high \in Seq(S) /\ all = low \o high
  <2> HIDE DEF S
  <2>1. chain \in Seq(S)
    BY <1>7 DEF S
  <2>2. f = [addresses |-> addresses, topics |-> T, from |-> from, to |-> to]
    BY <1>3 DEF f
  <2>3. Joined(chain, f, m, n, S)
    BY <1>4, <1>6, <1>7, <1>8, <2>1, <2>2, HalvesJoin
  <2>4. QED
    BY <2>3 DEF Joined
<1> HIDE DEF S, all, low, high
<1>10. Len(low) \in Nat /\ Len(high) \in Nat /\ Len(all) = Len(low) + Len(high)
  BY <1>9
<1>11. GetLogs(chain, f) =
         IF f.addresses = <<>> THEN Fail("get_logs_no_address")
         ELSE IF Len(f.topics) > 4 THEN Fail("get_logs_too_many_topics")
         ELSE IF Len(all) > MaxLogs THEN Fail("get_logs_too_many") ELSE Ok(all)
  BY DEF GetLogs, all
<1>12. /\ addresses # <<>> /\ ~(Len(T) > 4) /\ ~(Len(all) > MaxLogs)
       /\ reply = Ok(all)
  <2>1. reply = GetLogs(chain, f) /\ reply.ok
    BY <1>1, <1>2 DEF f
  <2>2. QED
    BY <2>1, <1>5, <1>11 DEF Fail
<1>13. /\ Low(f, m).addresses = addresses /\ Low(f, m).topics = T
       /\ High(f, m).addresses = addresses /\ High(f, m).topics = T
  BY <1>3 DEF Low, High, f
<1>14. ~(Len(low) > MaxLogs) /\ ~(Len(high) > MaxLogs)
  BY <1>10, <1>12, NodeReadsAssumption
<1>15. GetLogs(chain, Low(f, m)) = Ok(low)
  BY <1>12, <1>13, <1>14 DEF GetLogs, low
<1>16. GetLogs(chain, High(f, m)) = Ok(high)
  BY <1>12, <1>13, <1>14 DEF GetLogs, high
<1>17. \A x : Ok(x).ok /\ Ok(x).val = x
  BY DEF Ok
<1>18. QED
  BY <1>9, <1>12, <1>15, <1>16, <1>17 DEF f

-----------------------------------------------------------------------------
(* Sums.                                                                   *)

(* A sum of naturals counts cells: f[x] of them in the column of x.  That  *)
(* solves the recursion a fold chooses a solution of, whatever order it    *)
(* takes the elements in.                                                  *)
Column(f, x) == {x} \X (1..f[x])
Cells(f, T) == UNION {Column(f, x) : x \in T}

(* A column has as many cells as its value.                                *)
LEMMA ColumnSize ==
  ASSUME NEW f, NEW x, f[x] \in Nat
  PROVE  IsFiniteSet(Column(f, x)) /\ Cardinality(Column(f, x)) = f[x]
<1> DEFINE g == [k \in 1..f[x] |-> <<x, k>>]
<1>1. g \in Bijection(1..f[x], Column(f, x))
  BY DEF Bijection, Injection, Surjection, IsInjective, Column
<1>2. IsFiniteSet(1..f[x]) /\ Cardinality(1..f[x]) = f[x]
  BY FS_Interval, SMTT(20)
<1>3. QED
  BY <1>1, <1>2, FS_Bijection DEF ExistsBijection

(* An element adds its column.                                             *)
LEMMA CellsAdd ==
  ASSUME NEW f, NEW T, NEW x \in T, f[x] \in Nat, IsFiniteSet(Cells(f, T \ {x}))
  PROVE  /\ IsFiniteSet(Cells(f, T))
         /\ Cardinality(Cells(f, T)) = f[x] + Cardinality(Cells(f, T \ {x}))
<1>1. Cells(f, T) = Column(f, x) \cup Cells(f, T \ {x})
  BY DEF Cells
<1>2. Column(f, x) \cap Cells(f, T \ {x}) = {}
  BY DEF Cells, Column
<1>3. IsFiniteSet(Column(f, x)) /\ Cardinality(Column(f, x)) = f[x]
  BY ColumnSize
<1>4. Cardinality(Column(f, x) \cap Cells(f, T \ {x})) = 0
  BY <1>2, FS_EmptySet
<1>5. Cardinality(Cells(f, T \ {x})) \in Nat
  BY FS_CardinalityType
<1> DEFINE A == Column(f, x)
           B == Cells(f, T \ {x})
<1> HIDE DEF A, B
<1>6. IsFiniteSet(A \cup B) /\ Cardinality(A \cup B) = Cardinality(A) + Cardinality(B) - Cardinality(A \cap B)
  BY <1>3, FS_Union DEF A, B
<1>7. Cardinality(A \cup B) = f[x] + Cardinality(B)
  BY <1>3, <1>4, <1>5, <1>6 DEF A, B
<1>8. QED
  BY <1>1, <1>6, <1>7 DEF A, B

(* Some set is minimal among subsets of a finite set.                      *)
LEMMA LeastSet ==
  ASSUME NEW A, IsFiniteSet(A), NEW B \in SUBSET SUBSET A, B # {}
  PROVE  \E T \in B : \A U \in B : ~(U \subseteq T /\ U # T)
<1>1. IsWellFoundedOn(StrictSubsetOrdering(A), FiniteSubsetsOf(A))
  BY FS_StrictSubsetOrderingWellFounded
<1>2. B \subseteq FiniteSubsetsOf(A)
  BY FS_FiniteSubsetsOfFinite
<1>3. PICK T \in B : \A U \in B : ~(<<U, T>> \in StrictSubsetOrdering(A))
  BY <1>1, <1>2, WFMin
<1>4. QED
  BY <1>3 DEF StrictSubsetOrdering

(* So there are finitely many cells: the least set without is not empty.   *)
LEMMA CellsFinite ==
  ASSUME NEW f, NEW S, IsFiniteSet(S), \A x \in S : f[x] \in Nat, NEW T \in SUBSET S
  PROVE  IsFiniteSet(Cells(f, T))
<1> DEFINE Bad == {U \in SUBSET S : ~IsFiniteSet(Cells(f, U))}
<1>1. SUFFICES ASSUME Bad # {} PROVE FALSE
  OBVIOUS
<1>2. PICK U \in Bad : \A V \in Bad : ~(V \subseteq U /\ V # U)
  <2>1. Bad \in SUBSET SUBSET S
    OBVIOUS
  <2> HIDE DEF Bad
  <2>2. QED
    BY <1>1, <2>1, LeastSet
<1>3. U # {}
  <2>1. Cells(f, {}) = {}
    BY DEF Cells
  <2>2. QED
    BY <2>1, <1>2, FS_EmptySet
<1>4. PICK x \in U : TRUE
  BY <1>3
<1>5. U \ {x} \notin Bad
  BY <1>2, <1>4
<1>6. IsFiniteSet(Cells(f, U \ {x}))
  BY <1>2, <1>5
<1>7. f[x] \in Nat
  BY <1>2, <1>4
<1>8. QED
  BY <1>2, <1>4, <1>6, <1>7, CellsAdd

(* The sum of the values of a function.                                    *)
LEMMA SumIsCells ==
  ASSUME NEW f, IsFiniteSet(DOMAIN f), \A x \in DOMAIN f : f[x] \in Nat
  PROVE  FoldFunction(+, 0, f) = Cardinality(Cells(f, DOMAIN f))
<1> DEFINE S == DOMAIN f
           Pick(s) == CHOOSE x \in s : TRUE
           Folds(it) == it = [s \in SUBSET S |->
                                IF s = {} THEN 0 ELSE f[Pick(s)] + it[s \ {Pick(s)}]]
           count == [s \in SUBSET S |-> Cardinality(Cells(f, s))]
           it == CHOOSE i : Folds(i)
<1>1. FoldFunction(+, 0, f) = it[S]
  BY DEF FoldFunction, FoldFunctionOnSet, MapThenFoldSet
<1>2. Folds(count)
  <2>1. ASSUME NEW s \in SUBSET S
        PROVE  count[s] = IF s = {} THEN 0 ELSE f[Pick(s)] + count[s \ {Pick(s)}]
    <3>1. CASE s = {}
      <4>1. Cells(f, s) = {}
        BY <3>1 DEF Cells
      <4>2. QED
        BY <3>1, <4>1, FS_EmptySet
    <3>2. CASE s # {}
      <4>1. Pick(s) \in s
        BY <3>2
      <4> HIDE DEF Pick
      <4>2. f[Pick(s)] \in Nat /\ s \ {Pick(s)} \in SUBSET S
        BY <4>1
      <4>3. IsFiniteSet(Cells(f, s \ {Pick(s)}))
        BY <4>2, CellsFinite
      <4>4. Cardinality(Cells(f, s)) = f[Pick(s)] + Cardinality(Cells(f, s \ {Pick(s)}))
        BY <4>1, <4>2, <4>3, CellsAdd
      <4>5. QED
        BY <3>2, <4>2, <4>4
    <3>3. QED
      BY <3>1, <3>2
  <2>2. count = [s \in SUBSET S |-> count[s]]
    OBVIOUS
  <2> HIDE DEF count, Pick
  <2>3. QED
    BY <2>1, <2>2
<1>3. Folds(it)
  BY <1>2
<1> HIDE DEF it, Pick
<1>4. \A s \in SUBSET S : it[s] = IF s = {} THEN 0 ELSE f[Pick(s)] + it[s \ {Pick(s)}]
  BY <1>3
<1>5. \A s \in SUBSET S : count[s] = IF s = {} THEN 0 ELSE f[Pick(s)] + count[s \ {Pick(s)}]
  <2> HIDE DEF count
  <2>1. QED
    BY <1>2
<1>6. \A s \in SUBSET S : s # {} => Pick(s) \in s
  BY DEF Pick
<1> HIDE DEF Folds
<1> DEFINE Bad == {s \in SUBSET S : it[s] # count[s]}
<1>7. Bad = {}
  <2>1. SUFFICES ASSUME Bad # {} PROVE FALSE
    OBVIOUS
  <2> HIDE DEF count
  <2>2. PICK s \in Bad : \A t \in Bad : ~(t \subseteq s /\ t # s)
    <3>1. Bad \in SUBSET SUBSET S
      OBVIOUS
    <3> HIDE DEF Bad
    <3>2. QED
      BY <2>1, <3>1, LeastSet
  <2>3. s # {}
    BY <2>2, <1>4, <1>5
  <2>4. s \ {Pick(s)} \notin Bad /\ s \ {Pick(s)} \in SUBSET S
    BY <2>2, <2>3, <1>6
  <2>5. QED
    BY <2>2, <2>3, <2>4, <1>4, <1>5
<1>8. it[S] = count[S]
  BY <1>7
<1>9. QED
  BY <1>1, <1>8

(* Renaming the elements leaves a sum alone.                               *)
LEMMA SumRenamed ==
  ASSUME NEW f, NEW g, IsFiniteSet(DOMAIN f), \A x \in DOMAIN f : f[x] \in Nat,
         NEW h \in Bijection(DOMAIN f, DOMAIN g), \A x \in DOMAIN f : g[h[x]] = f[x]
  PROVE  FoldFunction(+, 0, f) = FoldFunction(+, 0, g)
<1> DEFINE S == DOMAIN f
           T == DOMAIN g
           c == [p \in Cells(f, S) |-> <<h[p[1]], p[2]>>]
<1>1. /\ \A x \in S : h[x] \in T
      /\ \A x, y \in S : h[x] = h[y] => x = y
      /\ \A y \in T : \E x \in S : h[x] = y
  BY DEF Bijection, Injection, Surjection, IsInjective
<1>2. IsFiniteSet(T) /\ \A y \in T : g[y] \in Nat
  BY <1>1, FS_Bijection DEF ExistsBijection
<1>3. \A p : p \in Cells(f, S) <=> \E x \in S : \E k \in 1..f[x] : p = <<x, k>>
  BY DEF Cells, Column
<1>4. \A p : p \in Cells(g, T) <=> \E y \in T : \E k \in 1..g[y] : p = <<y, k>>
  BY DEF Cells, Column
<1>5. \A p \in Cells(f, S) : c[p] \in Cells(g, T)
  <2> SUFFICES ASSUME NEW x \in S, NEW k \in 1..f[x], <<x, k>> \in Cells(f, S)
               PROVE  c[<<x, k>>] \in Cells(g, T)
    BY <1>3
  <2>1. c[<<x, k>>] = <<h[x], k>> /\ h[x] \in T /\ k \in 1..g[h[x]]
    BY <1>1
  <2>2. QED
    BY <2>1, <1>4
<1>6. \A p, q \in Cells(f, S) : c[p] = c[q] => p = q
  <2> SUFFICES ASSUME NEW p \in Cells(f, S), NEW q \in Cells(f, S), c[p] = c[q] PROVE p = q
    OBVIOUS
  <2>1. PICK x \in S : \E k \in 1..f[x] : p = <<x, k>>
    BY <1>3
  <2>2. PICK y \in S : \E l \in 1..f[y] : q = <<y, l>>
    BY <1>3
  <2>3. h[x] = h[y] /\ p[2] = q[2] /\ p = <<x, p[2]>> /\ q = <<y, q[2]>>
    BY <2>1, <2>2
  <2>4. QED
    BY <2>3, <1>1
<1>7. \A r \in Cells(g, T) : \E p \in Cells(f, S) : c[p] = r
  <2> SUFFICES ASSUME NEW r \in Cells(g, T) PROVE \E p \in Cells(f, S) : c[p] = r
    OBVIOUS
  <2>1. PICK y \in T : \E k \in 1..g[y] : r = <<y, k>>
    BY <1>4
  <2>2. PICK x \in S : h[x] = y
    BY <1>1
  <2>3. <<x, r[2]>> \in Cells(f, S) /\ r = <<y, r[2]>>
    BY <2>1, <2>2, <1>3
  <2>4. c[<<x, r[2]>>] = r
    BY <2>2, <2>3
  <2>5. QED
    BY <2>3, <2>4
<1>8. c \in Bijection(Cells(f, S), Cells(g, T))
  <2>1. c \in [Cells(f, S) -> Cells(g, T)]
    BY <1>5
  <2> HIDE DEF c
  <2>2. QED
    BY <2>1, <1>6, <1>7 DEF Bijection, Injection, Surjection, IsInjective
<1>9. IsFiniteSet(Cells(f, S))
  BY CellsFinite
<1>10. Cardinality(Cells(f, S)) = Cardinality(Cells(g, T))
  BY <1>8, <1>9, FS_Bijection DEF ExistsBijection
<1>11. QED
  BY <1>2, <1>10, SumIsCells

(* The places of some rows in a list.                                      *)
Places(list, R) == {i \in 1..Len(list) : list[i] \in R}

\* One place a row.
PlacedOnce(list, R) ==
  /\ IsFiniteSet(Places(list, R))
  /\ [i \in Places(list, R) |-> list[i]] \in Bijection(Places(list, R), R)
  /\ Cardinality(Places(list, R)) = Cardinality(R)

\* A list of all rows without doubles.
Complete(list, rows) ==
  /\ Len(list) \in Nat /\ list \in [1..Len(list) -> rows]
  /\ \A i, j \in 1..Len(list) : list[i] = list[j] => i = j
  /\ \A r \in rows : \E i \in 1..Len(list) : list[i] = r

(* A list without doubles that has all of them.                            *)
LEMMA PlacesOf ==
  ASSUME NEW list, NEW rows, Complete(list, rows), NEW R \in SUBSET rows
  PROVE  PlacedOnce(list, R)
<1> DEFINE I == Places(list, R)
           h == [i \in I |-> list[i]]
           n == Len(list)
<1>1. /\ n \in Nat /\ list \in [1..n -> rows]
      /\ \A i, j \in 1..n : list[i] = list[j] => i = j
      /\ \A r \in R : \E i \in 1..n : list[i] = r
  BY DEF Complete
<1> HIDE DEF n
<1>2. IsFiniteSet(I)
  <2>1. I \in SUBSET (1..n)
    BY DEF Places, n
  <2>2. IsFiniteSet(1..n)
    BY <1>1, FS_Interval
  <2>3. QED
    BY <2>1, <2>2, FS_Subset
<1>3. h \in Bijection(I, R)
  <2>1. \A i \in I : h[i] \in R
    BY DEF Places
  <2>2. \A i, j \in I : h[i] = h[j] => i = j
    BY <1>1 DEF Places, n
  <2>3. \A r \in R : \E i \in I : h[i] = r
    BY <1>1 DEF Places, n
  <2> HIDE DEF I
  <2>4. QED
    BY <2>1, <2>2, <2>3 DEF Bijection, Injection, Surjection, IsInjective
<1>4. QED
  BY <1>2, <1>3, FS_Bijection DEF ExistsBijection, PlacedOnce

(* The sum over the places is the sum over the rows.                       *)
LEMMA RecordsSum ==
  ASSUME NEW rows \in Captures,
         doc' = [topic |-> "total", rows |-> rows,
                answer |-> AggregateRecords(ListCaptures(rows, [since |-> {}, limit |-> ListCap]),
                                            "supply", "amount")]
  PROVE  SumsAreExact'
<1> DEFINE list == ListCaptures(rows, [since |-> {}, limit |-> ListCap])
           n == Len(list)
           supply == {r \in rows : r.name = "supply"}
           amount == {r \in supply : "amount" \in DOMAIN r.fields}
           Amount(r) == r.fields["amount"]
           mine == {i \in DOMAIN list : list[i].name = "supply"}
           with == {i \in mine : "amount" \in DOMAIN list[i].fields}
           vals == [i \in with |-> Amount(list[i])]
           f == [i \in DOMAIN vals |-> vals[i].n]
           g == [r \in amount |-> r.fields.amount.n]
           sum == FoldFunction(+, 0, f)
           total == Total(amount)
<1>1. SUFFICES ASSUME Cardinality(rows) <= ListCap
               PROVE  /\ Cardinality(mine) = Cardinality(supply)
                      /\ SumDecimalStrings(vals) =
                           IF amount = {} \/ (\E r \in amount : Amount(r).t # "num") \/ total > SumMax
                           THEN {} ELSE {total}
  <2> DEFINE ans == AggregateRecords(list, "supply", "amount")
             many == Cardinality(mine)
             sums == SumDecimalStrings(vals)
  <2>1. ans = [count |-> many, sums |-> sums]
    BY DEF AggregateRecords
  <2>2. doc'.rows = rows /\ doc'.answer = ans
    OBVIOUS
  <2> HIDE DEF ans, many, sums
  <2>3. ans.count = many /\ ans.sums = sums
    BY <2>1
  <2>4. \A r : r.fields.amount = Amount(r)
    OBVIOUS
  <2>5. QED
    BY <2>2, <2>4, <2>3 DEF SumsAreExact, many, sums
<1>2. IsDated(rows) /\ \A r \in amount : Amount(r).t = "num" => Amount(r).n \in Nat
  BY ReadsAssumption
<1>3. list = Newest(rows, ListCap)
  <2>1. {r \in rows : \A t \in {} : CapturedAfter(r, t)} = rows
    OBVIOUS
  <2>2. QED
    BY <2>1 DEF ListCaptures
<1>4. ListCap \in Nat
  BY QueriesAssumption
<1>5. Shows(list, rows, ListCap)
  BY <1>2, <1>3, <1>4, NewestShows
<1> HIDE DEF list, f, g, sum, total, Amount
<1>6. /\ n \in Nat /\ list \in [1..n -> rows] /\ DOMAIN list = 1..n
      /\ \A i, j \in 1..n : list[i] = list[j] => i = j
      /\ \A r \in rows : \E i \in 1..n : list[i] = r
  <2>1. Cardinality(rows) \in Nat /\ n = Min({ListCap, Cardinality(rows)})
    BY <1>5 DEF Shows
  <2>2. n \in Nat
    BY <1>4, <2>1, SmallerOf
  <2>3. QED
    BY <1>1, <1>5, <2>2 DEF Shows
<1>7. mine = Places(list, supply) /\ with = Places(list, amount)
  BY <1>6 DEF Places
<1>8. supply \in SUBSET rows /\ amount \in SUBSET rows
  OBVIOUS
<1> HIDE DEF mine, with, supply, amount
<1>9. Complete(list, rows)
  BY <1>6 DEF Complete
<1>10. Cardinality(mine) = Cardinality(supply) /\ IsFiniteSet(with)
       /\ [i \in with |-> list[i]] \in Bijection(with, amount)
  <2>1. PlacedOnce(list, supply) /\ PlacedOnce(list, amount)
    BY <1>8, <1>9, PlacesOf
  <2>2. QED
    BY <2>1, <1>7 DEF PlacedOnce
<1>11. DOMAIN vals = with /\ \A i \in with : list[i] \in amount /\ vals[i] = Amount(list[i])
  BY <1>10 DEF Bijection, Injection
<1>12. \A r \in amount : \E i \in with : list[i] = r
  BY <1>10 DEF Bijection, Surjection
<1> HIDE DEF vals
<1>13. DOMAIN vals = {} <=> amount = {}
  BY <1>11, <1>12
<1>14. (\E i \in DOMAIN vals : vals[i].t # "num") <=> (\E r \in amount : Amount(r).t # "num")
  BY <1>11, <1>12
<1>15. ASSUME \A r \in amount : Amount(r).t = "num"
       PROVE  sum = total
  <2>1. DOMAIN f = with /\ DOMAIN g = amount
    BY <1>11 DEF f, g
  <2>2. \A i \in with : f[i] \in Nat /\ g[list[i]] = f[i]
    BY <1>2, <1>11, <1>15 DEF f, g, Amount
  <2>3. total = FoldFunction(+, 0, g)
    BY DEF total, Total, g
  <2>4. QED
    BY <1>10, <2>1, <2>2, <2>3, SumRenamed DEF sum
<1>16. SumDecimalStrings(vals) =
         IF DOMAIN vals = {} \/ (\E i \in DOMAIN vals : vals[i].t # "num") \/ sum > SumMax
         THEN {} ELSE {sum}
  BY DEF SumDecimalStrings, sum, f
<1>17. QED
  BY <1>10, <1>13, <1>14, <1>15, <1>16

-----------------------------------------------------------------------------
(* The totals of the last day.                                             *)

(* Lists of the last day.                                                  *)
DayFilter(now) == [Everything EXCEPT !.since = {Today(now)}]

(* Some rows of a table are a table.                                       *)
LEMMA SomeOfDated ==
  ASSUME NEW rows, IsDated(rows), NEW R \in SUBSET rows
  PROVE  IsDated(R)
<1>1. IsFiniteSet(R)
  BY FS_Subset DEF IsDated, IsTableOf
<1>2. QED
  BY <1>1 DEF IsDated, IsTableOf

(* Both lists are those of the runs of the last day.                       *)
LEMMA DayLists ==
  ASSUME NEW runs, IsDated(runs), NEW now \in Int
  PROVE  LET R == {r \in runs : r.at > now - Day}
             N == {r \in R : "noop" \in r.outcomes}
         IN  /\ Shows(ListRuns(runs, DayFilter(now)), R, ListCap)
             /\ Shows(ListRuns(runs, [DayFilter(now) EXCEPT !.outcome = {"noop"}]), N, ListCap)
<1> DEFINE R == {r \in runs : r.at > now - Day}
           N == {r \in R : "noop" \in r.outcomes}
           f == DayFilter(now)
           g == [f EXCEPT !.outcome = {"noop"}]
<1>1. /\ f = [strategy |-> {}, since |-> {Today(now)}, status |-> {}, outcome |-> {}, limit |-> ListCap]
      /\ g = [strategy |-> {}, since |-> {Today(now)}, status |-> {}, outcome |-> {"noop"}, limit |-> ListCap]
  <2> DEFINE e == [strategy |-> {}, since |-> {Today(now)}, status |-> {}, outcome |-> {}, limit |-> ListCap]
  <2>1. f = e
    BY DEF DayFilter, Everything
  <2>2. g = [e EXCEPT !.outcome = {"noop"}]
    BY <2>1
  <2> HIDE DEF f, g
  <2>3. QED
    BY <2>1, <2>2
<1>2. ListCap \in Nat /\ Min({ListCap, ListCap}) = ListCap
  BY QueriesAssumption, SmallerOf
<1>3. \A r \in runs : After(r.at, Today(now)) <=> r.at > now - Day
  BY DEF After, Today
<1> HIDE DEF f, g
<1>4. ListRuns(runs, f) = Newest(R, ListCap)
  <2>1. {r \in runs : /\ \A s \in f.strategy : r.strategy = s
                      /\ \A t \in f.since : After(r.at, t)
                      /\ \A s \in f.status : r.status = s
                      /\ \A o \in f.outcome : o \in r.outcomes} = R
    BY <1>1, <1>3
  <2>2. f.limit = ListCap
    BY <1>1
  <2>3. QED
    BY <2>1, <2>2, <1>2 DEF ListRuns
<1>5. ListRuns(runs, g) = Newest(N, ListCap)
  <2>1. {r \in runs : /\ \A s \in g.strategy : r.strategy = s
                      /\ \A t \in g.since : After(r.at, t)
                      /\ \A s \in g.status : r.status = s
                      /\ \A o \in g.outcome : o \in r.outcomes} = N
    BY <1>1, <1>3
  <2>2. g.limit = ListCap
    BY <1>1
  <2>3. QED
    BY <2>1, <2>2, <1>2 DEF ListRuns
<1>6. IsDated(R) /\ IsDated(N)
  BY SomeOfDated
<1>7. Shows(Newest(R, ListCap), R, ListCap) /\ Shows(Newest(N, ListCap), N, ListCap)
  BY <1>2, <1>6, NewestShows
<1>8. QED
  BY <1>4, <1>5, <1>7 DEF f, g

(* Counting places by status counts runs by status.                        *)
LEMMA StatusCounts ==
  ASSUME NEW rows, NEW limit \in Nat, NEW list, Shows(list, rows, limit), IsFiniteSet(rows)
  PROVE  /\ \A S, T : S \cap T = {} => StatusCount(list, S) + StatusCount(list, T) <= Len(list)
         /\ Cardinality(rows) <= limit => \A S : StatusCount(list, S) = Statuses(S, rows)
<1> DEFINE n == Len(list)
           Of(S) == {i \in DOMAIN list : list[i].status \in S}
<1>1. n \in Nat /\ DOMAIN list = 1..n /\ list \in [1..n -> rows]
      /\ \A i, j \in 1..n : list[i] = list[j] => i = j
  <2>1. Cardinality(rows) \in Nat /\ n = Min({limit, Cardinality(rows)})
    BY DEF Shows
  <2>2. n \in Nat
    BY <2>1, SmallerOf
  <2>3. QED
    BY <2>2 DEF Shows
<1>2. IsFiniteSet(1..n) /\ Cardinality(1..n) = n
  <2>1. n \in Int /\ 1 \in Int
    BY <1>1
  <2> HIDE DEF n
  <2>2. QED
    BY <1>1, <2>1, FS_Interval
<1>3. ASSUME NEW S, NEW T, S \cap T = {}
      PROVE  StatusCount(list, S) + StatusCount(list, T) <= n
  <2> DEFINE A == Of(S)
             B == Of(T)
  <2>1. A \in SUBSET (1..n) /\ B \in SUBSET (1..n)
    BY <1>1
  <2>2. A \cap B = {}
    BY <1>3
  <2> HIDE DEF A, B
  <2>3. IsFiniteSet(A) /\ IsFiniteSet(B)
    BY <2>1, <1>2, FS_Subset
  <2>4. Cardinality(A \cup B) = Cardinality(A) + Cardinality(B) - Cardinality(A \cap B)
    BY <2>3, FS_Union
  <2>5. Cardinality(A \cap B) = 0
    BY <2>2, FS_EmptySet
  <2>6. Cardinality(A \cup B) <= n
    <3>1. A \cup B \in SUBSET (1..n)
      BY <2>1
    <3>2. QED
      BY <3>1, <1>2, FS_Subset
  <2>7. Cardinality(A) \in Nat /\ Cardinality(B) \in Nat
    BY <2>3, FS_CardinalityType
  <2>8. Cardinality(A) + Cardinality(B) <= n
    BY <2>4, <2>5, <2>6, <2>7
  <2>9. QED
    BY <2>8 DEF A, B, StatusCount
<1>4. ASSUME Cardinality(rows) <= limit, NEW S
      PROVE  StatusCount(list, S) = Statuses(S, rows)
  <2> DEFINE R == {r \in rows : r.status \in S}
  <2>1. Of(S) = Places(list, R)
    BY <1>1 DEF Places
  <2>2. Complete(list, rows)
    BY <1>1, <1>4 DEF Complete, Shows
  <2> HIDE DEF R
  <2>3. R \in SUBSET rows
    BY DEF R
  <2>4. Cardinality(Places(list, R)) = Cardinality(R)
    BY <2>2, <2>3, PlacesOf DEF PlacedOnce
  <2>5. QED
    BY <2>1, <2>4 DEF R, StatusCount, Statuses
<1>5. QED
  BY <1>3, <1>4

(* The totals of the status page.                                          *)
LEMMA StatusTotals ==
  ASSUME NEW db \in Databases, NEW uri, uri.ns = "runtime", uri.segs = <<"status">>,
         doc' = [topic |-> "resource", db |-> db, uri |-> uri, answer |-> Serve(db, uri)]
  PROVE  TotalsAreExact'
<1> DEFINE runs == db.runs
           now == db.now
           R == InLastDay(db)
           N == {r \in R : "noop" \in r.outcomes}
           list == ListRuns(runs, DayFilter(now))
           noops == ListRuns(runs, [DayFilter(now) EXCEPT !.outcome = {"noop"}])
           day == LastDay(runs, now)
<1>1. DispatchUri("runtime", <<"status">>) = "runtime"
  BY DEF DispatchUri, Singletons
<1>2. Serve(db, uri) = Is(ServeRuntime(db, <<"status">>))
  BY <1>1 DEF Serve, Elsewhere
<1>3. ServeRuntime(db, <<"status">>) =
        ReadRuntimeStatus(db.provider, db.chain, db.balance, db.resolved, db.triggers, runs, now)
  BY DEF ServeRuntime
<1>4. doc'.answer.val.last_24h = day
  <2> DEFINE reply == Serve(db, uri)
             status == ReadRuntimeStatus(db.provider, db.chain, db.balance, db.resolved,
                                         db.triggers, runs, now)
  <2>1. status.last_24h = day
    BY DEF ReadRuntimeStatus
  <2>2. reply = Is(status)
    BY <1>2, <1>3
  <2>3. doc'.answer = reply
    OBVIOUS
  <2> HIDE DEF reply, status, day
  <2>4. QED
    BY <2>1, <2>2, <2>3 DEF Is
<1>5. IsDated(runs) /\ now \in Int
  BY ReadsAssumption
<1>6. Shows(list, R, ListCap) /\ Shows(noops, N, ListCap)
  BY <1>5, DayLists DEF InLastDay
<1>7. /\ day.runs = Len(list) /\ day.noop = Len(noops)
      /\ day.succeeded = StatusCount(list, {"succeeded"})
      /\ day.failed = StatusCount(list, FailedStatus)
  BY DEF LastDay, DayFilter
<1> HIDE DEF list, noops, day
<1>8. ListCap \in Nat
  BY QueriesAssumption
<1>9. IsDated(R) /\ IsFiniteSet(R)
  BY <1>5, SomeOfDated DEF InLastDay, IsDated, IsTableOf
<1>10. Cardinality(N) \in Nat /\ Cardinality(R) \in Nat /\ Cardinality(N) <= Cardinality(R)
  <2>1. N \in SUBSET R
    OBVIOUS
  <2> HIDE DEF N, R
  <2>2. QED
    BY <2>1, <1>9, FS_Subset, FS_CardinalityType
<1>11. day.runs = Min({ListCap, Cardinality(R)}) /\ day.noop = Min({ListCap, Cardinality(N)})
  BY <1>6, <1>7 DEF Shows
<1> HIDE DEF N, R
<1>12. day.noop <= day.runs
  <2>1. ListCap <= Cardinality(R) \/ Cardinality(R) <= ListCap
    BY <1>8, <1>10
  <2>2. ListCap <= Cardinality(N) \/ Cardinality(N) <= ListCap
    BY <1>8, <1>10
  <2>3. QED
    BY <1>8, <1>10, <1>11, <2>1, <2>2, SmallerOf
<1>13. day.succeeded + day.failed <= day.runs
  <2>1. {"succeeded"} \cap FailedStatus = {}
    BY DEF FailedStatus
  <2>2. \A S, T : S \cap T = {} => StatusCount(list, S) + StatusCount(list, T) <= Len(list)
    BY <1>6, <1>8, <1>9, StatusCounts
  <2>3. QED
    BY <2>1, <2>2, <1>7
<1>14. ASSUME Cardinality(R) <= ListCap
       PROVE  day.succeeded = Statuses({"succeeded"}, R) /\ day.failed = Statuses(FailedStatus, R)
  BY <1>6, <1>7, <1>8, <1>9, <1>14, StatusCounts
<1>15. {ListCap, Cardinality(R)} = {Cardinality(R), ListCap}
  OBVIOUS
<1>16. doc'.db = db
  OBVIOUS
<1>17. QED
  BY <1>4, <1>11, <1>12, <1>13, <1>14, <1>15, <1>16 DEF TotalsAreExact, R

-----------------------------------------------------------------------------
(* Identifiers and the URIs they are read with.                            *)

(* Which namespaces a list answers for.                                    *)
LEMMA Routes ==
  ASSUME NEW ns, NEW segs
  PROVE  LET route == DispatchUri(ns, segs)
         IN  /\ route \in {"strategy_list", "lineage_history"} => ns = "strategy"
             /\ route = "trigger_list" => ns = "trigger"
             /\ route = "execution_list" => ns = "execution"
<1>1. StrategyRoute(segs) \in {"strategy_list", "strategy_by_name", "lineage_active",
                              "lineage_history", "strategy_view", "strategy_records", "strategy"}
  BY DEF StrategyRoute
<1>2. TriggerRoute(segs) \in {"trigger_list", "trigger_events", "trigger"}
  <2>1. CASE segs = <<"list">>
    BY <2>1 DEF TriggerRoute
  <2>2. CASE segs # <<"list">> /\ Len(segs) = 2 /\ segs[2] = "events"
    BY <2>2 DEF TriggerRoute
  <2>3. CASE segs # <<"list">> /\ ~(Len(segs) = 2 /\ segs[2] = "events")
    BY <2>3 DEF TriggerRoute
  <2>4. QED
    BY <2>1, <2>2, <2>3
<1>3. CASE ns = "strategy"
  <2>1. DispatchUri(ns, segs) = StrategyRoute(segs)
    BY <1>3 DEF DispatchUri, Singletons
  <2>2. QED
    BY <1>1, <1>3, <2>1
<1>4. CASE ns = "trigger"
  <2>1. DispatchUri(ns, segs) = TriggerRoute(segs)
    BY <1>4 DEF DispatchUri, Singletons
  <2>2. QED
    BY <1>2, <1>4, <2>1
<1>5. CASE ns \notin {"strategy", "trigger"}
  BY <1>5 DEF DispatchUri, Singletons
<1>6. QED
  BY <1>3, <1>4, <1>5

(* A stored strategy is read by its identifier.                            *)
LEMMA ByStrategyId ==
  ASSUME NEW db, NEW id, id # Malformed, \E s \in db.strategies : s.id = id
  PROVE  Serve(db, At("strategy", <<"id">>, id)).ok
<1> DEFINE uri == At("strategy", <<"id">>, id)
<1>1. uri.ns = "strategy" /\ uri.segs = <<"id">> /\ uri.id = id
  BY DEF At
<1>2. DispatchUri("strategy", <<"id">>) = "strategy"
  BY DEF DispatchUri, StrategyRoute, Singletons
<1>3. Serve(db, uri) = ServeStrategy(db, "strategy", uri)
  BY <1>1, <1>2 DEF Serve, Elsewhere
<1>4. ServeStrategy(db, "strategy", uri) = ReadStrategy(db.strategies, id)
  BY <1>1 DEF ServeStrategy
<1>5. ReadStrategy(db.strategies, id).ok
  BY DEF ReadStrategy, Is
<1>6. QED
  BY <1>3, <1>4, <1>5

(* A stored trigger is read by its identifier.                             *)
LEMMA ByTriggerId ==
  ASSUME NEW db, NEW id, \E t \in db.triggers : t.id = id
  PROVE  Serve(db, At("trigger", <<"id">>, id)).ok
<1> DEFINE uri == At("trigger", <<"id">>, id)
<1>1. uri.ns = "trigger" /\ uri.segs = <<"id">> /\ uri.id = id
  BY DEF At
<1>2. DispatchUri("trigger", <<"id">>) = "trigger"
  BY DEF DispatchUri, TriggerRoute, Singletons
<1>3. Serve(db, uri) = ReadTrigger(db.triggers, id)
  BY <1>1, <1>2 DEF Serve, Elsewhere
<1>4. ReadTrigger(db.triggers, id).ok
  BY DEF ReadTrigger, Is
<1>5. QED
  BY <1>3, <1>4

(* A stored run and its journal are read by the identifier of the run.     *)
LEMMA ByRunId ==
  ASSUME NEW db, NEW id, id # Malformed, \E r \in db.runs : r.id = id
  PROVE  /\ Serve(db, At("execution", <<"id">>, id)).ok
         /\ Serve(db, At("journal", <<"id">>, id)).ok
<1> DEFINE uri == At("execution", <<"id">>, id)
           log == At("journal", <<"id">>, id)
<1>1. uri.ns = "execution" /\ uri.segs = <<"id">> /\ uri.id = id
      /\ log.ns = "journal" /\ log.segs = <<"id">> /\ log.id = id
  BY DEF At
<1>2. DispatchUri("execution", <<"id">>) = "execution" /\ DispatchUri("journal", <<"id">>) = "journal"
  BY DEF DispatchUri, Singletons
<1>3. Serve(db, uri) = ReadExecution(db.runs, db.execs, id)
  BY <1>1, <1>2 DEF Serve, Elsewhere
<1>4. Serve(db, log) = ReadJournal(db.runs, db.journal, id)
  BY <1>1, <1>2 DEF Serve, Elsewhere
<1>5. ReadJournal(db.runs, db.journal, id).ok
  BY DEF ReadJournal, Is
<1>6. BuildExecutionReport(db.runs, db.execs, id).ok
  BY DEF BuildExecutionReport, Is
<1>7. ReadExecution(db.runs, db.execs, id).ok
  BY <1>6 DEF ReadExecution
<1>8. QED
  BY <1>3, <1>4, <1>5, <1>7

(* A set of places has a last one.                                         *)
LEMMA MaxIn ==
  ASSUME NEW n \in Nat, NEW A \in SUBSET (1..n), A # {}
  PROVE  Max(A) \in A /\ \A i \in A : i <= Max(A)
<1> DEFINE B == {n - i : i \in A}
<1>1. B \in SUBSET Nat /\ B # {}
  <2>1. \A i \in A : n - i \in Nat
    OBVIOUS
  <2>2. B # {}
    OBVIOUS
  <2>3. QED
    BY <2>1, <2>2
<1>2. PICK b \in B : \A c \in B : b <= c
  BY <1>1, LeastNat
<1>3. PICK i \in A : b = n - i
  OBVIOUS
<1>4. ASSUME NEW j \in A
      PROVE  i >= j
  <2>1. n - j \in B /\ n - i <= n - j
    BY <1>2, <1>3
  <2>2. i \in Int /\ j \in Int
    OBVIOUS
  <2>3. QED
    BY <2>1, <2>2
<1>5. QED
  BY <1>4 DEF Max

(* The limit of a list is a number, also where the query names one.        *)
LEMMA LimitIsNat ==
  ASSUME NEW q, NEW S, q \in Seq(S),
         \A i \in DOMAIN q : q[i].val.t = "num" => q[i].val.n \in Nat,
         ParseExecutionListQuery(q).ok
  PROVE  Min({ParseExecutionListQuery(q).val.limit, ListCap}) \in Nat
<1> DEFINE last == LastOf(q, "limit")
           at == {i \in DOMAIN q : q[i].key = "limit"}
           f == ParseExecutionListQuery(q)
<1>1. f.val.limit = Count(q, ListDefault, ListCap) /\ \A v \in last : IsCount(v)
  <2> DEFINE shape == ParsePairs(q, {"strategy_id", "since", "status", "limit"}, Unchecked)
             status == {v.w : v \in LastOf(q, "status")}
             filter == [strategy |-> {v.w : v \in LastOf(q, "strategy_id")},
                        since    |-> LastOf(q, "since"),
                        status   |-> status \ {"noop"},
                        outcome  |-> status \cap {"noop"},
                        limit    |-> Count(q, ListDefault, ListCap)]
  <2>1. f = IF ~shape.ok THEN shape
            ELSE IF ~\A v \in LastOf(q, "since") : IsTime(v) THEN IsNot("since")
            ELSE IF ~\A v \in LastOf(q, "status") : Word(v, {"succeeded", "failed", "noop"})
                 THEN IsNot("status")
            ELSE IF ~\A v \in last : IsCount(v) THEN IsNot("limit")
            ELSE Is(filter)
    BY DEF ParseExecutionListQuery
  <2>2. filter.limit = Count(q, ListDefault, ListCap)
    OBVIOUS
  <2> HIDE DEF f, shape, filter, last
  <2>3. f = Is(filter) /\ \A v \in last : IsCount(v)
    BY <2>1 DEF IsNot, f
  <2>4. QED
    BY <2>2, <2>3 DEF Is, f
<1>2. CASE at = {}
  <2>1. last = {}
    BY <1>2 DEF LastOf
  <2>2. Count(q, ListDefault, ListCap) = Min({ListCap} \cup {ListDefault})
    BY <2>1 DEF Count
  <2>3. {ListCap} \cup {ListDefault} = {ListCap, ListDefault}
    OBVIOUS
  <2>4. Count(q, ListDefault, ListCap) \in Nat
    BY <2>2, <2>3, SmallerOf, QueriesAssumption
  <2>5. QED
    BY <1>1, <2>4, SmallerOf, QueriesAssumption
<1>3. CASE at # {}
  <2>1. Max(at) \in at
    <3>1. at \in SUBSET (1..Len(q)) /\ Len(q) \in Nat
      OBVIOUS
    <3> HIDE DEF at
    <3>2. QED
      BY <1>3, <3>1, MaxIn
  <2> DEFINE v == q[Max(at)].val
  <2>2. last = {v}
    BY <1>3 DEF LastOf
  <2>3. v.t = "num" /\ v.n \in Nat
    BY <1>1, <2>1, <2>2 DEF IsCount
  <2>4. Count(q, ListDefault, ListCap) = Min({ListCap} \cup {w.n : w \in last})
    BY <2>2 DEF Count
  <2>5. {ListCap} \cup {w.n : w \in last} = {ListCap, v.n}
    BY <2>2
  <2> HIDE DEF v
  <2>6. Count(q, ListDefault, ListCap) \in Nat
    <3>1. Min({ListCap, v.n}) \in {ListCap, v.n}
      BY <2>3, SmallerOf, QueriesAssumption
    <3>2. QED
      BY <3>1, <2>3, <2>4, <2>5, QueriesAssumption
  <2>7. QED
    BY <1>1, <2>6, SmallerOf, QueriesAssumption
<1>4. QED
  BY <1>2, <1>3

\* The answers of a list are rows of its table.
LEMMA RunsListed ==
  ASSUME NEW db \in Databases, NEW uri \in Uris(db), ReadExecutionList(db.runs, uri.q).ok
  PROVE  \A id \in Ids(ReadExecutionList(db.runs, uri.q).val) : \E r \in db.runs : r.id = id
<1> DEFINE f == ParseExecutionListQuery(uri.q)
           v == f.val
           R == {r \in db.runs : /\ \A s \in v.strategy : r.strategy = s
                                 /\ \A t \in v.since : After(r.at, t)
                                 /\ \A s \in v.status : r.status = s
                                 /\ \A o \in v.outcome : o \in r.outcomes}
           n == Min({v.limit, ListCap})
           list == ReadExecutionList(db.runs, uri.q).val
<1>1. f.ok
  BY DEF ReadExecutionList
<1>2. list = ListRuns(db.runs, v)
  BY <1>1 DEF ReadExecutionList, Is
<1>3. ListRuns(db.runs, v) = Newest(R, n)
  BY DEF ListRuns
<1>4. n \in Nat
  BY <1>1, LimitIsNat, ReadsAssumption
<1>5. IsDated(R)
  BY SomeOfDated, ReadsAssumption
<1> HIDE DEF R, n, list
<1>6. Shows(list, R, n)
  BY <1>2, <1>3, <1>4, <1>5, NewestShows
<1>7. \A i \in DOMAIN list : list[i] \in R
  BY <1>6 DEF Shows
<1>8. QED
  BY <1>7 DEF Ids, R, list

(* Every identifier of an answer resolves.                                 *)
LEMMA LinksAreServed ==
  ASSUME NEW db \in Databases, NEW uri \in Uris(db),
         doc' = [topic |-> "resource", db |-> db, uri |-> uri, answer |-> Serve(db, uri)]
  PROVE  LinksResolve'
<1> DEFINE route == DispatchUri(uri.ns, uri.segs)
           reply == Serve(db, uri)
<1>1. /\ route \in {"strategy_list", "lineage_history"} => uri.ns = "strategy"
      /\ route = "trigger_list" => uri.ns = "trigger"
      /\ route = "execution_list" => uri.ns = "execution"
  BY Routes
<1>2. SUFFICES ASSUME reply.ok, NEW link \in Links(uri, reply.val)
               PROVE  Serve(db, link).ok
  BY DEF LinksResolve
<1>3. CASE route = "strategy_list"
  <2>1. reply = ReadStrategyList(db.strategies, db.triggers, db.runs, db.now, uri.q)
    BY <1>1, <1>3 DEF Serve, ServeStrategy, Elsewhere
  <2>2. \A id \in IdsOf(reply.val.rows) : \E s \in db.strategies : s.id = id
    <3> DEFINE f == ParseStrategyListQuery(uri.q)
               rows == {s \in db.strategies :
                          /\ f.val.status = "active" => ~s.deleted
                          /\ f.val.status = "deleted" => s.deleted
                          /\ \A t \in f.val.tag : t.w \in s.tags}
               day(s) == LastDay({r \in db.runs : r.strategy = s.id}, db.now)
               kinds(s) == {t.kind : t \in {t \in db.triggers : t.lineage = s.lineage}}
               listed == {[id |-> s.id, kinds |-> kinds(s), day |-> day(s)] : s \in rows}
               known == IF f.val.summary /\ rows # {} /\ \A s \in rows : day(s).runs = 0
                        THEN "partial" ELSE "full"
    <3>1. reply = IF ~f.ok THEN f ELSE Is([rows |-> listed, confidence |-> known])
      BY <2>1 DEF ReadStrategyList
    <3>2. \A r \in listed : \E s \in db.strategies : s.id = r.id
      <4> HIDE DEF day, kinds
      <4>1. SUFFICES ASSUME NEW r \in listed PROVE \E s \in db.strategies : s.id = r.id
        OBVIOUS
      <4>2. PICK s \in rows : r = [id |-> s.id, kinds |-> kinds(s), day |-> day(s)]
        OBVIOUS
      <4>3. QED
        BY <4>2
    <3> HIDE DEF f, listed, known, reply
    <3>3. reply.val.rows = listed
      BY <1>2, <3>1 DEF Is
    <3>4. QED
      BY <3>2, <3>3 DEF IdsOf
  <2>3. PICK id \in IdsOf(reply.val.rows) : link = At("strategy", <<"id">>, id)
    BY <1>2, <1>3 DEF Links
  <2>4. QED
    BY <2>2, <2>3, ByStrategyId, ReadsAssumption
<1>4. CASE route = "lineage_history"
  <2>1. reply = ReadLineageHistory(db.strategies, uri.id)
    BY <1>1, <1>4 DEF Serve, ServeStrategy, Elsewhere
  <2>2. \A id \in IdsOf(reply.val) : \E s \in db.strategies : s.id = id
    BY <1>2, <2>1 DEF ReadLineageHistory, Is, IsNot, IdsOf
  <2>3. PICK id \in IdsOf(reply.val) : link = At("strategy", <<"id">>, id)
    BY <1>2, <1>4 DEF Links
  <2>4. QED
    BY <2>2, <2>3, ByStrategyId, ReadsAssumption
<1>5. CASE route = "trigger_list"
  <2>1. reply = ReadTriggerList(db.triggers, uri.q)
    BY <1>1, <1>5 DEF Serve, Elsewhere
  <2>2. \A id \in IdsOf(reply.val) : \E t \in db.triggers : t.id = id
    BY <1>2, <2>1 DEF ReadTriggerList, ListTriggers, Is, IdsOf
  <2>3. PICK id \in IdsOf(reply.val) : link = At("trigger", <<"id">>, id)
    BY <1>2, <1>5 DEF Links
  <2>4. QED
    BY <2>2, <2>3, ByTriggerId
<1>6. CASE route = "execution_list"
  <2>1. reply = ReadExecutionList(db.runs, uri.q)
    BY <1>1, <1>6 DEF Serve, Elsewhere
  <2>2. \A id \in Ids(reply.val) : \E r \in db.runs : r.id = id
    BY <1>2, <2>1, RunsListed
  <2>3. PICK id \in Ids(reply.val) :
          link = At("execution", <<"id">>, id) \/ link = At("journal", <<"id">>, id)
    BY <1>2, <1>6 DEF Links
  <2>4. QED
    BY <2>2, <2>3, ByRunId, ReadsAssumption
<1>7. CASE route \notin {"strategy_list", "lineage_history", "trigger_list", "execution_list"}
  BY <1>2, <1>7 DEF Links
<1>8. QED
  BY <1>3, <1>4, <1>5, <1>6, <1>7

-----------------------------------------------------------------------------
(* Every read of the server and of the node.                               *)

(* Each read, with the property it is about.                               *)
LEMMA PollStep == ASSUME Poll PROVE PollsMissNothing'
<1>1. PICK times \in Histories, limit \in 1..ListCap + 1, suffix \in {"Z", "fraction"} :
        \E before \in 1..Len(times) :
           LET first  == ReadExecutionList(Started(SubSeq(times, 1, before)), <<Limit(limit)>>).val
               since  == first[1].at
               second == ReadExecutionList(Started(times),
                                           <<Since(since, suffix), Limit(limit)>>).val
           IN  Enter([topic |-> "poll", times |-> times, limit |-> limit, suffix |-> suffix,
                      since |-> since, first |-> first, second |-> second])
  BY DEF Poll
<1>2. PICK before \in 1..Len(times) :
         LET first  == ReadExecutionList(Started(SubSeq(times, 1, before)), <<Limit(limit)>>).val
             since  == first[1].at
             second == ReadExecutionList(Started(times),
                                         <<Since(since, suffix), Limit(limit)>>).val
         IN  Enter([topic |-> "poll", times |-> times, limit |-> limit, suffix |-> suffix,
                    since |-> since, first |-> first, second |-> second])
  BY <1>1
<1>3. QED
  BY <1>2, PollMisses DEF Enter

LEMMA JournalStep == ASSUME Journal PROVE JournalInOrder'
  BY JournalReads DEF Journal, Enter

LEMMA ResourceStep == ASSUME ReadResource PROVE LinksResolve' /\ TotalsAreExact'
<1>1. PICK db \in Databases : \E uri \in Uris(db) :
        doc' = [topic |-> "resource", db |-> db, uri |-> uri, answer |-> Serve(db, uri)]
  BY DEF ReadResource, Enter
<1>2. PICK uri \in Uris(db) :
        doc' = [topic |-> "resource", db |-> db, uri |-> uri, answer |-> Serve(db, uri)]
  BY <1>1
<1>3. LinksResolve'
  BY <1>2, LinksAreServed
<1>4. TotalsAreExact'
  <2>1. CASE uri.ns = "runtime" /\ uri.segs = <<"status">>
    BY <1>2, <2>1, StatusTotals
  <2>2. CASE ~(uri.ns = "runtime" /\ uri.segs = <<"status">>)
    BY <1>2, <2>2 DEF TotalsAreExact
  <2>3. QED
    BY <2>1, <2>2
<1>5. QED
  BY <1>3, <1>4

LEMMA SumStep == ASSUME SumRecords PROVE SumsAreExact'
  BY RecordsSum DEF SumRecords, Enter

LEMMA LogStep == ASSUME QueryLogs PROVE LogsSplit'
<1>1. PICK chain \in NodeLogs, addresses \in {<<>>, <<"watched">>}, topics \in Topics,
           raw \in BlockRanges :
        LET filter == LogFilter(addresses, raw, topics)
        IN  Enter([topic |-> "logs", chain |-> chain, raw |-> raw, filter |-> filter,
                   answer |-> IF filter.ok THEN GetLogs(chain, filter.val) ELSE filter])
  BY DEF QueryLogs
<1>2. QED
  BY <1>1, LogQuery DEF Enter

(* Each read enters a document of its own kind.                            *)
LEMMA ReadTopics ==
  /\ Poll => doc'.topic = "poll"
  /\ Journal => doc'.topic = "journal"
  /\ ReadResource => doc'.topic = "resource"
  /\ SumRecords => doc'.topic = "total"
  /\ QueryLogs => doc'.topic = "logs"
<1>1. Poll => doc'.topic = "poll"
  BY DEF Poll, Enter
<1>2. Journal => doc'.topic = "journal"
  BY DEF Journal, Enter
<1>3. ReadResource => doc'.topic = "resource"
  BY DEF ReadResource, Enter
<1>4. SumRecords => doc'.topic = "total"
  BY DEF SumRecords, Enter
<1>5. QueryLogs => doc'.topic = "logs"
  BY DEF QueryLogs, Enter
<1>6. QED
  BY <1>1, <1>2, <1>3, <1>4, <1>5

(* A document of another kind says nothing.                                *)
LEMMA OtherTopics ==
  /\ doc.topic # "poll" => PollsMissNothing
  /\ doc.topic # "journal" => JournalInOrder
  /\ doc.topic # "resource" => LinksResolve /\ TotalsAreExact
  /\ doc.topic # "total" => SumsAreExact
  /\ doc.topic # "logs" => LogsSplit
BY DEF PollsMissNothing, JournalInOrder, LinksResolve, TotalsAreExact, SumsAreExact, LogsSplit

(* Nothing falls between two reads of the server or of a node's logs.      *)
THEOREM ReadsMissNothing == SpecReads => []ListsMissNothing
<1>1. Unread => ListsMissNothing
  BY OtherTopics DEF Unread, ListsMissNothing
<1>2. ListsMissNothing /\ [NextRead]_doc => ListsMissNothing'
  <2>1. /\ doc'.topic # "poll" => PollsMissNothing'
        /\ doc'.topic # "journal" => JournalInOrder'
        /\ doc'.topic # "resource" => LinksResolve' /\ TotalsAreExact'
        /\ doc'.topic # "total" => SumsAreExact'
        /\ doc'.topic # "logs" => LogsSplit'
    BY DEF PollsMissNothing, JournalInOrder, LinksResolve, TotalsAreExact, SumsAreExact, LogsSplit
  <2>2. CASE Poll
    BY <2>1, <2>2, PollStep, ReadTopics DEF ListsMissNothing
  <2>3. CASE Journal
    BY <2>1, <2>3, JournalStep, ReadTopics DEF ListsMissNothing
  <2>4. CASE ReadResource
    BY <2>1, <2>4, ResourceStep, ReadTopics DEF ListsMissNothing
  <2>5. CASE SumRecords
    BY <2>1, <2>5, SumStep, ReadTopics DEF ListsMissNothing
  <2>6. CASE QueryLogs
    BY <2>1, <2>6, LogStep, ReadTopics DEF ListsMissNothing
  <2>7. ASSUME ListsMissNothing, UNCHANGED doc PROVE ListsMissNothing'
    <3>1. PollsMissNothing' /\ JournalInOrder'
      BY <2>7 DEF ListsMissNothing, PollsMissNothing, JournalInOrder
    <3>2. LinksResolve' /\ TotalsAreExact'
      BY <2>7 DEF ListsMissNothing, LinksResolve, TotalsAreExact
    <3>3. SumsAreExact' /\ LogsSplit'
      BY <2>7 DEF ListsMissNothing, SumsAreExact, LogsSplit
    <3>4. QED
      BY <3>1, <3>2, <3>3 DEF ListsMissNothing
  <2>8. QED
    BY <2>2, <2>3, <2>4, <2>5, <2>6, <2>7 DEF NextRead
<1>3. QED
  BY <1>1, <1>2, PTL DEF SpecReads
-----------------------------------------------------------------------------
(* Decimal amounts.                                                        *)

(* Division by the base.                                                   *)
LEMMA Divided ==
  ASSUME NEW n \in Nat, n >= Base
  PROVE  /\ n \div Base \in Nat /\ n \div Base < n
         /\ n % Base \in Nat /\ n % Base < Base
         /\ (n \div Base) * Base + (n % Base) = n
<1>1. Base \in Nat /\ Base > 1
  BY UnitsAssumption
<1>2. n \div Base \in Int /\ n % Base \in 0..Base - 1 /\ n = Base * (n \div Base) + (n % Base)
  BY <1>1
<1>3. n \div Base >= 0
  BY <1>1, <1>2
<1>4. n \div Base < n
  BY <1>1, <1>2, <1>3
<1>5. QED
  BY <1>1, <1>2, <1>3, <1>4

(* The value of a list of digits, one digit after the other.               *)
ValueAt(h, s, n) == IF n = 0 THEN 0 ELSE h[n - 1] * Base + s[n]

IsValue(h, s, k) == h = [n \in 0..k |-> ValueAt(h, s, n)]

(* There is such a function, of any length.                                *)
LEMMA ValueExists ==
  ASSUME NEW s, NEW k \in Nat
  PROVE  \E h : IsValue(h, s, k)
<1> DEFINE Bad == {n \in Nat : ~\E h : IsValue(h, s, n)}
<1>1. SUFFICES ASSUME Bad # {} PROVE FALSE
  OBVIOUS
<1>2. PICK m \in Bad : \A n \in Bad : m <= n
  <2>1. Bad \in SUBSET Nat
    OBVIOUS
  <2> HIDE DEF Bad
  <2>2. QED
    BY <2>1, <1>1, LeastNat
<1>3. CASE m = 0
  <2> DEFINE h == [n \in 0..0 |-> 0]
  <2>1. IsValue(h, s, 0)
    BY DEF IsValue, ValueAt
  <2>2. QED
    BY <2>1, <1>3
<1>4. CASE m # 0
  <2>1. m - 1 \in Nat /\ m - 1 \notin Bad
    BY <1>2, <1>4
  <2>2. PICK h : IsValue(h, s, m - 1)
    BY <2>1
  <2> DEFINE g == [n \in 0..m |-> IF n = m THEN ValueAt(h, s, m) ELSE h[n]]
  <2>3. \A n \in 0..m : g[n] = ValueAt(g, s, n)
    <3> SUFFICES ASSUME NEW n \in 0..m PROVE g[n] = ValueAt(g, s, n)
      OBVIOUS
    <3>1. n # 0 => n - 1 \in 0..m /\ n - 1 # m /\ g[n - 1] = h[n - 1]
      OBVIOUS
    <3>2. ValueAt(g, s, n) = ValueAt(h, s, n)
      BY <3>1 DEF ValueAt
    <3>3. n # m => h[n] = ValueAt(h, s, n)
      BY <2>2 DEF IsValue
    <3>4. QED
      BY <3>2, <3>3
  <2>4. IsValue(g, s, m)
    <3>1. g = [n \in 0..m |-> g[n]]
      OBVIOUS
    <3> HIDE DEF g
    <3>2. QED
      BY <3>1, <2>3 DEF IsValue
  <2>5. QED
    BY <2>4
<1>5. QED
  BY <1>3, <1>4

(* The value of the first n digits.                                        *)
Upto(s) == CHOOSE h : IsValue(h, s, Len(s))

(* It is the one that Value computes.                                      *)
LEMMA ValueIs ==
  ASSUME NEW s \in Seq(Nat)
  PROVE  /\ Value(s) = Upto(s)[Len(s)]
         /\ Upto(s)[0] = 0
         /\ \A n \in 1..Len(s) : Upto(s)[n] = Upto(s)[n - 1] * Base + s[n]
<1> DEFINE k == Len(s)
<1>1. k \in Nat
  OBVIOUS
<1>2. IsValue(Upto(s), s, k)
  <2> HIDE DEF k
  <2>1. \E h : IsValue(h, s, k)
    BY <1>1, ValueExists
  <2>2. QED
    BY <2>1 DEF Upto, k
<1>3. Value(s) = Upto(s)[k]
  BY DEF Value, Upto, IsValue, ValueAt
<1>4. \A n \in 0..k : Upto(s)[n] = ValueAt(Upto(s), s, n)
  BY <1>2 DEF IsValue
<1>5. QED
  BY <1>1, <1>3, <1>4 DEF ValueAt

(* Two lists that begin alike have the same values so far.                 *)
LEMMA SamePrefix ==
  ASSUME NEW s \in Seq(Nat), NEW r \in Seq(Nat), NEW m \in Nat, m <= Len(s), m <= Len(r),
         \A i \in 1..m : s[i] = r[i]
  PROVE  Upto(s)[m] = Upto(r)[m]
<1> DEFINE Bad == {n \in 0..m : Upto(s)[n] # Upto(r)[n]}
<1>1. SUFFICES ASSUME Bad # {} PROVE FALSE
  <2>1. m \in 0..m
    OBVIOUS
  <2>2. Upto(s)[m] # Upto(r)[m] => m \in Bad
    BY <2>1
  <2> HIDE DEF Bad
  <2>3. QED
    BY <2>2
<1>2. PICK k \in Bad : \A n \in Bad : k <= n
  <2>1. Bad \in SUBSET Nat
    OBVIOUS
  <2> HIDE DEF Bad
  <2>2. QED
    BY <2>1, <1>1, LeastNat
<1>3. k # 0
  BY <1>2, ValueIs
<1>4. k \in 1..m /\ k - 1 \in 0..m /\ k - 1 \notin Bad
  BY <1>2, <1>3
<1>5. Upto(s)[k - 1] = Upto(r)[k - 1]
  BY <1>4
<1>6. Upto(s)[k] = Upto(s)[k - 1] * Base + s[k] /\ Upto(r)[k] = Upto(r)[k - 1] * Base + r[k]
  BY <1>4, ValueIs
<1>7. QED
  BY <1>4, <1>5, <1>6

(* One more digit.                                                         *)
LEMMA ValueOfAppend ==
  ASSUME NEW s \in Seq(Nat), NEW x \in Nat
  PROVE  Value(Append(s, x)) = Value(s) * Base + x
<1> DEFINE r == Append(s, x)
           k == Len(s)
<1>1. r \in Seq(Nat) /\ Len(r) = k + 1 /\ k \in Nat /\ r[k + 1] = x /\ \A i \in 1..k : r[i] = s[i]
  OBVIOUS
<1> HIDE DEF r
<1>2. Upto(r)[k] = Upto(s)[k]
  <2>1. k <= Len(s) /\ k <= Len(r) /\ k \in Nat
    BY <1>1
  <2> HIDE DEF k
  <2>2. QED
    BY <1>1, <2>1, SamePrefix
<1>3. Value(r) = Upto(r)[k + 1] /\ Upto(r)[k + 1] = Upto(r)[k] * Base + r[k + 1]
  <2>1. k + 1 \in 1..Len(r) /\ (k + 1) - 1 = k
    BY <1>1
  <2>2. QED
    BY <1>1, <2>1, ValueIs
<1>4. Value(s) = Upto(s)[k]
  BY ValueIs
<1>5. QED
  BY <1>1, <1>2, <1>3, <1>4 DEF r

(* A value is a number.                                                    *)
LEMMA ValueType == ASSUME NEW s \in Seq(Nat) PROVE Value(s) \in Nat
<1> DEFINE Bad == {n \in 0..Len(s) : Upto(s)[n] \notin Nat}
<1>1. Bad = {}
  <2>1. SUFFICES ASSUME Bad # {} PROVE FALSE
    OBVIOUS
  <2>2. PICK k \in Bad : \A n \in Bad : k <= n
    <3>1. Bad \in SUBSET Nat
      OBVIOUS
    <3> HIDE DEF Bad
    <3>2. QED
      BY <3>1, <2>1, LeastNat
  <2>3. k # 0
    BY ValueIs
  <2>4. k \in 1..Len(s) /\ k - 1 \in 0..Len(s) /\ k - 1 \notin Bad
    BY <2>2, <2>3
  <2>5. Upto(s)[k] = Upto(s)[k - 1] * Base + s[k] /\ Upto(s)[k - 1] \in Nat /\ s[k] \in Nat
    BY <2>4, ValueIs
  <2>6. Upto(s)[k] \in Nat
    <3>1. ASSUME NEW a \in Nat, NEW b \in Nat, NEW c \in Nat PROVE a * b + c \in Nat
      OBVIOUS
    <3>2. Upto(s)[k - 1] * Base + s[k] \in Nat
      BY <2>5, <3>1, UnitsAssumption
    <3>3. QED
      BY <2>5, <3>2
  <2>7. QED
    BY <2>6
<1>2. Len(s) \in 0..Len(s)
  OBVIOUS
<1>3. QED
  BY <1>1, <1>2, ValueIs

(* The numeral of a number has its value.                                  *)
Digits == 0..Base - 1

NumeralAt(h, m) == IF m < Base THEN <<m>> ELSE Append(h[m \div Base], m % Base)

IsNumeral(h, k) == h = [m \in 0..k |-> NumeralAt(h, m)]

(* There are the numerals of all numbers so far.                           *)
LEMMA NumeralExists == ASSUME NEW k \in Nat PROVE \E h : IsNumeral(h, k)
<1> DEFINE Bad == {n \in Nat : ~\E h : IsNumeral(h, n)}
<1>1. SUFFICES ASSUME Bad # {} PROVE FALSE
  OBVIOUS
<1>2. PICK m \in Bad : \A n \in Bad : m <= n
  <2>1. Bad \in SUBSET Nat
    OBVIOUS
  <2> HIDE DEF Bad
  <2>2. QED
    BY <2>1, <1>1, LeastNat
<1>3. CASE m = 0
  <2> DEFINE h == [n \in 0..0 |-> <<0>>]
  <2>1. IsNumeral(h, 0)
    BY UnitsAssumption DEF IsNumeral, NumeralAt
  <2>2. QED
    BY <2>1, <1>3
<1>4. CASE m # 0
  <2>1. m - 1 \in Nat /\ m - 1 \notin Bad
    BY <1>2, <1>4
  <2>2. PICK h : IsNumeral(h, m - 1)
    BY <2>1
  <2> DEFINE g == [n \in 0..m |-> IF n = m THEN NumeralAt(h, m) ELSE h[n]]
  <2>3. \A n \in 0..m : g[n] = NumeralAt(g, n)
    <3> SUFFICES ASSUME NEW n \in 0..m PROVE g[n] = NumeralAt(g, n)
      OBVIOUS
    <3>1. ASSUME ~(n < Base) PROVE g[n \div Base] = h[n \div Base]
      <4>1. n \div Base \in Nat /\ n \div Base < n
        BY <3>1, Divided, UnitsAssumption
      <4>2. QED
        BY <4>1
    <3>2. NumeralAt(g, n) = NumeralAt(h, n)
      <4> HIDE DEF g
      <4>1. QED
        BY <3>1 DEF NumeralAt
    <3>3. n # m => h[n] = NumeralAt(h, n)
      BY <2>2 DEF IsNumeral
    <3>4. QED
      BY <3>2, <3>3
  <2>4. IsNumeral(g, m)
    <3>1. g = [n \in 0..m |-> g[n]]
      OBVIOUS
    <3> HIDE DEF g
    <3>2. QED
      BY <3>1, <2>3 DEF IsNumeral
  <2>5. QED
    BY <2>4
<1>5. QED
  BY <1>3, <1>4

(* A numeral is digits, one at least, of the value of its number.          *)
LEMMA NumeralIs ==
  ASSUME NEW n \in Nat
  PROVE  Numeral(n) \in Seq(Digits) /\ Len(Numeral(n)) >= 1 /\ Value(Numeral(n)) = n
<1> DEFINE h == CHOOSE g : IsNumeral(g, n)
           Good(m) == h[m] \in Seq(Digits) /\ Len(h[m]) >= 1 /\ Value(h[m]) = m
           Bad == {m \in 0..n : ~Good(m)}
<1>1. IsNumeral(h, n)
  BY NumeralExists
<1>2. Numeral(n) = h[n]
  BY DEF Numeral, IsNumeral, NumeralAt
<1> HIDE DEF h
<1>3. \A m \in 0..n : h[m] = NumeralAt(h, m)
  BY <1>1 DEF IsNumeral
<1>4. Bad = {}
  <2>1. SUFFICES ASSUME Bad # {} PROVE FALSE
    OBVIOUS
  <2>2. PICK m \in Bad : \A k \in Bad : m <= k
    <3>1. Bad \in SUBSET Nat
      OBVIOUS
    <3> HIDE DEF Bad
    <3>2. QED
      BY <3>1, <2>1, LeastNat
  <2>3. CASE m < Base
    <3>1. h[m] = <<m>> /\ m \in Digits
      <4>1. m \in 0..n
        BY <2>2
      <4>2. h[m] = NumeralAt(h, m)
        BY <4>1, <1>3
      <4>3. h[m] = <<m>>
        BY <4>2, <2>3 DEF NumeralAt
      <4>4. m \in Digits
        BY <4>1, <2>3, UnitsAssumption DEF Digits
      <4>5. QED
        BY <4>3, <4>4
    <3>2. h[m] = Append(<<>>, m) /\ <<>> \in Seq(Nat) /\ m \in Nat
      BY <3>1
    <3>3. Value(<<>>) = 0
      <4>1. <<>> \in Seq(Nat) /\ Len(<<>>) = 0
        OBVIOUS
      <4>2. QED
        BY <4>1, ValueIs
    <3>4. Value(h[m]) = m
      <4>1. Value(h[m]) = Value(<<>>) * Base + m
        BY <3>2, ValueOfAppend
      <4>2. QED
        BY <3>2, <3>3, <4>1, UnitsAssumption
    <3>5. Good(m)
      BY <3>1, <3>4
    <3>6. QED
      BY <3>5
  <2>4. CASE m >= Base
    <3> DEFINE q == m \div Base
               r == m % Base
    <3>1. q \in Nat /\ q < m /\ r \in Nat /\ r < Base /\ q * Base + r = m
      BY <2>4, Divided
    <3> HIDE DEF q, r
    <3>2. h[m] = Append(h[q], r)
      <4>1. m \in 0..n /\ ~(m < Base)
        BY <2>2, <2>4, UnitsAssumption
      <4>2. h[m] = NumeralAt(h, m)
        BY <4>1, <1>3
      <4>3. QED
        BY <4>1, <4>2 DEF NumeralAt, q, r
    <3>3. q \in 0..n /\ q \notin Bad
      BY <2>2, <3>1
    <3>4. Good(q)
      BY <3>3
    <3>5. r \in Digits /\ h[q] \in Seq(Nat)
      <4>1. Seq(Digits) \subseteq Seq(Nat)
        BY UnitsAssumption DEF Digits
      <4>2. QED
        BY <3>1, <3>4, <4>1, UnitsAssumption DEF Digits
    <3>6. Value(h[m]) = q * Base + r
      BY <3>1, <3>2, <3>4, <3>5, ValueOfAppend
    <3>7. h[m] \in Seq(Digits) /\ Len(h[m]) >= 1
      BY <3>2, <3>4, <3>5
    <3>8. Good(m)
      BY <3>1, <3>6, <3>7
    <3>9. QED
      BY <3>8
  <2>5. QED
    BY <2>3, <2>4, UnitsAssumption
<1>5. Good(n)
  BY <1>4
<1>6. QED
  BY <1>2, <1>5

(* Zeros ahead change nothing.                                             *)
LEMMA LeadingZeros ==
  ASSUME NEW s \in Seq(Nat), NEW k \in Nat
  PROVE  Value(Zeros(k) \o s) = Value(s)
<1> DEFINE r == Zeros(k) \o s
           n == Len(s)
<1>1. Zeros(k) \in Seq(Nat) /\ Len(Zeros(k)) = k
  BY DEF Zeros
<1>2. /\ r \in Seq(Nat) /\ Len(r) = k + n /\ n \in Nat
      /\ \A i \in 1..k + n : r[i] = IF i <= k THEN Zeros(k)[i] ELSE s[i - k]
  <2>1. ASSUME NEW z \in Seq(Nat), Len(z) = k
        PROVE  /\ z \o s \in Seq(Nat) /\ Len(z \o s) = k + n
               /\ \A i \in 1..k + n : (z \o s)[i] = IF i <= k THEN z[i] ELSE s[i - k]
    BY <2>1, ConcatProperties
  <2>2. QED
    BY <1>1, <2>1
<1>3. \A i \in 1..k : Zeros(k)[i] = 0
  BY DEF Zeros
<1> HIDE DEF r, n
<1> DEFINE Good(i) == Upto(r)[i] = IF i <= k THEN 0 ELSE Upto(s)[i - k]
           Bad == {i \in 0..k + n : ~Good(i)}
<1>4. Bad = {}
  <2>1. SUFFICES ASSUME Bad # {} PROVE FALSE
    OBVIOUS
  <2>2. PICK m \in Bad : \A i \in Bad : m <= i
    <3>1. Bad \in SUBSET Nat
      BY <1>2
    <3> HIDE DEF Bad
    <3>2. QED
      BY <3>1, <2>1, LeastNat
  <2>3. m # 0
    BY <1>2, <2>2, ValueIs
  <2>4. m \in 1..k + n /\ m - 1 \in 0..k + n /\ m - 1 \notin Bad
    BY <1>2, <2>2, <2>3
  <2>5. Good(m - 1)
    BY <2>4
  <2>6. Upto(r)[m] = Upto(r)[m - 1] * Base + r[m]
    BY <1>2, <2>4, ValueIs
  <2>7. CASE m <= k
    <3>1. r[m] = 0 /\ Upto(r)[m - 1] = 0
      <4>1. m \in 1..k /\ m - 1 <= k
        BY <2>4, <2>7
      <4>2. r[m] = Zeros(k)[m]
        BY <1>2, <2>4, <2>7
      <4>3. r[m] = 0
        BY <4>1, <4>2, <1>3
      <4>4. Upto(r)[m - 1] = 0
        BY <4>1, <2>5
      <4>5. QED
        BY <4>3, <4>4
    <3>2. Upto(r)[m] = 0
      BY <2>6, <3>1, UnitsAssumption
    <3>3. Good(m)
      BY <2>7, <3>2
    <3>4. QED
      BY <3>3
  <2>8. CASE m > k
    <3>1. m - k \in 1..n /\ r[m] = s[m - k] /\ ~(m <= k)
      <4>1. m \in Nat /\ m <= k + n /\ m - k \in 1..n /\ ~(m <= k)
        BY <1>2, <2>4, <2>8
      <4>2. r[m] = IF m <= k THEN Zeros(k)[m] ELSE s[m - k]
        BY <1>2, <2>4
      <4>3. QED
        BY <4>1, <4>2
    <3>2. Upto(s)[m - k] = Upto(s)[(m - k) - 1] * Base + s[m - k]
      BY <3>1, ValueIs DEF n
    <3>3. Upto(r)[m - 1] = Upto(s)[(m - k) - 1]
      <4>1. CASE m - 1 <= k
        <5>1. m - 1 = k /\ (m - k) - 1 = 0
          BY <2>4, <2>8, <4>1
        <5>2. QED
          BY <2>5, <4>1, <5>1, ValueIs
      <4>2. CASE ~(m - 1 <= k)
        <5>1. (m - 1) - k = (m - k) - 1
          BY <2>4
        <5>2. QED
          BY <2>5, <4>2, <5>1
      <4>3. QED
        BY <4>1, <4>2
    <3>4. Good(m)
      BY <2>6, <3>1, <3>2, <3>3
    <3>5. QED
      BY <3>4
  <2>9. QED
    BY <2>4, <2>7, <2>8
<1>5. Good(k + n)
  BY <1>2, <1>4
<1>6. Value(r) = Upto(r)[k + n] /\ Value(s) = Upto(s)[n]
  BY <1>2, ValueIs DEF n
<1>7. Upto(r)[k + n] = Upto(s)[n]
  <2>1. CASE n = 0
    BY <1>2, <1>5, <2>1, ValueIs
  <2>2. CASE n # 0
    <3>1. ~(k + n <= k) /\ (k + n) - k = n
      BY <1>2, <2>2
    <3>2. QED
      BY <1>5, <3>1
  <2>3. QED
    BY <2>1, <2>2
<1>8. QED
  BY <1>6, <1>7 DEF r

(* The digits before the dot, and the digits after it.                     *)
WholeOf(n, d) ==
    LET s == Numeral(n) IN IF Len(s) <= d THEN <<0>> ELSE SubSeq(s, 1, Len(s) - d)
FractionOf(n, d) ==
    LET s == Numeral(n)
    IN  IF Len(s) <= d THEN Zeros(d - Len(s)) \o s ELSE SubSeq(s, Len(s) - d + 1, Len(s))

(* A digit is a number, and zero is one.                                   *)
LEMMA DigitsAre == Digits \subseteq Nat /\ Seq(Digits) \subseteq Seq(Nat) /\ 0 \in Digits
<1>1. Digits \subseteq Nat /\ 0 \in Digits
  BY UnitsAssumption DEF Digits
<1>2. Seq(Digits) \subseteq Seq(Nat)
  BY UnitsAssumption DEF Digits
<1>3. QED
  BY <1>1, <1>2

(* Zeros are digits.                                                       *)
LEMMA ZerosAre ==
  ASSUME NEW k \in Nat
  PROVE  /\ Zeros(k) \in Seq(Digits) /\ Len(Zeros(k)) = k
         /\ \A i \in 1..k : Zeros(k)[i] = 0
BY DigitsAre DEF Zeros

(* One more zero ahead.                                                    *)
LEMMA OneMoreZero ==
  ASSUME NEW k \in Nat, NEW s \in Seq(Digits)
  PROVE  <<0>> \o (Zeros(k) \o s) = Zeros(k + 1) \o s
<1>1. <<0>> \in Seq(Digits) /\ Len(<<0>>) = 1 /\ <<0>>[1] = 0
  BY DigitsAre
<1>2. ASSUME NEW z \in Seq(Digits), NEW y \in Seq(Digits), NEW x \in Seq(Digits),
             Len(x) = 1, x[1] = 0, Len(z) = k, Len(y) = k + 1,
             \A i \in 1..k : z[i] = 0, \A i \in 1..k + 1 : y[i] = 0
      PROVE  x \o (z \o s) = y \o s
  <2>1. x \o z = y
    <3>1. x \in Seq(Digits) /\ z \in Seq(Digits) /\ Len(x) + Len(z) = k + 1 /\ Len(x) = 1
      BY <1>2
    <3>2. x \o z \in Seq(Digits) /\ Len(x \o z) = k + 1
      BY <3>1, ConcatProperties
    <3>3. \A i \in 1..k + 1 : (x \o z)[i] = IF i <= 1 THEN x[i] ELSE z[i - 1]
      <4>1. \A i \in 1..Len(x) + Len(z) : (x \o z)[i] = IF i <= Len(x) THEN x[i] ELSE z[i - Len(x)]
        BY <3>1, ConcatProperties
      <4>2. QED
        BY <4>1, <3>1
    <3>4. \A i \in 1..k + 1 : (x \o z)[i] = y[i]
      <4> SUFFICES ASSUME NEW i \in 1..k + 1 PROVE (x \o z)[i] = y[i]
        OBVIOUS
      <4>1. y[i] = 0
        BY <1>2
      <4>2. CASE i = 1
        BY <3>3, <4>1, <4>2, <1>2
      <4>3. CASE i # 1
        <5>1. i - 1 \in 1..k /\ ~(i <= 1)
          BY <4>3
        <5>2. z[i - 1] = 0
          BY <5>1, <1>2
        <5>3. QED
          BY <3>3, <4>1, <5>1, <5>2
      <4>4. QED
        BY <4>2, <4>3
    <3>5. QED
      BY <3>2, <3>4, <1>2, SeqEqual
  <2>2. (x \o z) \o s = x \o (z \o s)
    <3>1. x \in Seq(Digits) /\ z \in Seq(Digits)
      BY <1>2
    <3>2. QED
      BY <3>1, ConcatAssociative
  <2>3. QED
    BY <2>1, <2>2
<1>3. k + 1 \in Nat
  OBVIOUS
<1>4. QED
  BY <1>1, <1>2, <1>3, ZerosAre

(* Both halves are digits, and together they have the value of the number. *)
LEMMA Halves ==
  ASSUME NEW n \in Nat, NEW d \in Nat
  PROVE  /\ WholeOf(n, d) \in Seq(Digits) /\ Len(WholeOf(n, d)) >= 1
         /\ FractionOf(n, d) \in Seq(Digits) /\ Len(FractionOf(n, d)) = d
         /\ Value(WholeOf(n, d) \o FractionOf(n, d)) = n
<1> DEFINE s == Numeral(n)
<1>1. s \in Seq(Digits) /\ Len(s) >= 1 /\ Value(s) = n /\ Len(s) \in Nat
  BY NumeralIs
<1>2. CASE Len(s) <= d
  <2> DEFINE k == d - Len(s)
  <2>1. k \in Nat
    BY <1>1, <1>2
  <2>2. WholeOf(n, d) = <<0>> /\ FractionOf(n, d) = Zeros(k) \o s
    BY <1>2 DEF WholeOf, FractionOf
  <2>3. Zeros(k) \in Seq(Digits) /\ Len(Zeros(k)) = k
    BY <2>1, ZerosAre
  <2>4. Len(Zeros(k) \o s) = d /\ Zeros(k) \o s \in Seq(Digits)
    <3> HIDE DEF s
    <3>1. ASSUME NEW z \in Seq(Digits), Len(z) = k PROVE Len(z \o s) = d /\ z \o s \in Seq(Digits)
      BY <3>1, <1>1, ConcatProperties
    <3> HIDE DEF k
    <3>2. QED
      BY <2>3, <3>1
  <2>5. Value(<<0>> \o (Zeros(k) \o s)) = n
    <3>1. <<0>> \o (Zeros(k) \o s) = Zeros(k + 1) \o s
      <4> HIDE DEF s, k
      <4>1. QED
        BY <1>1, <2>1, OneMoreZero
    <3>2. Value(Zeros(k + 1) \o s) = Value(s)
      <4>1. k + 1 \in Nat /\ s \in Seq(Nat)
        BY <2>1, <1>1, DigitsAre
      <4> HIDE DEF s, k
      <4>2. QED
        BY <4>1, LeadingZeros
    <3>3. QED
      BY <3>1, <3>2, <1>1
  <2>6. <<0>> \in Seq(Digits) /\ Len(<<0>>) = 1
    BY DigitsAre
  <2>7. QED
    BY <2>2, <2>4, <2>5, <2>6
<1>3. CASE ~(Len(s) <= d)
  <2> DEFINE k == Len(s) - d
  <2>1. k \in 1..Len(s) /\ k \in Nat
    BY <1>1, <1>3
  <2>2. WholeOf(n, d) = SubSeq(s, 1, k) /\ FractionOf(n, d) = SubSeq(s, k + 1, Len(s))
    BY <1>3 DEF WholeOf, FractionOf
  <2>3. SubSeq(s, 1, k) \in Seq(Digits) /\ Len(SubSeq(s, 1, k)) = k
    <3> HIDE DEF s, k
    <3>1. QED
      BY <2>1, <1>1, SubSeqProperties
  <2>4. SubSeq(s, k + 1, Len(s)) \in Seq(Digits) /\ Len(SubSeq(s, k + 1, Len(s))) = d
    <3>1. Len(s) - k = d
      BY <1>1
    <3> HIDE DEF s, k
    <3>2. QED
      BY <2>1, <1>1, <3>1, SubSeqProperties
  <2>5. SubSeq(s, 1, k) \o SubSeq(s, k + 1, Len(s)) = s
    <3> HIDE DEF s, k
    <3>1. SubSeq(s, 1, k) \o SubSeq(s, k + 1, Len(s)) = SubSeq(s, 1, Len(s))
      BY <2>1, <1>1, ConcatAdjacentSubSeq
    <3>2. SubSeq(s, 1, Len(s)) = s
      BY <1>1, SubSeqFull
    <3>3. QED
      BY <3>1, <3>2
  <2>6. Value(WholeOf(n, d) \o FractionOf(n, d)) = n
    BY <1>1, <2>2, <2>5
  <2> HIDE DEF s, k
  <2>7. QED
    BY <2>1, <2>2, <2>3, <2>4, <2>6
<1>4. QED
  BY <1>2, <1>3

(* Trailing zeros are all that is trimmed.                                 *)
LEMMA Trimmed ==
  ASSUME NEW f \in Seq(Digits)
  PROVE  /\ TrimZeros(f) \in Seq(Digits) /\ Len(TrimZeros(f)) <= Len(f)
         /\ TrimZeros(f) \o Zeros(Len(f) - Len(TrimZeros(f))) = f
<1> DEFINE kept == {i \in DOMAIN f : f[i] # 0}
           k == IF kept = {} THEN 0 ELSE Max(kept)
           t == TrimZeros(f)
           z == Zeros(Len(f) - k)
<1>1. kept \in SUBSET (1..Len(f)) /\ Len(f) \in Nat
  OBVIOUS
<1>2. k \in 0..Len(f) /\ \A i \in kept : i <= k
  <2> HIDE DEF kept
  <2>1. kept # {} => Max(kept) \in kept /\ \A i \in kept : i <= Max(kept)
    BY <1>1, MaxIn
  <2>2. CASE kept = {}
    BY <1>1, <2>2
  <2>3. CASE kept # {}
    <3>1. k = Max(kept)
      BY <2>3
    <3> HIDE DEF k
    <3>2. k \in kept /\ \A i \in kept : i <= k
      BY <2>1, <2>3, <3>1
    <3>3. k \in 1..Len(f)
      BY <1>1, <3>2
    <3>4. QED
      BY <1>1, <3>2, <3>3
  <2>4. QED
    BY <2>2, <2>3
<1>3. \A i \in 1..Len(f) : i > k => f[i] = 0
  <2> SUFFICES ASSUME NEW i \in 1..Len(f), i > k PROVE f[i] = 0
    OBVIOUS
  <2>1. i \notin kept
    <3> HIDE DEF kept
    <3>1. QED
      BY <1>2
  <2>2. QED
    BY <2>1
<1>4. t = SubSeq(f, 1, k)
  <2>1. CASE kept = {}
    <3>1. SubSeq(f, 1, 0) = <<>>
      BY SubSeqEmpty
    <3>2. QED
      BY <2>1, <3>1 DEF TrimZeros
  <2>2. CASE kept # {}
    BY <2>2 DEF TrimZeros
  <2>3. QED
    BY <2>1, <2>2
<1> HIDE DEF kept, k
<1>5. /\ t \in Seq(Digits) /\ Len(t) = k
      /\ \A i \in 1..k : t[i] = f[i]
  <2>1. \A i \in 1..k : f[i] \in Digits
    BY <1>2
  <2>2. /\ SubSeq(f, 1, k) \in Seq(Digits) /\ Len(SubSeq(f, 1, k)) = k
        /\ \A i \in 1..(k - 1) + 1 : SubSeq(f, 1, k)[i] = f[(1 + i) - 1]
    BY <1>2, <2>1, SubSeqProperties
  <2>3. \A i \in 1..k : i \in 1..(k - 1) + 1 /\ (1 + i) - 1 = i
    BY <1>2
  <2>4. \A i \in 1..k : SubSeq(f, 1, k)[i] = f[i]
    BY <2>2, <2>3
  <2>5. QED
    BY <1>4, <2>2, <2>4
<1>6. z \in Seq(Digits) /\ Len(z) = Len(f) - k /\ \A i \in 1..Len(f) - k : z[i] = 0
  <2>1. Len(f) - k \in Nat
    BY <1>2
  <2>2. QED
    BY <2>1, ZerosAre
<1> HIDE DEF t, z
<1>7. /\ t \o z \in Seq(Digits) /\ Len(t \o z) = Len(f)
      /\ \A i \in 1..Len(f) : (t \o z)[i] = IF i <= k THEN t[i] ELSE z[i - k]
  <2>1. Len(t) + Len(z) = Len(f)
    BY <1>2, <1>5, <1>6
  <2>2. /\ t \o z \in Seq(Digits) /\ Len(t \o z) = Len(t) + Len(z)
        /\ \A i \in 1..Len(t) + Len(z) : (t \o z)[i] = IF i <= Len(t) THEN t[i] ELSE z[i - Len(t)]
    BY <1>5, <1>6, ConcatProperties
  <2>3. QED
    BY <1>5, <2>1, <2>2
<1>8. \A i \in 1..Len(f) : (t \o z)[i] = f[i]
  <2> SUFFICES ASSUME NEW i \in 1..Len(f) PROVE (t \o z)[i] = f[i]
    OBVIOUS
  <2>1. CASE i <= k
    BY <1>2, <1>5, <1>7, <2>1
  <2>2. CASE ~(i <= k)
    <3>1. i - k \in 1..Len(f) - k /\ i > k
      BY <1>2, <2>2
    <3>2. QED
      BY <1>3, <1>6, <1>7, <2>2, <3>1
  <2>3. QED
    BY <2>1, <2>2
<1>9. t \o z = f
  BY <1>7, <1>8, SeqEqual
<1>10. QED
  BY <1>2, <1>5, <1>9 DEF t, z

(* Text of digits alone is read as it stands.                              *)
LEMMA DigitsAllowed ==
  ASSUME NEW s \in Seq(Digits)
  PROVE  /\ AllDigits(s) /\ Dots(s) = {}
         /\ ~Signed(s, Minus) /\ ~Signed(s, Plus) /\ ~HexPrefixed(s)
<1>1. \A i \in DOMAIN s : s[i] \in Nat /\ s[i] < Base
  BY UnitsAssumption DEF Digits
<1>2. Base \in Nat
  BY UnitsAssumption
<1>3. AllDigits(s) /\ Dots(s) = {}
  BY <1>1, <1>2 DEF AllDigits, Dots, Dot
<1>4. s # <<>> => 1 \in DOMAIN s
  OBVIOUS
<1>5. ~Signed(s, Minus) /\ ~Signed(s, Plus)
  BY <1>1, <1>2, <1>4 DEF Signed, Minus, Plus
<1>6. Len(s) > 1 => 2 \in DOMAIN s
  OBVIOUS
<1>7. ~HexPrefixed(s)
  BY <1>1, <1>2, <1>6 DEF HexPrefixed, HexX
<1>8. QED
  BY <1>3, <1>5, <1>7

(* Without a dot, the decimals are zeros.                                  *)
LEMMA PlainParse ==
  ASSUME NEW s \in Seq(Digits), s # <<>>, NEW d \in Nat, d <= MaxDecimals
  PROVE  ParseUnits(s, d) = ToUint(s \o Zeros(d))
<1>1. ~(d > MaxDecimals)
  BY UnitsAssumption
<1>2. Whole(s) = s /\ Fraction(s) = <<>>
  BY DigitsAllowed DEF Whole, Fraction
<1>3. s \o <<>> = s
  BY ConcatEmptySeq
<1>4. ~(Cardinality(Dots(s)) > 1)
  BY DigitsAllowed, FS_EmptySet
<1>5. Len(Fraction(s)) = 0 /\ ~(0 > d) /\ d - 0 = d
  BY <1>2
<1>6. QED
  BY <1>1, <1>2, <1>3, <1>4, <1>5, DigitsAllowed DEF ParseUnits

(* Text of digits, a dot and digits falls apart at the dot.                *)
LEMMA DottedIs ==
  ASSUME NEW w \in Seq(Digits), NEW t \in Seq(Digits)
  PROVE  LET r == w \o <<Dot>> \o t
             k == Len(w) + 1
         IN  /\ r \in Seq(Nat) /\ Len(r) = k + Len(t)
             /\ \A i \in 1..Len(w) : r[i] = w[i]
             /\ r[k] = Dot
             /\ \A i \in 1..Len(t) : r[k + i] = t[i]
<1> DEFINE x == <<Dot>>
           y == w \o x
           r == y \o t
           k == Len(w) + 1
<1>1. x \in Seq(Nat) /\ Len(x) = 1 /\ x[1] = Dot
  BY UnitsAssumption DEF Dot
<1>2. w \in Seq(Nat) /\ t \in Seq(Nat) /\ Len(w) \in Nat /\ Len(t) \in Nat
  BY DigitsAre
<1> HIDE DEF x
<1>3. /\ y \in Seq(Nat) /\ Len(y) = Len(w) + Len(x)
      /\ \A i \in 1..Len(w) + Len(x) : y[i] = IF i <= Len(w) THEN w[i] ELSE x[i - Len(w)]
  BY <1>1, <1>2, ConcatProperties
<1>4. Len(y) = k /\ y[k] = Dot /\ \A i \in 1..Len(w) : y[i] = w[i]
  <2>1. k \in 1..Len(w) + Len(x) /\ ~(k <= Len(w)) /\ k - Len(w) = 1
    BY <1>1, <1>2
  <2>2. y[k] = Dot
    BY <1>1, <1>3, <2>1
  <2>3. \A i \in 1..Len(w) : i \in 1..Len(w) + Len(x) /\ i <= Len(w)
    BY <1>1, <1>2
  <2>4. QED
    BY <1>1, <1>3, <2>2, <2>3
<1> HIDE DEF y
<1>5. /\ r \in Seq(Nat) /\ Len(r) = Len(y) + Len(t)
      /\ \A i \in 1..Len(y) + Len(t) : r[i] = IF i <= Len(y) THEN y[i] ELSE t[i - Len(y)]
  <2>1. y \in Seq(Nat) /\ t \in Seq(Nat)
    BY <1>2, <1>3
  <2>2. QED
    BY <2>1, ConcatProperties
<1> HIDE DEF r
<1>6. r[k] = Dot /\ \A i \in 1..Len(w) : r[i] = w[i]
  <2>1. \A i \in 1..k : i \in 1..Len(y) + Len(t) /\ i <= Len(y)
    BY <1>2, <1>4
  <2>2. \A i \in 1..k : r[i] = y[i]
    BY <1>5, <2>1
  <2>3. k \in 1..k /\ \A i \in 1..Len(w) : i \in 1..k
    BY <1>2
  <2>4. QED
    BY <1>4, <2>2, <2>3
<1>7. ASSUME NEW i \in 1..Len(t) PROVE r[k + i] = t[i]
  <2>1. k + i \in 1..Len(y) + Len(t) /\ ~(k + i <= Len(y)) /\ (k + i) - Len(y) = i
    BY <1>2, <1>4
  <2>2. QED
    BY <1>5, <2>1
<1>8. QED
  BY <1>4, <1>5, <1>6, <1>7 DEF r, y, x

(* Whole and fraction are its two sides.                                   *)
LEMMA DottedParts ==
  ASSUME NEW w \in Seq(Digits), NEW t \in Seq(Digits), Len(w) >= 1
  PROVE  LET r == w \o <<Dot>> \o t
         IN  /\ r # <<>> /\ Cardinality(Dots(r)) = 1 /\ Whole(r) = w /\ Fraction(r) = t
             /\ ~Signed(r, Minus) /\ ~Signed(r, Plus) /\ ~HexPrefixed(r)
<1> DEFINE r == w \o <<Dot>> \o t
           k == Len(w) + 1
<1>1. /\ r \in Seq(Nat) /\ Len(r) = k + Len(t)
      /\ \A i \in 1..Len(w) : r[i] = w[i]
      /\ r[k] = Dot
      /\ \A i \in 1..Len(t) : r[k + i] = t[i]
  BY DottedIs
<1>2. Len(w) \in Nat /\ Len(t) \in Nat /\ Base \in Nat /\ k \in Nat
  BY UnitsAssumption
<1>3. /\ \A i \in 1..Len(w) : w[i] \in Nat /\ w[i] < Base
      /\ \A i \in 1..Len(t) : t[i] \in Nat /\ t[i] < Base
  <2>1. \A x \in Digits : x \in Nat /\ x < Base
    BY UnitsAssumption DEF Digits
  <2>2. (\A i \in 1..Len(w) : w[i] \in Digits) /\ (\A i \in 1..Len(t) : t[i] \in Digits)
    OBVIOUS
  <2>3. QED
    BY <2>1, <2>2
<1> HIDE DEF r
<1>4. DOMAIN r = 1..k + Len(t)
  BY <1>1
<1>5. ASSUME NEW i \in 1..k + Len(t), i # k PROVE r[i] < Base /\ r[i] \in Nat
  <2>1. CASE i < k
    <3>1. i \in 1..Len(w)
      BY <1>2, <2>1
    <3>2. QED
      BY <1>1, <1>3, <3>1
  <2>2. CASE i > k
    <3>1. i - k \in 1..Len(t) /\ k + (i - k) = i
      BY <1>2, <2>2
    <3>2. QED
      BY <1>1, <1>3, <3>1
  <2>3. QED
    BY <1>2, <1>5, <2>1, <2>2
<1>6. Dots(r) = {k}
  <2>1. k \in DOMAIN r
    BY <1>2, <1>4
  <2>2. \A i \in DOMAIN r : r[i] = Dot => i = k
    BY <1>2, <1>4, <1>5 DEF Dot
  <2>3. QED
    BY <1>1, <2>1, <2>2 DEF Dots
<1>7. Min(Dots(r)) = k
  <2>1. {k} \in SUBSET Nat /\ {k} # {}
    BY <1>2
  <2>2. Min({k}) \in {k}
    BY <2>1, MinIn
  <2>3. QED
    BY <1>6, <2>2
<1>8. Whole(r) = w
  <2>1. Whole(r) = SubSeq(r, 1, Len(w))
    <3>1. Dots(r) # {} /\ k - 1 = Len(w)
      BY <1>2, <1>6
    <3>2. QED
      BY <1>7, <3>1 DEF Whole
  <2>2. \A i \in 1..Len(w) : r[i] \in Digits
    <3>1. \A i \in 1..Len(w) : w[i] \in Digits
      OBVIOUS
    <3>2. QED
      BY <1>1, <3>1
  <2>3. /\ SubSeq(r, 1, Len(w)) \in Seq(Digits) /\ Len(SubSeq(r, 1, Len(w))) = Len(w)
        /\ \A i \in 1..(Len(w) - 1) + 1 : SubSeq(r, 1, Len(w))[i] = r[(1 + i) - 1]
    BY <1>2, <2>2, SubSeqProperties
  <2>4. \A i \in 1..Len(w) : i \in 1..(Len(w) - 1) + 1 /\ (1 + i) - 1 = i
    BY <1>2
  <2>5. \A i \in 1..Len(w) : SubSeq(r, 1, Len(w))[i] = w[i]
    BY <1>1, <2>3, <2>4
  <2>6. SubSeq(r, 1, Len(w)) = w
    <3> DEFINE v == SubSeq(r, 1, Len(w))
    <3>1. v \in Seq(Digits) /\ Len(v) = Len(w) /\ \A i \in 1..Len(v) : v[i] = w[i]
      BY <2>3, <2>5
    <3> HIDE DEF v
    <3>2. v = w
      BY <3>1, SeqEqual
    <3>3. QED
      BY <3>2 DEF v
  <2>7. QED
    BY <2>1, <2>6
<1>9. Fraction(r) = t
  <2> DEFINE v == SubSeq(r, k + 1, k + Len(t))
  <2>1. Fraction(r) = v
    <3>1. Dots(r) # {}
      BY <1>6
    <3>2. QED
      BY <1>1, <1>7, <3>1 DEF Fraction
  <2>2. \A i \in (k + 1)..(k + Len(t)) : r[i] \in Digits
    <3> SUFFICES ASSUME NEW i \in (k + 1)..(k + Len(t)) PROVE r[i] \in Digits
      OBVIOUS
    <3>1. i - k \in 1..Len(t) /\ k + (i - k) = i
      BY <1>2
    <3>2. r[i] = t[i - k]
      BY <1>1, <3>1
    <3>3. QED
      BY <3>1, <3>2
  <2>3. /\ v \in Seq(Digits) /\ Len(v) = Len(t)
        /\ \A i \in 1..Len(t) : v[i] = t[i]
    <3>1. /\ v \in Seq(Digits)
          /\ Len(v) = IF k + 1 <= k + Len(t) THEN ((k + Len(t)) - (k + 1)) + 1 ELSE 0
          /\ \A i \in 1..((k + Len(t)) - (k + 1)) + 1 : v[i] = r[((k + 1) + i) - 1]
      BY <1>2, <2>2, SubSeqProperties
    <3> HIDE DEF v
    <3>2. Len(v) = Len(t)
      BY <1>2, <3>1
    <3>3. \A i \in 1..Len(t) : i \in 1..((k + Len(t)) - (k + 1)) + 1 /\ ((k + 1) + i) - 1 = k + i
      BY <1>2
    <3>4. QED
      BY <1>1, <3>1, <3>2, <3>3
  <2> HIDE DEF v
  <2>4. v = t
    BY <2>3, SeqEqual
  <2>5. QED
    BY <2>1, <2>4
<1>10. ~Signed(r, Minus) /\ ~Signed(r, Plus)
  <2>1. 1 \in 1..k + Len(t) /\ 1 # k
    BY <1>2
  <2>2. r[1] < Base /\ r[1] \in Nat
    BY <1>5, <2>1
  <2>3. QED
    BY <1>2, <2>2 DEF Signed, Minus, Plus
<1>11. ~HexPrefixed(r)
  <2>1. SUFFICES ASSUME Len(r) > 1 PROVE r[2] # HexX
    BY DEF HexPrefixed
  <2>2. CASE k = 2
    BY <1>1, <1>2, <2>2 DEF HexX, Dot
  <2>3. CASE k # 2
    <3>1. 2 \in 1..k + Len(t)
      BY <1>1, <1>2, <2>1
    <3>2. r[2] < Base /\ r[2] \in Nat
      BY <1>5, <2>3, <3>1
    <3>3. QED
      BY <1>2, <3>2 DEF HexX
  <2>4. QED
    BY <2>2, <2>3
<1>12. r # <<>> /\ Cardinality(Dots(r)) = 1
  <2>1. Len(r) # 0
    BY <1>1, <1>2
  <2>2. Cardinality({k}) = 1
    BY FS_Singleton
  <2>3. QED
    BY <1>6, <2>1, <2>2
<1>13. QED
  BY <1>8, <1>9, <1>10, <1>11, <1>12 DEF r

(* Its decimals are filled up with zeros.                                  *)
LEMMA DotParse ==
  ASSUME NEW w \in Seq(Digits), NEW t \in Seq(Digits), Len(w) >= 1,
         NEW d \in Nat, d <= MaxDecimals, Len(t) <= d
  PROVE  ParseUnits(w \o <<Dot>> \o t, d) = ToUint(w \o t \o Zeros(d - Len(t)))
<1> DEFINE r == w \o <<Dot>> \o t
<1>1. ~(d > MaxDecimals) /\ ~(Len(t) > d)
  BY UnitsAssumption
<1>2. /\ r # <<>> /\ Cardinality(Dots(r)) = 1 /\ Whole(r) = w /\ Fraction(r) = t
      /\ ~Signed(r, Minus) /\ ~Signed(r, Plus) /\ ~HexPrefixed(r)
  BY DottedParts
<1>3. w \o t \in Seq(Digits) /\ Len(w \o t) = Len(w) + Len(t)
  BY ConcatProperties
<1>4. AllDigits(w \o t)
  BY <1>3, DigitsAllowed
<1>5. w \o t # <<>>
  BY <1>3
<1>6. ~(Cardinality(Dots(r)) > 1)
  BY <1>2
<1> HIDE DEF r
<1>7. ParseUnits(r, d) = ToUint(w \o t \o Zeros(d - Len(t)))
  BY <1>1, <1>2, <1>4, <1>5, <1>6 DEF ParseUnits
<1>8. QED
  BY <1>7 DEF r

(* What format_units writes, parse_units reads back.                       *)
LEMMA FormatIs ==
  ASSUME NEW n \in Nat, NEW d \in Nat, d <= MaxDecimals
  PROVE  LET f == TrimZeros(FractionOf(n, d))
         IN  FormatUnits(n, d) = Ok(IF d = 0 THEN Numeral(n)
                                    ELSE IF f = <<>> THEN WholeOf(n, d)
                                    ELSE WholeOf(n, d) \o <<Dot>> \o f)
<1>1. ~(d > MaxDecimals)
  BY UnitsAssumption
<1>2. QED
  BY <1>1 DEF FormatUnits, WholeOf, FractionOf

(* Read back, it is the number that was written.                           *)
LEMMA ReadBack ==
  ASSUME NEW n \in Nat, n <= UintMax, NEW d \in Nat, d <= MaxDecimals
  PROVE  ParseUnits(FormatUnits(n, d).val, d) = Ok(n)
<1> DEFINE s == Numeral(n)
           w == WholeOf(n, d)
           f == FractionOf(n, d)
           t == TrimZeros(f)
<1>1. s \in Seq(Digits) /\ Len(s) >= 1 /\ Value(s) = n
  BY NumeralIs
<1>2. w \in Seq(Digits) /\ Len(w) >= 1 /\ f \in Seq(Digits) /\ Len(f) = d /\ Value(w \o f) = n
  BY Halves
<1>3. t \in Seq(Digits) /\ Len(t) <= d /\ t \o Zeros(d - Len(t)) = f
  <2> HIDE DEF f
  <2>1. QED
    BY <1>2, Trimmed
<1>4. FormatUnits(n, d).val = IF d = 0 THEN s ELSE IF t = <<>> THEN w ELSE w \o <<Dot>> \o t
  <2>1. FormatUnits(n, d) = Ok(IF d = 0 THEN s ELSE IF t = <<>> THEN w ELSE w \o <<Dot>> \o t)
    BY FormatIs
  <2>2. \A x : Ok(x).val = x
    BY DEF Ok
  <2> HIDE DEF s, w, f, t
  <2>3. QED
    BY <2>1, <2>2
<1>5. ASSUME NEW r, Value(r) = n PROVE ToUint(r) = Ok(n)
  BY <1>5, UnitsAssumption DEF ToUint
<1> HIDE DEF s, w, f, t
<1>6. CASE d = 0
  <2>1. Zeros(0) = <<>>
    BY DEF Zeros
  <2>2. s \o Zeros(0) = s
    BY <1>1, <2>1, ConcatEmptySeq
  <2>3. s # <<>>
    BY <1>1
  <2>4. ParseUnits(s, 0) = ToUint(s)
    BY <1>1, <1>6, <2>2, <2>3, PlainParse
  <2>5. QED
    BY <1>1, <1>4, <1>5, <1>6, <2>4
<1>7. CASE d # 0 /\ t = <<>>
  <2>1. Zeros(d) = f
    <3>1. Zeros(d) \in Seq(Digits)
      BY ZerosAre
    <3>2. Len(t) = 0 /\ d - 0 = d
      BY <1>7
    <3>3. <<>> \o Zeros(d) = Zeros(d)
      BY <3>1, ConcatEmptySeq
    <3>4. QED
      BY <1>3, <1>7, <3>2, <3>3
  <2>2. w # <<>>
    BY <1>2
  <2>3. ParseUnits(w, d) = ToUint(w \o f)
    BY <1>2, <2>1, <2>2, PlainParse
  <2>4. QED
    BY <1>2, <1>4, <1>5, <1>7, <2>3
<1>8. CASE d # 0 /\ t # <<>>
  <2>1. ParseUnits(w \o <<Dot>> \o t, d) = ToUint(w \o t \o Zeros(d - Len(t)))
    BY <1>2, <1>3, DotParse
  <2>2. (w \o t) \o Zeros(d - Len(t)) = w \o f
    <3>1. d - Len(t) \in Nat
      BY <1>3
    <3>2. Zeros(d - Len(t)) \in Seq(Digits)
      BY <3>1, ZerosAre
    <3>3. ASSUME NEW z \in Seq(Digits) PROVE (w \o t) \o z = w \o (t \o z)
      <4>1. w \in Seq(Digits) /\ t \in Seq(Digits)
        BY <1>2, <1>3
      <4>2. QED
        BY <4>1, ConcatAssociative
    <3>4. QED
      BY <1>3, <3>2, <3>3
  <2>3. QED
    BY <1>2, <1>4, <1>5, <1>8, <2>1, <2>2
<1>9. QED
  BY <1>6, <1>7, <1>8

(* A numeral is a decimal amount, and no other.                            *)
LEMMA NumeralRead ==
  ASSUME NEW n \in Nat, n <= UintMax
  PROVE  /\ \A d : FormatUnitsFromStr(Numeral(n), d) = FormatUnits(n, d)
         /\ ValidateDecimalAmount(Numeral(n)) = Ok(n)
<1> DEFINE s == Numeral(n)
<1>1. s \in Seq(Digits) /\ s # <<>> /\ Value(s) = n
  BY NumeralIs
<1> HIDE DEF s
<1>2. AllDigits(s) /\ ~Signed(s, Minus)
  BY <1>1, DigitsAllowed
<1>3. ToUint(s) = Ok(n) /\ Ok(n).ok /\ Ok(n).val = n
  BY <1>1, UnitsAssumption DEF ToUint, Ok
<1>4. QED
  BY <1>1, <1>2, <1>3 DEF FormatUnitsFromStr, ValidateDecimalAmount, s

(* The digits that parse_units reads are digits of its text.               *)
LEMMA PartsAre ==
  ASSUME NEW s \in Seq(Nat)
  PROVE  Whole(s) \in Seq(Nat) /\ Fraction(s) \in Seq(Nat)
<1>1. CASE Dots(s) = {}
  BY <1>1 DEF Whole, Fraction
<1>2. CASE Dots(s) # {}
  <2> DEFINE m == Min(Dots(s))
  <2>1. Dots(s) \in SUBSET (1..Len(s)) /\ Dots(s) \in SUBSET Nat
    BY DEF Dots
  <2>2. m \in 1..Len(s)
    BY <1>2, <2>1, MinIn
  <2> HIDE DEF m
  <2>3. Len(s) \in Nat /\ m - 1 \in Int /\ m + 1 \in Int
    BY <2>2
  <2>4. SubSeq(s, 1, m - 1) \in Seq(Nat)
    <3>1. \A i \in 1..m - 1 : s[i] \in Nat
      BY <2>2
    <3>2. QED
      BY <2>3, <3>1, SubSeqProperties
  <2>5. SubSeq(s, m + 1, Len(s)) \in Seq(Nat)
    <3>1. \A i \in (m + 1)..Len(s) : s[i] \in Nat
      BY <2>2
    <3>2. QED
      BY <2>3, <3>1, SubSeqProperties
  <2>6. QED
    BY <1>2, <2>4, <2>5 DEF Whole, Fraction, m
<1>3. QED
  BY <1>1, <1>2

(* Text that parse_units accepts is a number of the range, and has at most *)
(* the decimals there are.                                                 *)
LEMMA Accepted ==
  ASSUME NEW s \in Seq(Nat), NEW d \in Nat, ParseUnits(s, d).ok
  PROVE  /\ d <= MaxDecimals
         /\ \E n \in Nat : n <= UintMax /\ ParseUnits(s, d) = Ok(n)
<1> DEFINE r == Whole(s) \o Fraction(s) \o Zeros(d - Len(Fraction(s)))
<1>1. \A why : ~Fail(why).ok
  BY DEF Fail
<1>2. ~(d > MaxDecimals) /\ ~(Len(Fraction(s)) > d) /\ ParseUnits(s, d) = ToUint(r)
  BY <1>1 DEF ParseUnits
<1>3. Whole(s) \in Seq(Nat) /\ Fraction(s) \in Seq(Nat)
  BY PartsAre
<1>4. r \in Seq(Nat)
  <2>1. d - Len(Fraction(s)) \in Nat
    BY <1>2, <1>3
  <2>2. Zeros(d - Len(Fraction(s))) \in Seq(Nat)
    BY <2>1, ZerosAre, DigitsAre
  <2>3. QED
    BY <1>3, <2>2
<1> HIDE DEF r
<1>5. Value(r) \in Nat
  BY <1>4, ValueType
<1>6. ~(Value(r) > UintMax) /\ ToUint(r) = Ok(Value(r))
  BY <1>1, <1>2 DEF ToUint
<1>7. QED
  BY <1>2, <1>5, <1>6, UnitsAssumption

(* ctx.units on the text of a numeral.                                     *)
LEMMA UnitsAre ==
  ASSUME NEW s, NEW n, NEW v
  PROVE  /\ ParseAmount(s, v).ok => ParseDecimals(v).ok
         /\ ParseDecimals(v).ok =>
              /\ ParseAmount(s, v) = ParseUnits(s, ParseDecimals(v).val)
              /\ FormatAmount(n, v) = FormatUnitsFromStr(Numeral(n), ParseDecimals(v).val)
<1>1. ~Fail("decimals").ok
  BY DEF Fail
<1>2. \A x : Numeric(x).t = "text" /\ Numeric(x).s = x /\ IsString(Numeric(x))
  BY DEF Numeric, IsString
<1>3. QED
  BY <1>1, <1>2 DEF ParseAmount, FormatAmount, UnitsCall

(* A conversion of an amount.                                              *)
LEMMA AmountStep == ASSUME ConvertAmount PROVE AmountsInvert'
<1>1. PICK s \in Numerals, v \in DecimalsArgs :
         doc' = [topic |-> "amount", decimals |-> v, answer |-> ParseAmount(s, v)]
  BY DEF ConvertAmount, Enter
<1>2. SUFFICES ASSUME ParseAmount(s, v).ok
      PROVE  LET text == FormatAmount(ParseAmount(s, v).val, v)
             IN  /\ text.ok /\ ParseAmount(text.val, v) = ParseAmount(s, v)
                 /\ ValidateDecimalAmount(Numeral(ParseAmount(s, v).val)) = ParseAmount(s, v)
  BY <1>1 DEF AmountsInvert
<1> DEFINE d == ParseDecimals(v).val
<1>3. ParseDecimals(v).ok /\ ParseAmount(s, v) = ParseUnits(s, d)
  BY <1>2, UnitsAre
<1>4. d \in Nat
  <2>1. NonNegativeWhole(v) /\ d = v.n
    BY <1>3 DEF ParseDecimals, Ok, Fail
  <2>2. v.n \in Int /\ v.n >= 0
    BY <2>1, UnitsAssumption DEF NonNegativeWhole
  <2>3. QED
    BY <2>1, <2>2
<1> HIDE DEF d
<1>5. PICK n \in Nat : d <= MaxDecimals /\ n <= UintMax /\ ParseUnits(s, d) = Ok(n)
  <2>1. s \in Seq(Nat)
    BY UnitsAssumption
  <2>2. QED
    BY <1>2, <1>3, <1>4, <2>1, Accepted
<1>6. ParseAmount(s, v) = Ok(n) /\ Ok(n).val = n
  BY <1>3, <1>5 DEF Ok
<1>7. FormatAmount(n, v) = FormatUnits(n, d)
  <2>1. FormatAmount(n, v) = FormatUnitsFromStr(Numeral(n), d)
    BY <1>3, UnitsAre DEF d
  <2>2. FormatUnitsFromStr(Numeral(n), d) = FormatUnits(n, d)
    BY <1>5, NumeralRead
  <2>3. QED
    BY <2>1, <2>2
<1>8. FormatUnits(n, d).ok
  BY <1>4, <1>5, FormatIs DEF Ok
<1>9. ParseAmount(FormatUnits(n, d).val, v) = Ok(n)
  <2>1. ParseAmount(FormatUnits(n, d).val, v) = ParseUnits(FormatUnits(n, d).val, d)
    BY <1>3, UnitsAre DEF d
  <2>2. QED
    BY <1>4, <1>5, <2>1, ReadBack
<1>10. ValidateDecimalAmount(Numeral(n)) = Ok(n)
  BY <1>5, NumeralRead
<1>11. QED
  BY <1>6, <1>7, <1>8, <1>9, <1>10

-----------------------------------------------------------------------------
(* The host functions of a strategy.                                       *)

(* A block that pins a read and is accepted by getLogs is one block.       *)
LEMMA OneBlock ==
  ASSUME NEW v, ParseBlockTag(v).ok, ParseLogBlockTag(v).ok
  PROVE  ParseLogBlockTag(v) = ParseBlockTag(v)
<1> USE DEF IsNumber, NonNegativeWhole
<1>1. CASE v.t = "text"
  <2>1. v.s \in {"latest", "pending"} /\ ParseBlockTag(v) = Ok(v)
    BY <1>1 DEF ParseBlockTag, Fail
  <2>2. QED
    BY <1>1, <2>1 DEF ParseLogBlockTag
<1>2. CASE v.t = "decimal"
  <2>1. v.n \in 0..WordMax /\ ParseBlockTag(v) = Ok(AtBlock(v.n))
    BY <1>2 DEF ParseBlockTag, Fail
  <2>2. QED
    BY <1>2, <2>1 DEF ParseLogBlockTag
<1>3. CASE v.t \notin {"text", "decimal"}
  <2>1. IsNumber(v) /\ ParseBlockTag(v) = Ok(AtBlock(Saturate(v.n)))
    BY <1>3 DEF ParseBlockTag, Fail
  <2>2. ParseLogBlockTag(v) = Ok(AtBlock(Saturate(v.n)))
    BY <1>3, <2>1 DEF ParseLogBlockTag, Fail
  <2>3. QED
    BY <2>1, <2>2
<1>4. QED
  BY <1>1, <1>2, <1>3

(* Both ends of the range are then that block.                             *)
LEMMA LogBlocks == ASSUME QueryLogs PROVE BlocksAgree'
<1>1. PICK chain \in NodeLogs, addresses \in {<<>>, <<"watched">>}, topics \in Topics,
           raw \in BlockRanges :
         LET filter == LogFilter(addresses, raw, topics)
         IN  doc' = [topic |-> "logs", chain |-> chain, raw |-> raw, filter |-> filter,
                     answer |-> IF filter.ok THEN GetLogs(chain, filter.val) ELSE filter]
  BY DEF QueryLogs, Enter
<1> DEFINE filter == LogFilter(addresses, raw, topics)
           v == raw.blockTag
           read == BlockTagOrLatest(v)
           pinned == ParseLogBlockTag(v)
<1>2. doc'.topic = "logs" /\ doc'.raw = raw /\ doc'.filter = filter
  BY <1>1
<1>3. SUFFICES ASSUME filter.ok, ~IsNullish(v), read.ok
               PROVE  filter.val.from = NodeBlock(read.val) /\ filter.val.to = NodeBlock(read.val)
  BY <1>2 DEF BlocksAgree
<1> DEFINE range == BlockRange(raw)
           slots == [i \in DOMAIN topics |-> TopicSlot(topics[i]).val]
<1>4. /\ range.ok
      /\ filter.val = [addresses |-> addresses, topics |-> slots,
                       from |-> NodeBlock(range.val[1]), to |-> NodeBlock(range.val[2])]
  BY <1>3, FilterIs
<1> HIDE DEF slots
<1>5. /\ BlockRange(raw).ok
      /\ filter.val.from = NodeBlock(BlockRange(raw).val[1])
      /\ filter.val.to = NodeBlock(BlockRange(raw).val[2])
  BY <1>4
<1>6. pinned.ok /\ BlockRange(raw) = Ok(<<pinned.val, pinned.val>>)
  BY <1>3, <1>5 DEF BlockRange
<1>7. read = pinned
  BY <1>3, <1>6, OneBlock DEF BlockTagOrLatest
<1>8. BlockRange(raw).val[1] = read.val /\ BlockRange(raw).val[2] = read.val
  BY <1>6, <1>7 DEF Ok
<1>9. QED
  BY <1>5, <1>8

(* An overload that a read takes is the first of its arity.                *)
LEMMA ReadIsEncoded ==
  ASSUME NEW funcs, NEW items, ReadCall(funcs, items).ok
  PROVE  EncodeCall(funcs, items) = ReadCall(funcs, items)
<1>1. ReadOverload(funcs, items).ok
  BY DEF ReadCall
<1>2. EncodeOverload(funcs, items) = ReadOverload(funcs, items)
  BY <1>1 DEF ReadOverload, EncodeOverload, Fail
<1>3. QED
  BY <1>2 DEF EncodeCall, ReadCall

(* Arguments that a read takes are the ones an action takes.               *)
LEMMA ReadArgsAreSent ==
  ASSUME NEW v \in ArgLists, ReadArgs(v).ok
  PROVE  RequireArgs(v) = ReadArgs(v)
<1>1. CASE IsNullish(v)
  <2>1. ToJson(v) = Ok(Null) /\ v.t # "array"
    BY <1>1, HostCallsAssumption DEF IsNullish
  <2>2. ReadArgs(v) = Ok([t |-> "array", items |-> <<>>])
    BY <2>1 DEF ReadArgs, Ok, Null
  <2>3. QED
    BY <1>1, <2>1, <2>2 DEF RequireArgs, Ok, Null
<1>2. CASE ~IsNullish(v)
  <2>1. ~(ToJson(v).ok /\ ToJson(v).val = Null)
    BY <1>2, HostCallsAssumption
  <2> DEFINE json == ToJson(v)
  <2>2. \/ ReadArgs(v) = Fail("bigint")
        \/ ReadArgs(v) = IF ~json.ok \/ json.val.t = "array" THEN json
                         ELSE IF json.val = Null THEN Ok([t |-> "array", items |-> <<>>])
                         ELSE Fail("args")
    BY DEF ReadArgs
  <2>3. ~Fail("bigint").ok /\ ~Fail("args").ok
    BY DEF Fail
  <2> HIDE DEF json
  <2>4. json.ok /\ json.val.t = "array" /\ ReadArgs(v) = json
    BY <2>1, <2>2, <2>3 DEF json
  <2>5. QED
    BY <1>2, <2>4 DEF RequireArgs, json
<1>3. QED
  BY <1>1, <1>2

(* Each call, with the property it is about.                               *)
LEMMA CallStep == ASSUME CallContract PROVE ReadIsWhatIsSent'
<1>1. PICK fs \in Overloads, args \in ArgLists :
         doc' = [topic |-> "call",
                 read  |-> CallWith(ReadArgs(args), LAMBDA items : ReadCall(fs, items)),
                 sent  |-> CallWith(RequireArgs(args), LAMBDA items : EncodeCall(fs, items))]
  BY DEF CallContract, Enter
<1> DEFINE items == ToHost(ReadArgs(args).val).items
<1>2. SUFFICES ASSUME doc'.read.ok PROVE doc'.sent = doc'.read
  BY DEF ReadIsWhatIsSent
<1>3. ReadArgs(args).ok /\ doc'.read = ReadCall(fs, items)
  BY <1>1, <1>2 DEF CallWith
<1>4. RequireArgs(args) = ReadArgs(args)
  BY <1>3, ReadArgsAreSent
<1>5. doc'.sent = EncodeCall(fs, items)
  BY <1>1, <1>3, <1>4 DEF CallWith
<1>6. QED
  BY <1>2, <1>3, <1>5, ReadIsEncoded

(* ... an address.                                                         *)
LEMMA AddressStep == ASSUME CheckAddress PROVE AddressesAgree'
<1>1. PICK a \in AddressTexts :
         doc' = [topic |-> "address", is |-> IsAddress(a), sum |-> Checksum(a),
                 built |-> ValidateAddress(a)]
  BY DEF CheckAddress, Enter
<1>2. IsAddress(a) \/ Checksum(a).ok => ValidateAddress(a).ok
  BY DEF IsAddress, Checksum, ValidateAddress, Ok, Fail
<1>3. QED
  BY <1>1, <1>2 DEF AddressesAgree

(* Checks of two lists, one behind the other.                              *)
LEMMA CheckedBoth ==
  ASSUME NEW A, NEW B, NEW s \in Seq(A), NEW r \in Seq(B),
         \A i \in DOMAIN (s \o r) : (s \o r)[i].ok
  PROVE  /\ \A i \in 1..Len(s) : s[i].ok
         /\ \A i \in 1..Len(r) : r[i].ok
<1> DEFINE all == s \o r
<1>1. s \in Seq(A \cup B) /\ r \in Seq(A \cup B)
  OBVIOUS
<1>2. /\ Len(all) = Len(s) + Len(r) /\ all \in Seq(A \cup B)
      /\ \A i \in 1..Len(s) + Len(r) : all[i] = IF i <= Len(s) THEN s[i] ELSE r[i - Len(s)]
  BY <1>1, ConcatProperties
<1>3. \A i \in DOMAIN all : all[i].ok
  OBVIOUS
<1> HIDE DEF all
<1>4. DOMAIN all = 1..Len(s) + Len(r)
  BY <1>2
<1>5. \A i \in 1..Len(s) + Len(r) : all[i].ok
  BY <1>3, <1>4
<1>6. \A i \in 1..Len(s) : s[i].ok
  BY <1>2, <1>5
<1>7. ASSUME NEW i \in 1..Len(r) PROVE r[i].ok
  <2>1. Len(s) + i \in 1..Len(s) + Len(r) /\ ~(Len(s) + i <= Len(s)) /\ (Len(s) + i) - Len(s) = i
    OBVIOUS
  <2>2. QED
    BY <1>2, <1>5, <2>1
<1>8. QED
  BY <1>6, <1>7

(* A list of checks that answers well has no failing check.                *)
LEMMA NoneFails ==
  ASSUME NEW S, NEW checks \in Seq(S), NEW result, FirstFailure(checks, result).ok
  PROVE  (\A i \in DOMAIN checks : checks[i].ok) /\ FirstFailure(checks, result) = result
<1>1. CASE \E i \in DOMAIN checks : ~checks[i].ok
  <2>1. FirstFailure(checks, result) = checks[Min({i \in DOMAIN checks : ~checks[i].ok})]
    BY <1>1 DEF FirstFailure
  <2>2. QED
    BY <1>1, <2>1, FirstFails
<1>2. CASE \A i \in DOMAIN checks : checks[i].ok
  BY <1>2 DEF FirstFailure
<1>3. QED
  BY <1>1, <1>2

(* What the validators of a builder see.                                   *)
AddressChecks(kind, f) ==
  [i \in DOMAIN AddressFields(kind) |-> Valid("address", Field(f, AddressFields(kind)[i]))]

BodyChecks(kind, f, amount) ==
  CASE kind = "contract_call" -> <<Valid("amount", amount.val), Valid("call", Field(f, "abi"))>>
    [] kind = "raw_call" -> <<Valid("calldata", Field(f, "data")), Valid("amount", amount.val)>>
    [] OTHER -> <<Valid("amount", amount.val)>>

Kinds == {"contract_call", "raw_call", "erc20_transfer", "erc20_approve", "native_transfer"}

(* Short lists are lists.                                                  *)
LEMMA ShortLists ==
  ASSUME NEW S, NEW x \in S, NEW y \in S, NEW z \in S
  PROVE  <<>> \in Seq(S) /\ <<x>> \in Seq(S) /\ <<x, y>> \in Seq(S) /\ <<x, y, z>> \in Seq(S)
OBVIOUS

(* The address fields of an action are a list of names.                    *)
FieldNames == {"address", "token", "to", "spender"}

LEMMA FieldsListed == ASSUME NEW kind \in Kinds PROVE AddressFields(kind) \in Seq(FieldNames)
<1>1. \E x, y \in FieldNames : AddressFields(kind) = <<x>> \/ AddressFields(kind) = <<x, y>>
  <2>1. AddressFields(kind) \in {<<"address">>, <<"token", "to">>, <<"token", "spender">>, <<"to">>}
    BY DEF AddressFields, Kinds
  <2>2. QED
    BY <2>1 DEF FieldNames
<1>2. PICK x \in FieldNames, y \in FieldNames :
         AddressFields(kind) = <<x>> \/ AddressFields(kind) = <<x, y>>
  BY <1>1
<1>3. <<x>> \in Seq(FieldNames) /\ <<x, y>> \in Seq(FieldNames)
  BY ShortLists
<1>4. QED
  BY <1>2, <1>3

(* A builder that answers has run its validators.                          *)
LEMMA BuildChecks ==
  ASSUME NEW kind \in Kinds, NEW f, BuildAction(kind, f).ok
  PROVE  \E amount : LET valid == AddressChecks(kind, f) \o BodyChecks(kind, f, amount)
                     IN  BuildAction(kind, f) = FirstFailure(valid, Ok([kind |-> kind, fields |-> f]))
<1> DEFINE names     == AddressFields(kind)
           addresses == [i \in DOMAIN names |-> RequireString(Field(f, names[i]))]
           amount    == IF kind \in {"contract_call", "raw_call"}
                        THEN OptionalValue(Field(f, "value"))
                        ELSE RequireString(Field(f, IF kind = "native_transfer"
                                                    THEN "value" ELSE "amount"))
           body      == CASE kind = "contract_call"
                               -> <<RequireAbi(Field(f, "abi")),
                                    RequireString(Field(f, "function")),
                                    RequireArgs(Field(f, "args"))>>
                          [] kind = "raw_call" -> <<RequireString(Field(f, "data"))>>
                          [] OTHER -> <<>>
           read      == addresses \o body \o <<amount>>
           valid     == AddressChecks(kind, f) \o BodyChecks(kind, f, amount)
           result    == Ok([kind |-> kind, fields |-> f])
<1>1. BuildAction(kind, f) =
        IF \E i \in DOMAIN read : ~read[i].ok
        THEN FirstFailure(read, Ok(Null)) ELSE FirstFailure(valid, result)
  BY DEF BuildAction, AddressChecks, BodyChecks
<1>2. \E S : read \in Seq(S)
  <2>1. names \in Seq(FieldNames)
    BY FieldsListed
  <2>2. addresses \in Seq({addresses[i] : i \in DOMAIN addresses})
    BY <2>1
  <2>3. \E S : body \in Seq(S)
    <3> DEFINE S == {RequireAbi(Field(f, "abi")), RequireString(Field(f, "function")),
                     RequireArgs(Field(f, "args")), RequireString(Field(f, "data"))}
    <3>1. \E x, y, z \in S : body \in {<<x, y, z>>, <<x>>, <<>>}
      <4>1. \/ body = <<RequireAbi(Field(f, "abi")), RequireString(Field(f, "function")),
                        RequireArgs(Field(f, "args"))>>
            \/ body = <<RequireString(Field(f, "data"))>>
            \/ body = <<>>
        OBVIOUS
      <4> HIDE DEF body
      <4>2. QED
        BY <4>1
    <3> HIDE DEF body, S
    <3>2. body \in Seq(S)
      BY <3>1, ShortLists
    <3>3. QED
      BY <3>2
  <2> HIDE DEF addresses, body, amount
  <2>4. PICK A, B : addresses \in Seq(A) /\ body \in Seq(B)
    BY <2>2, <2>3
  <2>5. read \in Seq(A \cup B \cup {amount})
    BY <2>4
  <2>6. QED
    BY <2>5
<1> HIDE DEF read, valid, result
<1>3. (\E i \in DOMAIN read : ~read[i].ok) => ~FirstFailure(read, Ok(Null)).ok
  BY <1>2, NoneFails
<1>4. BuildAction(kind, f) = FirstFailure(valid, result)
  BY <1>1, <1>3
<1>5. QED
  BY <1>4 DEF valid, result

(* ... a built action.                                                     *)
LEMMA BuildStep == ASSUME Build PROVE BuiltActionsPass'
<1>1. PICK b \in Builds : doc' = [topic |-> "build", answer |-> BuildAction(b[1], b[2])]
  BY DEF Build, Enter
<1> DEFINE kind == b[1]
           f == b[2]
           a == doc'.answer.val
<1>2. kind \in Kinds
  BY HostCallsAssumption DEF Kinds
<1> HIDE DEF kind, f
<1>3. SUFFICES ASSUME BuildAction(kind, f).ok
               PROVE  /\ \A i \in DOMAIN AddressFields(a.kind) :
                            Valid("address", Field(a.fields, AddressFields(a.kind)[i])).ok
                      /\ a.kind = "contract_call" => Valid("call", Field(a.fields, "abi")).ok
                      /\ a.kind = "raw_call" => Valid("calldata", Field(a.fields, "data")).ok
  BY <1>1 DEF BuiltActionsPass, kind, f
<1>4. PICK amount : BuildAction(kind, f) =
        FirstFailure(AddressChecks(kind, f) \o BodyChecks(kind, f, amount),
                     Ok([kind |-> kind, fields |-> f]))
  BY <1>2, <1>3, BuildChecks
<1> DEFINE addresses == AddressChecks(kind, f)
           body == BodyChecks(kind, f, amount)
           valid == addresses \o body
           A == {addresses[i] : i \in DOMAIN addresses}
           B == {body[i] : i \in DOMAIN body}
<1>5. addresses \in Seq(A)
  <2>1. AddressFields(kind) \in Seq(FieldNames)
    BY <1>2, FieldsListed
  <2>2. QED
    BY <2>1 DEF AddressChecks
<1>6. body \in Seq(B)
  <2>1. \/ body = <<Valid("amount", amount.val), Valid("call", Field(f, "abi"))>>
        \/ body = <<Valid("calldata", Field(f, "data")), Valid("amount", amount.val)>>
        \/ body = <<Valid("amount", amount.val)>>
    BY DEF BodyChecks
  <2> HIDE DEF body
  <2>2. QED
    BY <2>1
<1>7. valid \in Seq(A \cup B)
  <2> HIDE DEF addresses, body, A, B
  <2>1. QED
    BY <1>5, <1>6
<1>8. /\ \A i \in DOMAIN valid : valid[i].ok
      /\ BuildAction(kind, f) = Ok([kind |-> kind, fields |-> f])
  <2> HIDE DEF valid, A, B
  <2>1. BuildAction(kind, f) = FirstFailure(valid, Ok([kind |-> kind, fields |-> f]))
    BY <1>4 DEF valid
  <2>2. QED
    BY <1>3, <1>7, <2>1, NoneFails
<1>9. (\A i \in 1..Len(addresses) : addresses[i].ok) /\ (\A i \in 1..Len(body) : body[i].ok)
  <2> HIDE DEF addresses, body, A, B
  <2>1. QED
    BY <1>5, <1>6, <1>8, CheckedBoth
<1>10. a.kind = kind /\ a.fields = f
  BY <1>1, <1>8 DEF Ok, kind, f
<1>11. \A i \in DOMAIN AddressFields(kind) : Valid("address", Field(f, AddressFields(kind)[i])).ok
  <2>1. DOMAIN addresses = 1..Len(addresses) /\ DOMAIN addresses = DOMAIN AddressFields(kind)
    BY <1>5 DEF AddressChecks
  <2>2. QED
    BY <1>9, <2>1 DEF AddressChecks
<1>12. kind = "contract_call" => Valid("call", Field(f, "abi")).ok
  BY <1>9 DEF BodyChecks
<1>13. kind = "raw_call" => Valid("calldata", Field(f, "data")).ok
  BY <1>9 DEF BodyChecks
<1>14. QED
  BY <1>10, <1>11, <1>12, <1>13

(* Each call enters a document of its own kind.                            *)
LEMMA CallTopics ==
  /\ CheckAddress => doc'.topic = "address"
  /\ CallContract => doc'.topic = "call"
  /\ Build => doc'.topic = "build"
  /\ ConvertAmount => doc'.topic = "amount"
<1>1. CheckAddress => doc'.topic = "address"
  BY DEF CheckAddress, Enter
<1>2. CallContract => doc'.topic = "call"
  BY DEF CallContract, Enter
<1>3. Build => doc'.topic = "build"
  BY DEF Build, Enter
<1>4. ConvertAmount => doc'.topic = "amount"
  BY DEF ConvertAmount, Enter
<1>5. QED
  BY <1>1, <1>2, <1>3, <1>4

(* Whatever the texts, blocks, ABIs and arguments, a host function accepts *)
(* nothing that the next one, the node or the server takes otherwise.      *)
THEOREM HostCallsAgree == SpecCalls => []CallsAgree
<1>1. Unread => CallsAgree
  BY DEF Unread, CallsAgree, ReadIsWhatIsSent, AddressesAgree, BlocksAgree, BuiltActionsPass, AmountsInvert
<1>2. CallsAgree /\ [NextCall \/ QueryLogs]_doc => CallsAgree'
  <2>1. /\ doc'.topic # "call" => ReadIsWhatIsSent'
        /\ doc'.topic # "address" => AddressesAgree'
        /\ doc'.topic # "logs" => BlocksAgree'
        /\ doc'.topic # "build" => BuiltActionsPass'
        /\ doc'.topic # "amount" => AmountsInvert'
    BY DEF ReadIsWhatIsSent, AddressesAgree, BlocksAgree, BuiltActionsPass, AmountsInvert
  <2>2. CASE CheckAddress
    BY <2>1, <2>2, AddressStep, CallTopics DEF CallsAgree
  <2>3. CASE CallContract
    BY <2>1, <2>3, CallStep, CallTopics DEF CallsAgree
  <2>4. CASE Build
    BY <2>1, <2>4, BuildStep, CallTopics DEF CallsAgree
  <2>5. CASE QueryLogs
    BY <2>1, <2>5, LogBlocks, ReadTopics DEF CallsAgree
  <2>6. CASE ConvertAmount
    BY <2>1, <2>6, AmountStep, CallTopics DEF CallsAgree
  <2>7. ASSUME CallsAgree, UNCHANGED doc PROVE CallsAgree'
    BY <2>7 DEF CallsAgree, ReadIsWhatIsSent, AddressesAgree, BlocksAgree, BuiltActionsPass, AmountsInvert
  <2>8. QED
    BY <2>2, <2>3, <2>4, <2>5, <2>7, <2>6 DEF NextCall
<1>3. QED
  BY <1>1, <1>2, PTL DEF SpecCalls

-----------------------------------------------------------------------------
(* Lists of lists.                                                         *)

(* A list of lists in one.                                                 *)
JoinAt(h, lists, n) == IF n = 1 THEN lists[n] ELSE h[n - 1] \o lists[n]

IsJoin(h, lists, k) == h = [n \in 1..k |-> JoinAt(h, lists, n)]

(* There are such functions, of any length.                                *)
LEMMA JoinExists ==
  ASSUME NEW lists, NEW k \in Nat
  PROVE  \E h : IsJoin(h, lists, k)
<1> DEFINE Bad == {n \in Nat : ~\E h : IsJoin(h, lists, n)}
<1>1. SUFFICES ASSUME Bad # {} PROVE FALSE
  OBVIOUS
<1>2. PICK m \in Bad : \A n \in Bad : m <= n
  <2>1. Bad \in SUBSET Nat
    OBVIOUS
  <2> HIDE DEF Bad
  <2>2. QED
    BY <2>1, <1>1, LeastNat
<1>3. CASE m = 0
  <2> DEFINE h == [n \in 1..0 |-> <<>>]
  <2>1. IsJoin(h, lists, 0)
    BY DEF IsJoin
  <2>2. QED
    BY <2>1, <1>3
<1>4. CASE m # 0
  <2>1. m - 1 \in Nat /\ m - 1 \notin Bad
    BY <1>2, <1>4
  <2>2. PICK h : IsJoin(h, lists, m - 1)
    BY <2>1
  <2> DEFINE g == [n \in 1..m |-> IF n = m THEN JoinAt(h, lists, m) ELSE h[n]]
  <2>3. \A n \in 1..m : g[n] = JoinAt(g, lists, n)
    <3> SUFFICES ASSUME NEW n \in 1..m PROVE g[n] = JoinAt(g, lists, n)
      OBVIOUS
    <3>1. n # 1 => n - 1 \in 1..m /\ n - 1 # m /\ g[n - 1] = h[n - 1]
      OBVIOUS
    <3>2. JoinAt(g, lists, n) = JoinAt(h, lists, n)
      BY <3>1 DEF JoinAt
    <3>3. n # m => h[n] = JoinAt(h, lists, n)
      BY <2>2 DEF IsJoin
    <3>4. QED
      BY <3>2, <3>3
  <2>4. IsJoin(g, lists, m)
    <3>1. g = [n \in 1..m |-> g[n]]
      OBVIOUS
    <3> HIDE DEF g
    <3>2. QED
      BY <3>1, <2>3 DEF IsJoin
  <2>5. QED
    BY <2>4
<1>5. QED
  BY <1>3, <1>4

(* What a joined list holds.                                               *)
Holds(s, x) == \E n \in DOMAIN s : s[n] = x

JoinedTo(s, lists, S, k) ==
  s \in Seq(S) /\ \A x : Holds(s, x) <=> \E i \in 1..k : Holds(lists[i], x)

(* Two lists in one.                                                       *)
LEMMA JoinGrows ==
  ASSUME NEW S, NEW s \in Seq(S), NEW r \in Seq(S), NEW x
  PROVE  Holds(s \o r, x) <=> Holds(s, x) \/ Holds(r, x)
<1> DEFINE all == s \o r
<1>1. /\ Len(all) = Len(s) + Len(r) /\ all \in Seq(S)
      /\ \A i \in 1..Len(s) + Len(r) : all[i] = IF i <= Len(s) THEN s[i] ELSE r[i - Len(s)]
  BY ConcatProperties
<1> HIDE DEF all
<1>2. ASSUME Holds(all, x) PROVE Holds(s, x) \/ Holds(r, x)
  <2>1. PICK n \in 1..Len(s) + Len(r) : all[n] = x
    BY <1>1, <1>2 DEF Holds
  <2>2. CASE n <= Len(s)
    BY <1>1, <2>1, <2>2 DEF Holds
  <2>3. CASE ~(n <= Len(s))
    <3>1. n - Len(s) \in 1..Len(r) /\ r[n - Len(s)] = x
      BY <1>1, <2>1, <2>3
    <3>2. QED
      BY <3>1 DEF Holds
  <2>4. QED
    BY <2>2, <2>3
<1>3. ASSUME Holds(s, x) PROVE Holds(all, x)
  <2>1. PICK n \in 1..Len(s) : s[n] = x
    BY <1>3 DEF Holds
  <2>2. n \in 1..Len(all) /\ all[n] = x
    BY <1>1, <2>1
  <2>3. QED
    BY <1>1, <2>2 DEF Holds
<1>4. ASSUME Holds(r, x) PROVE Holds(all, x)
  <2>1. PICK n \in 1..Len(r) : r[n] = x
    BY <1>4 DEF Holds
  <2>2. Len(s) + n \in 1..Len(all) /\ all[Len(s) + n] = x
    <3>1. Len(s) + n \in 1..Len(s) + Len(r) /\ ~(Len(s) + n <= Len(s)) /\ (Len(s) + n) - Len(s) = n
      OBVIOUS
    <3>2. QED
      BY <1>1, <2>1, <3>1
  <2>3. DOMAIN all = 1..Len(all)
    BY <1>1
  <2>4. QED
    BY <2>2, <2>3 DEF Holds
<1>5. QED
  BY <1>2, <1>3, <1>4 DEF all

(* So a joined list holds what its lists hold.                             *)
LEMMA FlattenHolds ==
  ASSUME NEW S, NEW lists \in Seq(Seq(S))
  PROVE  JoinedTo(FlattenSeq(lists), lists, S, Len(lists))
<1> DEFINE k == Len(lists)
           h == CHOOSE g : IsJoin(g, lists, k)
<1>1. CASE k = 0
  <2>1. lists = <<>> /\ FlattenSeq(lists) = <<>>
    BY <1>1 DEF FlattenSeq
  <2>2. DOMAIN <<>> = {} /\ <<>> \in Seq(S)
    OBVIOUS
  <2>3. \A x : ~Holds(<<>>, x)
    BY <2>2 DEF Holds
  <2>4. \A i : i \notin 1..k
    BY <1>1
  <2>5. QED
    BY <2>1, <2>2, <2>3, <2>4 DEF JoinedTo
<1>2. CASE k # 0
  <2>1. k \in Nat
    OBVIOUS
  <2>2. IsJoin(h, lists, k)
    <3> HIDE DEF k
    <3>1. QED
      BY <2>1, JoinExists
  <2>3. FlattenSeq(lists) = h[k]
    BY <1>2 DEF FlattenSeq, IsJoin, JoinAt
  <2> HIDE DEF h
  <2>4. \A n \in 1..k : h[n] = JoinAt(h, lists, n)
    BY <2>2 DEF IsJoin
  <2> DEFINE Bad == {n \in 1..k : ~JoinedTo(h[n], lists, S, n)}
  <2>5. Bad = {}
    <3>1. SUFFICES ASSUME Bad # {} PROVE FALSE
      OBVIOUS
    <3>2. PICK m \in Bad : \A n \in Bad : m <= n
      <4>1. Bad \in SUBSET Nat
        OBVIOUS
      <4> HIDE DEF Bad
      <4>2. QED
        BY <4>1, <3>1, LeastNat
    <3>3. CASE m = 1
      <4>1. h[m] = lists[1] /\ lists[1] \in Seq(S)
        BY <2>4, <3>3 DEF JoinAt
      <4>2. \A i \in 1..m : i = 1
        BY <3>3
      <4>3. JoinedTo(h[m], lists, S, m)
        BY <4>1, <4>2, <3>3 DEF JoinedTo
      <4>4. QED
        BY <4>3
    <3>4. CASE m # 1
      <4>1. m - 1 \in 1..k /\ m - 1 \notin Bad
        BY <3>2, <3>4
      <4>2. JoinedTo(h[m - 1], lists, S, m - 1)
        BY <4>1
      <4>3. m \in 1..k /\ lists[m] \in Seq(S)
        OBVIOUS
      <4>4. h[m] = h[m - 1] \o lists[m] /\ lists[m] \in Seq(S)
        BY <2>4, <3>4, <4>3 DEF JoinAt
      <4>5. \A x : Holds(h[m], x) <=> Holds(h[m - 1], x) \/ Holds(lists[m], x)
        BY <4>2, <4>4, JoinGrows DEF JoinedTo
      <4>6. 1..m = (1..m - 1) \cup {m}
        BY <3>4
      <4>7. h[m] \in Seq(S)
        BY <4>2, <4>4 DEF JoinedTo
      <4>8. JoinedTo(h[m], lists, S, m)
        BY <4>2, <4>5, <4>6, <4>7 DEF JoinedTo
      <4>9. QED
        BY <4>8
    <3>5. QED
      BY <3>3, <3>4
  <2>6. k \in 1..k
    BY <1>2
  <2>7. QED
    BY <2>3, <2>5, <2>6
<1>3. QED
  BY <1>1, <1>2

-----------------------------------------------------------------------------
(* The captures of a run.                                                  *)

(* The sweep of a run: the row of each action that a spec takes.           *)
FieldsOf(run, i, j) == EvaluateCapture(run.specs[j].capture, ContextOf(run, i)).fields

RowAt(run, i, j) == [index |-> i, name |-> run.specs[j].name, fields |-> FieldsOf(run, i, j)]

Taken(run, i, j) ==
  /\ i \in DOMAIN run.actions /\ j \in DOMAIN run.specs
  /\ EvaluateMatch(run.specs[j].on, ContextOf(run, i))
  /\ DOMAIN FieldsOf(run, i, j) # {}

(* A spec adds one row for an action, or none.                             *)
LEMMA CapturedIs ==
  ASSUME NEW run, NEW i \in DOMAIN run.actions, NEW j \in DOMAIN run.specs
  PROVE  Captured(run, i, run.specs[j]) = IF Taken(run, i, j) THEN <<RowAt(run, i, j)>> ELSE <<>>
<1> DEFINE spec == run.specs[j]
           out == EvaluateSpec(spec, ContextOf(run, i))
           c == EvaluateCapture(spec.capture, ContextOf(run, i))
<1>1. Captured(run, i, spec) =
        IF \E o \in out : DOMAIN o.fields # {}
        THEN <<[index |-> i, name |-> spec.name, fields |-> (CHOOSE o \in out : TRUE).fields]>>
        ELSE <<>>
  BY DEF Captured
<1>2. CASE EvaluateMatch(spec.on, ContextOf(run, i))
  <2>1. out = {c}
    BY <1>2 DEF EvaluateSpec
  <2> HIDE DEF out, c
  <2>2. (CHOOSE o \in out : TRUE) = c
    BY <2>1
  <2>3. (\E o \in out : DOMAIN o.fields # {}) <=> DOMAIN c.fields # {}
    BY <2>1
  <2>4. QED
    BY <1>1, <1>2, <2>2, <2>3 DEF c, Taken, RowAt, FieldsOf
<1>3. CASE ~EvaluateMatch(spec.on, ContextOf(run, i))
  <2>1. out = {}
    BY <1>3 DEF EvaluateSpec
  <2>2. QED
    BY <1>1, <1>3, <2>1 DEF Taken
<1>4. QED
  BY <1>2, <1>3

IsRun(run) == IsList(run.actions) /\ IsList(run.specs) /\ run.stored \in Nat

AllRows(run) ==
  {RowAt(run, p[1], p[2]) : p \in (DOMAIN run.actions) \X (DOMAIN run.specs)}

SweptAt(run, x, i) == \E j \in DOMAIN run.specs : Taken(run, i, j) /\ x = RowAt(run, i, j)

(* The rows of one action.                                                 *)
LEMMA OneAction ==
  ASSUME NEW run, IsRun(run), NEW i \in DOMAIN run.actions
  PROVE  LET one == FlattenSeq([j \in DOMAIN run.specs |-> Captured(run, i, run.specs[j])])
         IN  one \in Seq(AllRows(run)) /\ \A x : Holds(one, x) <=> SweptAt(run, x, i)
<1> DEFINE S == AllRows(run)
           lists == [j \in DOMAIN run.specs |-> Captured(run, i, run.specs[j])]
           k == Len(run.specs)
<1>1. DOMAIN run.specs = 1..k /\ k \in Nat
  BY DEF IsRun, IsList
<1>2. ASSUME NEW j \in DOMAIN run.specs
      PROVE  /\ lists[j] \in Seq(S)
             /\ \A x : Holds(lists[j], x) <=> Taken(run, i, j) /\ x = RowAt(run, i, j)
  <2>1. lists[j] = IF Taken(run, i, j) THEN <<RowAt(run, i, j)>> ELSE <<>>
    BY CapturedIs
  <2>2. RowAt(run, i, j) \in S
    <3>1. <<i, j>> \in (DOMAIN run.actions) \X (DOMAIN run.specs)
      OBVIOUS
    <3>2. QED
      BY <3>1 DEF AllRows
  <2> DEFINE row == RowAt(run, i, j)
  <2> HIDE DEF S, lists, row
  <2>3. CASE Taken(run, i, j)
    <3>1. lists[j] = <<row>>
      BY <2>1, <2>3 DEF row
    <3>2. lists[j] \in Seq(S) /\ \A x : Holds(lists[j], x) <=> x = row
      BY <3>1, <2>2 DEF Holds, row
    <3>3. QED
      BY <3>2, <2>3 DEF row
  <2>4. CASE ~Taken(run, i, j)
    <3>1. lists[j] = <<>> /\ DOMAIN <<>> = {} /\ <<>> \in Seq(S)
      BY <2>1, <2>4
    <3>2. QED
      BY <3>1, <2>4 DEF Holds
  <2>5. QED
    BY <2>3, <2>4
<1>3. lists \in Seq(Seq(S)) /\ Len(lists) = k
  <2>1. lists \in [1..k -> Seq(S)]
    BY <1>1, <1>2
  <2> HIDE DEF S, lists
  <2>2. QED
    BY <1>1, <2>1
<1> HIDE DEF lists, S
<1>4. JoinedTo(FlattenSeq(lists), lists, S, k)
  BY <1>3, FlattenHolds
<1>5. FlattenSeq(lists) \in Seq(S) /\ \A x : Holds(FlattenSeq(lists), x) <=> SweptAt(run, x, i)
  BY <1>1, <1>2, <1>4 DEF JoinedTo, SweptAt
<1>6. QED
  BY <1>5 DEF lists, S

(* The rows of all actions.                                                *)
LEMMA SweepHolds ==
  ASSUME NEW run, IsRun(run)
  PROVE  /\ Sweep(run) \in Seq(AllRows(run))
         /\ \A x : Holds(Sweep(run), x) <=> \E i \in DOMAIN run.actions : SweptAt(run, x, i)
<1> DEFINE S == AllRows(run)
           one(i) == FlattenSeq([j \in DOMAIN run.specs |-> Captured(run, i, run.specs[j])])
           lists == [i \in DOMAIN run.actions |-> one(i)]
           k == Len(run.actions)
<1>1. DOMAIN run.actions = 1..k /\ k \in Nat
  BY DEF IsRun, IsList
<1>2. \A i \in DOMAIN run.actions : one(i) \in Seq(S) /\ \A x : Holds(one(i), x) <=> SweptAt(run, x, i)
  BY OneAction
<1>3. Sweep(run) = FlattenSeq(lists)
  BY DEF Sweep
<1> HIDE DEF one, S
<1>4. lists \in Seq(Seq(S)) /\ Len(lists) = k
  <2>1. lists \in [1..k -> Seq(S)]
    BY <1>1, <1>2
  <2> HIDE DEF lists
  <2>2. QED
    BY <1>1, <2>1
<1>5. \A i \in 1..k : lists[i] = one(i)
  BY <1>1
<1> HIDE DEF lists
<1>6. JoinedTo(FlattenSeq(lists), lists, S, k)
  BY <1>4, FlattenHolds
<1>7. QED
  BY <1>1, <1>2, <1>3, <1>5, <1>6 DEF JoinedTo, S

(* The rows that are stored are the first of the sweep.                    *)
LEMMA StoredRows ==
  ASSUME NEW run, IsRun(run)
  PROVE  LET rows == CaptureRecords(run)
         IN  /\ \A x : Holds(rows, x) => Holds(Sweep(run), x)
             /\ run.strategy # "missing" /\ run.stored >= Len(Sweep(run)) =>
                   \A x : Holds(Sweep(run), x) => Holds(rows, x)
<1> DEFINE s == Sweep(run)
           m == Min({run.stored, Len(s)})
           S == AllRows(run)
<1>1. s \in Seq(S) /\ Len(s) \in Nat /\ run.stored \in Nat
  BY SweepHolds DEF IsRun
<1> HIDE DEF s, S
<1>2. m \in Nat /\ m <= Len(s) /\ (run.stored >= Len(s) => m = Len(s))
  BY <1>1, SmallerOf
<1> HIDE DEF m
<1> DEFINE t == SubSeq(s, 1, m)
<1>3. DOMAIN t = 1..m /\ \A n \in 1..m : t[n] = s[n]
  BY <1>1, <1>2, SubSeqIs
<1>4. DOMAIN s = 1..Len(s)
  BY <1>1
<1> HIDE DEF t
<1>5. CaptureRecords(run) = IF run.strategy = "missing" THEN <<>> ELSE t
  BY DEF CaptureRecords, t, m, s
<1>6. ASSUME NEW x, Holds(t, x) PROVE Holds(s, x)
  <2>1. PICK n \in 1..m : s[n] = x
    BY <1>3, <1>6 DEF Holds
  <2>2. n \in 1..Len(s)
    BY <1>1, <1>2
  <2>3. QED
    BY <1>4, <2>1, <2>2 DEF Holds
<1>7. ASSUME run.stored >= Len(s), NEW x, Holds(s, x) PROVE Holds(t, x)
  <2>1. PICK n \in 1..Len(s) : s[n] = x
    BY <1>4, <1>7 DEF Holds
  <2>2. n \in DOMAIN t /\ t[n] = x
    BY <1>2, <1>3, <1>7, <2>1
  <2>3. QED
    BY <2>2 DEF Holds
<1>8. \A x : ~Holds(<<>>, x)
  BY DEF Holds
<1>9. QED
  BY <1>5, <1>6, <1>7, <1>8 DEF s

(* What is captured of an action under the name of a spec.                 *)
LEMMA CapturedFields ==
  ASSUME NEW run, IsRun(run), NamesDiffer(run), NEW i, NEW j \in DOMAIN run.specs,
         NEW f \in CapturedBy(CaptureRecords(run), i, run.specs[j].name)
  PROVE  Taken(run, i, j) /\ f = FieldsOf(run, i, j)
<1> DEFINE rows == CaptureRecords(run)
<1>1. PICK n \in DOMAIN rows :
         rows[n].index = i /\ rows[n].name = run.specs[j].name /\ f = rows[n].fields
  BY DEF CapturedBy
<1> DEFINE row == rows[n]
<1>2. Holds(Sweep(run), row)
  <2>1. Holds(rows, row)
    BY DEF Holds
  <2> HIDE DEF rows, row
  <2>2. QED
    BY <2>1, StoredRows DEF rows
<1> HIDE DEF row, rows
<1>3. PICK a \in DOMAIN run.actions : SweptAt(run, row, a)
  BY <1>2, SweepHolds
<1>4. PICK b \in DOMAIN run.specs : Taken(run, a, b) /\ row = RowAt(run, a, b)
  BY <1>3 DEF SweptAt
<1>5. row.index = a /\ row.name = run.specs[b].name /\ row.fields = FieldsOf(run, a, b)
  BY <1>4 DEF RowAt
<1>6. a = i /\ b = j
  BY <1>1, <1>5 DEF NamesDiffer, row
<1>7. QED
  BY <1>1, <1>4, <1>5, <1>6 DEF row

(* What a spec takes is captured when every row is stored.                 *)
LEMMA TakenIsCaptured ==
  ASSUME NEW run, IsRun(run), run.strategy # "missing", run.stored >= Len(Sweep(run)),
         NEW i, NEW j, Taken(run, i, j)
  PROVE  CapturedBy(CaptureRecords(run), i, run.specs[j].name) # {}
<1> DEFINE row == RowAt(run, i, j)
<1>1. Holds(Sweep(run), row)
  <2>1. SweptAt(run, row, i) /\ i \in DOMAIN run.actions
    BY DEF SweptAt, Taken
  <2>2. QED
    BY <2>1, SweepHolds
<1>2. Holds(CaptureRecords(run), row)
  <2> HIDE DEF row
  <2>1. QED
    BY <1>1, StoredRows
<1>3. row.index = i /\ row.name = run.specs[j].name
  BY DEF RowAt
<1> HIDE DEF row
<1>4. PICK n \in DOMAIN CaptureRecords(run) : CaptureRecords(run)[n] = row
  BY <1>2 DEF Holds
<1>5. QED
  BY <1>3, <1>4 DEF CapturedBy

(* What is kept of a list holds every member at a position to keep.        *)
LEMMA KeptHolds ==
  ASSUME NEW s, IsList(s), NEW P \in SUBSET DOMAIN s
  PROVE  /\ Kept(s, P)[Len(s)] \in Seq({s[i] : i \in DOMAIN s})
         /\ \A i \in P : Holds(Kept(s, P)[Len(s)], s[i])
<1> DEFINE S == {s[i] : i \in DOMAIN s}
           h == Kept(s, P)
           Good(n) == h[n] \in Seq(S) /\ \A i \in P : i <= n => Holds(h[n], s[i])
           Bad == {n \in 0..Len(s) : ~Good(n)}
<1>1. DOMAIN s = 1..Len(s) /\ Len(s) \in Nat
  BY DEF IsList
<1>2. /\ h[0] = <<>>
      /\ \A n \in 1..Len(s) : h[n] = IF n \in P THEN Append(h[n - 1], s[n]) ELSE h[n - 1]
  BY <1>1, KeptStep
<1>3. \A n \in 1..Len(s) : s[n] \in S
  BY <1>1
<1> HIDE DEF h, S
<1>4. Bad = {}
  <2>1. SUFFICES ASSUME Bad # {} PROVE FALSE
    OBVIOUS
  <2>2. PICK m \in Bad : \A n \in Bad : m <= n
    <3>1. Bad \in SUBSET Nat
      BY <1>1
    <3> HIDE DEF Bad
    <3>2. QED
      BY <3>1, <2>1, LeastNat
  <2>3. CASE m = 0
    <3>1. \A i \in P : ~(i <= m)
      BY <1>1, <2>3
    <3>2. h[m] = <<>> /\ <<>> \in Seq(S)
      BY <1>2, <2>3
    <3>3. Good(m)
      BY <3>1, <3>2
    <3>4. QED
      BY <3>3
  <2>4. CASE m # 0
    <3>1. m \in 1..Len(s) /\ m - 1 \in 0..Len(s) /\ m - 1 \notin Bad
      BY <1>1, <2>2, <2>4
    <3>2. Good(m - 1)
      BY <3>1
    <3>3. CASE m \notin P
      <4>1. h[m] = h[m - 1]
        BY <1>2, <3>1, <3>3
      <4>2. \A i \in P : i <= m => i <= m - 1
        BY <1>1, <3>1, <3>3
      <4>3. Good(m)
        BY <3>2, <4>1, <4>2
      <4>4. QED
        BY <4>3
    <3>4. CASE m \in P
      <4>1. h[m] = Append(h[m - 1], s[m]) /\ h[m - 1] \in Seq(S) /\ s[m] \in S
        BY <1>2, <1>3, <3>1, <3>2, <3>4
      <4>2. Holds(h[m], s[m])
        <5>1. Len(h[m]) \in DOMAIN h[m] /\ h[m][Len(h[m])] = s[m]
          BY <4>1
        <5>2. QED
          BY <5>1 DEF Holds
      <4>3. \A x : Holds(h[m - 1], x) => Holds(h[m], x)
        <5> SUFFICES ASSUME NEW x, NEW n \in DOMAIN h[m - 1], h[m - 1][n] = x
                     PROVE  Holds(h[m], x)
          BY DEF Holds
        <5>1. n \in DOMAIN h[m] /\ h[m][n] = x
          BY <4>1
        <5>2. QED
          BY <5>1 DEF Holds
      <4>4. \A i \in P : i <= m => i <= m - 1 \/ i = m
        BY <1>1, <3>1
      <4>5. h[m] \in Seq(S)
        BY <4>1
      <4>6. Good(m)
        BY <3>2, <4>2, <4>3, <4>4, <4>5
      <4>7. QED
        BY <4>6
    <3>5. QED
      BY <3>3, <3>4
  <2>5. QED
    BY <2>3, <2>4
<1>5. Good(Len(s))
  BY <1>1, <1>4
<1>6. \A i \in P : i <= Len(s)
  BY <1>1
<1>7. QED
  BY <1>5, <1>6 DEF h, S

(* The function that a spec looks up is the first of its name.             *)
Functions(a) == {n \in DOMAIN a.abi : a.abi[n].type = "function" /\ a.abi[n].name = a.function}

(* It is one of the functions of that name.                                *)
LEMMA FirstNamedIs ==
  ASSUME NEW a, IsList(a.abi), NEW x \in FirstNamed(a.abi, a.function)
  PROVE  \E m \in Functions(a) : x = a.abi[m]
<1> DEFINE P == Functions(a)
<1>1. P # {} /\ x = a.abi[Min(P)]
  BY DEF FirstNamed, Functions
<1>2. P \in SUBSET Nat
  BY DEF Functions, IsList
<1>3. Min(P) \in P
  <2> HIDE DEF P
  <2>1. QED
    BY <1>1, <1>2, MinIn
<1>4. QED
  BY <1>1, <1>3

(* A call that is sent is encoded with one of the overloads.               *)
LEMMA EntryIs ==
  ASSUME NEW a, IsList(a.abi), SentEntry(a) # {}
  PROVE  \E n \in DOMAIN OverloadsOf(a) : SentEntry(a) = {OverloadsOf(a)[n]}
<1> DEFINE over == OverloadsOf(a)
           funcs == [i \in DOMAIN over |-> Types(over[i])]
           call == EncodeCall(funcs, a.args)
           fits == OfArity(funcs, Len(a.args))
<1>1. call.ok /\ SentEntry(a) = {over[call.val.overload]}
  BY DEF SentEntry
<1>2. over \in Seq({a.abi[i] : i \in DOMAIN a.abi})
  BY KeptHolds DEF OverloadsOf
<1>3. DOMAIN funcs \in SUBSET Nat /\ DOMAIN funcs = DOMAIN over
  <2> HIDE DEF over
  <2>1. QED
    BY <1>2
<1> HIDE DEF over, funcs
<1>4. EncodeOverload(funcs, a.args).ok
  BY <1>1 DEF EncodeCall
<1>5. fits # {} /\ EncodeOverload(funcs, a.args) = Ok(Min(fits))
  BY <1>4 DEF EncodeOverload, Fail
<1>6. call.val.overload = Min(fits)
  <2>1. call = Ok([overload |-> EncodeOverload(funcs, a.args).val,
                   values |-> EncodeArgs(funcs[EncodeOverload(funcs, a.args).val], a.args).val])
    BY <1>1 DEF EncodeCall
  <2>2. EncodeOverload(funcs, a.args).val = Min(fits)
    BY <1>5 DEF Ok
  <2> HIDE DEF call, fits
  <2>3. QED
    BY <2>1, <2>2 DEF Ok
<1>7. fits \in SUBSET Nat /\ fits \subseteq DOMAIN over
  BY <1>3 DEF OfArity
<1>8. Min(fits) \in fits
  <2> HIDE DEF fits
  <2>1. QED
    BY <1>5, <1>7, MinIn
<1>9. QED
  BY <1>1, <1>6, <1>7, <1>8 DEF over

(* A field that is captured is the value of its expression.                *)
LEMMA FieldIs ==
  ASSUME NEW run, NEW i, NEW j, NEW k \in DOMAIN FieldsOf(run, i, j)
  PROVE  LET value == EvaluateExpr(run.specs[j].capture[k], ContextOf(run, i))
         IN  k \in DOMAIN run.specs[j].capture /\ value.ok /\ FieldsOf(run, i, j)[k] = value.val
BY DEF FieldsOf, EvaluateCapture

(* tx.hash is the hash of the row of the action.                           *)
LEMMA HashIs ==
  ASSUME NEW run, NEW i, NEW e, IsTxHash(e)
  PROVE  LET own   == {x \in run.execs : x.index = i}
             value == EvaluateExpr(e, ContextOf(run, i))
         IN  value.ok /\ IF own = {} THEN value.val = "null" ELSE \E x \in own : value.val = x.hash
<1> DEFINE own == {x \in run.execs : x.index = i}
           first == CHOOSE x \in own : TRUE
           ctx == ContextOf(run, i)
<1>1. ctx.hash = IF own = {} THEN "null" ELSE first.hash
  BY DEF ContextOf, RowOf, NoRow
<1>2. ctx["hash"] = ctx.hash
  OBVIOUS
<1>3. own # {} => first \in own
  OBVIOUS
<1> HIDE DEF own, first, ctx
<1>4. EvaluateExpr(e, ctx) = Yes(ctx.hash)
  BY <1>2 DEF EvaluateExpr, EvalTx, IsTxHash
<1>5. QED
  BY <1>1, <1>3, <1>4 DEF Yes, own, ctx

(* The match of a call, the selector and the target apart.                 *)
LEMMA CallMatches ==
  ASSUME NEW run, NEW i, NEW spec, spec.on.kind = "contractCall",
         run.actions[i].kind = "contract_call"
  PROVE  LET a == run.actions[i]
         IN  EvaluateMatch(spec.on, ContextOf(run, i)) <=>
                /\ \A t \in Option(spec.on, "target") : AddrEq(t, a.address)
                /\ \A s \in Option(spec.on, "selector") : SelectorMatches(s, a.abi, a.function)
<1>1. ContextOf(run, i).action = run.actions[i]
  BY DEF ContextOf
<1> HIDE DEF ContextOf
<1>2. QED
  BY <1>1 DEF EvaluateMatch, MatchContractCall

(* Where the entry found has no tuple, the hash of its texts is its own.   *)
LEMMA HexMatches ==
  ASSUME NEW abi, NEW f, NEW e, FirstNamed(abi, f) = {e}, ~HasTuple(e), NEW s, s.form = "hex"
  PROVE  SelectorMatches(s, abi, f) <=> s.hash = <<f, Types(e)>>
<1> DEFINE texts == [i \in DOMAIN e.inputs |-> TypeText(e.inputs[i].ty)]
<1>1. texts = Types(e)
  BY DEF HasTuple, TypeText, Types
<1> HIDE DEF texts
<1>2. FunctionSelector(abi, f) = {<<f, texts>>}
  BY DEF FunctionSelector, texts
<1>3. QED
  BY <1>1, <1>2 DEF SelectorMatches

(* An option has one value at most.                                        *)
LEMMA OptionHolds == ASSUME NEW f, NEW k, NEW s \in Option(f, k) PROVE Option(f, k) = {s}
BY DEF Option

(* Of a run, a hex selector takes the calls that carry it.                 *)
LEMMA SelectorsOf ==
  ASSUME NEW run, IsRun(run), NamesDiffer(run), NEW i \in Sent(run), NEW j \in DOMAIN run.specs
  PROVE  SelectorAgrees(run, CaptureRecords(run), i, run.specs[j])
<1> DEFINE a == run.actions[i]
           e == Encoded(a)
           spec == run.specs[j]
           taken == CapturedBy(CaptureRecords(run), i, spec.name) # {}
<1>1. SUFFICES ASSUME spec.on.kind = "contractCall", FirstNamed(a.abi, a.function) = {e}, ~HasTuple(e),
                      NEW s \in Option(spec.on, "selector"), s.form = "hex"
               PROVE  LET carried == s.hash = <<a.function, Types(e)>>
                      IN  /\ taken => carried
                          /\ carried /\ Sought(run, spec, a) => taken
  BY DEF SelectorAgrees
<1> DEFINE carried == s.hash = <<a.function, Types(e)>>
<1>2. a.kind = "contract_call" /\ i \in DOMAIN run.actions
  BY DEF Sent
<1>3. EvaluateMatch(spec.on, ContextOf(run, i)) <=>
         (\A t \in Option(spec.on, "target") : AddrEq(t, a.address)) /\ carried
  <2>1. EvaluateMatch(spec.on, ContextOf(run, i)) <=>
           /\ \A t \in Option(spec.on, "target") : AddrEq(t, a.address)
           /\ \A x \in Option(spec.on, "selector") : SelectorMatches(x, a.abi, a.function)
    BY <1>1, <1>2, CallMatches
  <2>2. SelectorMatches(s, a.abi, a.function) <=> carried
    <3> HIDE DEF e
    <3>1. QED
      BY <1>1, HexMatches
  <2>3. QED
    BY <1>1, <2>1, <2>2, OptionHolds
<1> HIDE DEF e, carried
<1>4. ASSUME taken PROVE carried
  <2>1. Taken(run, i, j)
    BY <1>4, CapturedFields
  <2>2. QED
    BY <2>1, <1>3 DEF Taken
<1>5. ASSUME carried, Sought(run, spec, a) PROVE taken
  <2>1. PICK k \in DOMAIN spec.capture : IsTxHash(spec.capture[k])
    BY <1>5 DEF Sought
  <2>2. EvaluateExpr(spec.capture[k], ContextOf(run, i)).ok
    BY <2>1, HashIs
  <2>3. k \in DOMAIN FieldsOf(run, i, j)
    BY <2>1, <2>2 DEF FieldsOf, EvaluateCapture
  <2>4. Taken(run, i, j)
    BY <1>2, <1>3, <1>5, <2>3 DEF Taken, Sought
  <2>5. QED
    BY <1>5, <2>4, TakenIsCaptured DEF Sought
<1>6. QED
  BY <1>4, <1>5 DEF carried, e

(* args.name is the argument that was sent under the name.                 *)
LEMMA ArgumentIs ==
  ASSUME NEW run, NEW i \in Sent(run), NEW e, e.form = "name",
         LET a == run.actions[i]
         IN  /\ IsList(a.abi) /\ \A n \in DOMAIN a.abi : IsList(a.abi[n].inputs)
             /\ Len(OverloadsOf(a)) = 1,
         EvaluateExpr(e, ContextOf(run, i)).ok
  PROVE  LET a == run.actions[i]
             x == Encoded(a)
         IN  \E n \in DOMAIN x.inputs :
                x.inputs[n].name = e.name /\ EvaluateExpr(e, ContextOf(run, i)).val = a.args[n]
<1> DEFINE a == run.actions[i]
           value == EvaluateExpr(e, ContextOf(run, i))
           names == AbiInputNames(a.abi, a.function)
           sent == Encoded(a)
           over == OverloadsOf(a)
<1>1. a.kind = "contract_call" /\ SentEntry(a) # {}
  BY DEF Sent
<1>2. value = EvalArgsFrom(e, a.args, names)
  <2>1. ContextOf(run, i).action = a
    BY DEF ContextOf
  <2> HIDE DEF a
  <2>2. EvaluateExpr(e, ContextOf(run, i)) = EvalArgs(e, a)
    BY <2>1 DEF EvaluateExpr
  <2>3. QED
    BY <1>1, <2>2 DEF EvalArgs
<1>3. /\ IsList(a.abi) /\ \A n \in DOMAIN a.abi : IsList(a.abi[n].inputs)
      /\ Len(over) = 1 /\ value.ok
  OBVIOUS
<1> HIDE DEF a, value, names, sent, over
<1>4. PICK ns \in names : TRUE
  BY <1>2, <1>3 DEF EvalArgsFrom, No
<1>5. PICK x \in FirstNamed(a.abi, a.function) : ns = [n \in DOMAIN x.inputs |-> x.inputs[n].name]
  BY <1>4 DEF names, AbiInputNames
<1>6. names = {ns}
  <2>1. FirstNamed(a.abi, a.function) = {x}
    BY <1>5 DEF FirstNamed
  <2>2. QED
    BY <1>5, <2>1 DEF names, AbiInputNames
<1>7. PICK m \in Functions(a) : x = a.abi[m]
  BY <1>3, FirstNamedIs
<1>8. sent = x
  <2>1. /\ over \in Seq({a.abi[n] : n \in DOMAIN a.abi})
        /\ \A n \in Functions(a) : Holds(over, a.abi[n])
    BY <1>3, KeptHolds DEF over, OverloadsOf, Functions
  <2>2. over[1] = x
    BY <1>3, <1>7, <2>1 DEF Holds
  <2>3. PICK n \in DOMAIN over : SentEntry(a) = {over[n]}
    BY <1>1, <1>3, EntryIs DEF over
  <2>4. SentEntry(a) = {x}
    BY <1>3, <2>1, <2>2, <2>3
  <2>5. QED
    BY <2>4 DEF sent, Encoded
<1> DEFINE at == {n \in DOMAIN ns : ns[n] = e.name}
<1>9. at # {} /\ value = At1(a.args, DOMAIN a.args, Min(at))
  <2>1. (CHOOSE s \in names : TRUE) = ns
    BY <1>6
  <2>2. QED
    BY <1>2, <1>3, <1>6, <2>1 DEF EvalArgsFrom, No
<1>10. at \in SUBSET Nat /\ DOMAIN ns = DOMAIN x.inputs
  <2>1. IsList(x.inputs)
    BY <1>3, <1>7 DEF Functions
  <2>2. DOMAIN x.inputs \in SUBSET Nat
    BY <2>1 DEF IsList
  <2>3. DOMAIN ns = DOMAIN x.inputs
    BY <1>5
  <2>4. QED
    BY <2>2, <2>3
<1>11. Min(at) \in at
  <2> HIDE DEF at
  <2>1. QED
    BY <1>9, <1>10, MinIn
<1>12. value.val = a.args[Min(at)]
  BY <1>3, <1>9 DEF At1, Yes, No
<1>13. Min(at) \in DOMAIN x.inputs /\ x.inputs[Min(at)].name = e.name
  BY <1>5, <1>10, <1>11
<1>14. QED
  BY <1>8, <1>12, <1>13 DEF a, value, sent

(* A sweep, with the three properties it is about.                         *)
LEMMA CaptureStep == ASSUME CaptureRun PROVE CapturesWhatIsSent'
<1>1. PICK run \in CapturedRuns :
         doc' = [topic |-> "capture", run |-> run, rows |-> CaptureRecords(run)]
  BY DEF CaptureRun, Enter
<1> DEFINE rows == CaptureRecords(run)
<1>2. doc'.topic = "capture" /\ doc'.run = run /\ doc'.rows = rows
  BY <1>1
<1>3. IsRun(run)
  BY RequestsAssumption DEF IsRun
<1>4. \A i \in Sent(run) :
         LET a == run.actions[i]
         IN  /\ i \in DOMAIN run.actions /\ SentEntry(a) # {}
             /\ IsList(a.abi) /\ \A n \in DOMAIN a.abi : IsList(a.abi[n].inputs)
  BY RequestsAssumption DEF Sent
<1> HIDE DEF rows
<1>5. SelectorsAgree'
  <2>1. NamesDiffer(run) =>
          \A i \in Sent(run), j \in DOMAIN run.specs : SelectorAgrees(run, rows, i, run.specs[j])
    BY <1>3, SelectorsOf DEF rows
  <2>2. QED
    BY <1>2, <2>1 DEF SelectorsAgree
<1>6. ArgumentsAgree'
  <2>1. ASSUME NamesDiffer(run), NEW i \in Sent(run), NEW j \in DOMAIN run.specs
        PROVE  ArgumentAgrees(run, rows, i, run.specs[j])
    <3>1. SUFFICES ASSUME Len(OverloadsOf(run.actions[i])) = 1,
                          NEW f \in CapturedBy(rows, i, run.specs[j].name),
                          NEW k \in DOMAIN run.specs[j].capture,
                          k \in DOMAIN f, run.specs[j].capture[k].form = "name"
          PROVE LET a == run.actions[i]
                IN  \E n \in DOMAIN Encoded(a).inputs :
                       /\ Encoded(a).inputs[n].name = run.specs[j].capture[k].name
                       /\ f[k] = a.args[n]
      BY DEF ArgumentAgrees
    <3> DEFINE value == EvaluateExpr(run.specs[j].capture[k], ContextOf(run, i))
    <3>2. f = FieldsOf(run, i, j)
      BY <2>1, <3>1, <1>3, CapturedFields DEF rows
    <3>3. value.ok /\ f[k] = value.val
      BY <3>1, <3>2, FieldIs
    <3>4. QED
      BY <3>1, <3>3, <1>4, ArgumentIs
  <2>2. QED
    BY <1>2, <2>1 DEF ArgumentsAgree
<1>7. HashesAgree'
  <2>1. ASSUME NamesDiffer(run), NEW i \in DOMAIN run.actions, NEW j \in DOMAIN run.specs
        PROVE  HashAgrees(run, rows, i, run.specs[j])
    <3>1. SUFFICES ASSUME NEW f \in CapturedBy(rows, i, run.specs[j].name),
                          NEW k \in DOMAIN run.specs[j].capture,
                          k \in DOMAIN f, IsTxHash(run.specs[j].capture[k])
          PROVE LET own == {x \in run.execs : x.index = i}
                IN  IF own = {} THEN f[k] = "null" ELSE \E x \in own : f[k] = x.hash
      BY DEF HashAgrees
    <3> DEFINE value == EvaluateExpr(run.specs[j].capture[k], ContextOf(run, i))
    <3>2. f = FieldsOf(run, i, j)
      BY <2>1, <3>1, <1>3, CapturedFields DEF rows
    <3>3. value.ok /\ f[k] = value.val
      BY <3>1, <3>2, FieldIs
    <3>4. QED
      BY <3>1, <3>3, HashIs
  <2>2. QED
    BY <1>2, <2>1 DEF HashesAgree
<1>8. QED
  BY <1>5, <1>6, <1>7 DEF CapturesWhatIsSent

(* Whatever the run, and whatever the ABIs of its calls, what a spec       *)
(* captures of an action is what was sent with it.                         *)
THEOREM CapturesAreSent == SpecRequests => []CapturesWhatIsSent
<1>1. Unread => CapturesWhatIsSent
  BY DEF Unread, CapturesWhatIsSent, SelectorsAgree, ArgumentsAgree, HashesAgree
<1>2. CapturesWhatIsSent /\ [NextRequest]_doc => CapturesWhatIsSent'
  <2>1. CASE CaptureRun
    BY <2>1, CaptureStep
  <2>2. CASE NextRead
    <3>1. doc'.topic # "capture"
      BY <2>2, ReadTopics DEF NextRead
    <3>2. QED
      BY <3>1 DEF CapturesWhatIsSent, SelectorsAgree, ArgumentsAgree, HashesAgree
  <2>3. ASSUME CapturesWhatIsSent, UNCHANGED doc PROVE CapturesWhatIsSent'
    BY <2>3 DEF CapturesWhatIsSent, SelectorsAgree, ArgumentsAgree, HashesAgree
  <2>4. QED
    BY <2>1, <2>2, <2>3 DEF NextRequest
<1>3. QED
  BY <1>1, <1>2, PTL DEF SpecRequests
=============================================================================
