----------------------------- MODULE Dashboard -----------------------------
(***************************************************************************)
(* The read side of the dashboard: resources.rs read_portfolio, which      *)
(* renders the view of every active strategy one after the other, and the  *)
(* last-known-good cache of the renderings (read_strategy_view,            *)
(* view_cache.rs), while runs capture records and strategies are deleted.  *)
(* Every store call is a lock of its own; a rendering runs between two.    *)
(* The content of a view is the number of records it aggregated.           *)
(***************************************************************************)
EXTENDS Integers, FiniteSets, FiniteSetsExt

CONSTANTS
    Strategies,   \* ids, in the order in which the listing gives them
    Viewless,     \* those registered without a view function
    Deletable,    \* bound: those that are deleted meanwhile
    Declares,     \* the entries of $assets each view returns
    Tokens,       \* ERC20 candidates of the balance walk
    Portfolios,   \* requests for the portfolio
    Viewers,      \* requests for one view, strategy://{id}/view
    None,
    MaxPerStrategy,  \* 50, MAX_ASSETS_PER_STRATEGY
    MaxTotal,        \* 200, MAX_TOTAL_ASSETS
    MaxRecords       \* bound on the captured records

ASSUME StrategiesAssumption ==
    /\ Strategies \subseteq Nat /\ IsFiniteSet(Strategies)
    /\ Viewless \cup Deletable \subseteq Strategies
ASSUME DeclaresAssumption == Declares \in [Strategies -> Nat]
ASSUME NoneAssumption == None \notin Strategies /\ None \notin Nat
ASSUME BoundsAssumption ==
    /\ MaxRecords \in Nat /\ Tokens \in Nat
    /\ MaxPerStrategy \in Nat /\ MaxTotal \in Nat \ {0}

Readers == Portfolios \cup Viewers

VARIABLES
    active,    \* strategies not soft-deleted
    records,   \* records captured per strategy
    cache,     \* strategy_view_cache: None or what the cached body aggregates
    pc,        \* where the request is
    todo,      \* the listed strategies it has not read yet
    reading,   \* the strategy it renders
    seen,      \* the records its rendering aggregates
    got,       \* the envelopes it has
    answer,    \* its answer, None before
    base,      \* history: the records when its request came in
    best,      \* history: the most records in a row stored since the last drop
    flightLow, \* history: `best` when the rendering in flight began
    rowLow,    \* history: `best` when the rendering in the row began
    overtaken  \* history: more was stored while the rendering in the row went on

store  == <<active, records, cache>>
locals == <<todo, reading, seen, got>>
ghosts == <<base, best, flightLow, rowLow, overtaken>>
vars == <<store, pc, locals, answer, ghosts>>

Envelope == [confidence : {"full", "stale"}, seen : Nat]
            \cup [confidence : {"partial", "missing"}]

Init ==
    /\ active = Strategies
    /\ records = [s \in Strategies |-> 0]
    /\ cache = [s \in Strategies |-> None]
    /\ pc = [r \in Readers |-> "idle"]
    /\ todo = [r \in Readers |-> {}]
    /\ reading = [r \in Readers |-> None]
    /\ seen = [r \in Readers |-> 0]
    /\ got = [r \in Readers |-> [s \in Strategies |-> None]]
    /\ answer = [r \in Readers |-> None]
    /\ base = [r \in Readers |-> records]
    /\ best = [s \in Strategies |-> 0]
    /\ flightLow = [r \in Readers |-> 0]
    /\ rowLow = [s \in Strategies |-> 0]
    /\ overtaken = [s \in Strategies |-> FALSE]

-----------------------------------------------------------------------------
(* Step 1 of read_portfolio: the active strategies, under one lock.        *)
List(r) ==
    /\ r \in Portfolios /\ pc[r] = "idle"
    /\ pc' = [pc EXCEPT ![r] = "next"]
    /\ todo' = [todo EXCEPT ![r] = active]
    /\ base' = [base EXCEPT ![r] = records]
    /\ UNCHANGED <<store, reading, seen, got, answer, best, flightLow, rowLow, overtaken>>

\* The listing fails, and the request with it.
ListFails(r) ==
    /\ r \in Portfolios /\ pc[r] = "idle"
    /\ pc' = [pc EXCEPT ![r] = "done"]
    /\ UNCHANGED <<store, locals, answer, ghosts>>

(* A view may be asked for by any id, a deleted one too.                   *)
Open(r, s) ==
    /\ r \in Viewers /\ pc[r] = "idle"
    /\ pc' = [pc EXCEPT ![r] = "next"]
    /\ todo' = [todo EXCEPT ![r] = {s}]
    /\ UNCHANGED <<store, reading, seen, got, answer, ghosts>>

IsNext(r, s) == s \in todo[r] /\ \A t \in todo[r] : s <= t
Keep(r, s, envelope) ==
    /\ got' = [got EXCEPT ![r][s] = envelope]
    /\ pc' = [pc EXCEPT ![r] = "next"]
    /\ reading' = [reading EXCEPT ![r] = None]
    /\ seen' = [seen EXCEPT ![r] = 0]

(* read_strategy_view: row and records under one lock.  The lookup by id   *)
(* finds soft-deleted rows too.                                            *)
Snapshot(r, s) ==
    /\ pc[r] = "next" /\ IsNext(r, s) /\ s \notin Viewless
    /\ pc' = [pc EXCEPT ![r] = "render"]
    /\ todo' = [todo EXCEPT ![r] = @ \ {s}]
    /\ reading' = [reading EXCEPT ![r] = s]
    /\ seen' = [seen EXCEPT ![r] = records[s]]
    /\ flightLow' = [flightLow EXCEPT ![r] = best[s]]
    /\ UNCHANGED <<store, got, answer, base, best, rowLow, overtaken>>

NoView(r, s) ==
    /\ pc[r] = "next" /\ IsNext(r, s) /\ s \in Viewless
    /\ Keep(r, s, [confidence |-> "missing"])
    /\ todo' = [todo EXCEPT ![r] = @ \ {s}]
    /\ UNCHANGED <<store, answer, ghosts>>

\* A view that cannot be dispatched counts as a partial one without data.
SnapshotFails(r, s) ==
    /\ pc[r] = "next" /\ IsNext(r, s)
    /\ Keep(r, s, [confidence |-> "partial"])
    /\ todo' = [todo EXCEPT ![r] = @ \ {s}]
    /\ UNCHANGED <<store, answer, ghosts>>

\* The sandbox runs without a lock.
Render(r) ==
    /\ pc[r] = "render"
    /\ \E outcome \in {"store", "fallback"} : pc' = [pc EXCEPT ![r] = outcome]
    /\ UNCHANGED <<store, locals, answer, ghosts>>

\* Slip: INSERT OR IGNORE, a row that is there stays.
UpsertSlip(s, n) ==
    cache' = [cache EXCEPT ![s] = IF @ = None THEN n ELSE @]

Upsert(s, n) == cache' = [cache EXCEPT ![s] = n]

Full(r) == [confidence |-> "full", seen |-> seen[r]]

Store(r, s) ==
    /\ pc[r] = "store" /\ reading[r] = s
    /\ Upsert(s, seen[r])
    /\ Keep(r, s, Full(r))
    /\ best' = [best EXCEPT ![s] = Max({@, seen[r]})]
    /\ rowLow' = [rowLow EXCEPT ![s] = flightLow[r]]
    /\ overtaken' = [overtaken EXCEPT ![s] = best[s] > flightLow[r]]
    /\ UNCHANGED <<active, records, todo, answer, base, flightLow>>

\* A failed upsert is a warning; the view is answered all the same.
StoreFails(r, s) ==
    /\ pc[r] = "store" /\ reading[r] = s
    /\ Keep(r, s, Full(r))
    /\ UNCHANGED <<store, todo, answer, ghosts>>

Fallback(r, s) ==
    /\ pc[r] = "fallback" /\ reading[r] = s
    /\ Keep(r, s, IF cache[s] = None THEN [confidence |-> "partial"]
                  ELSE [confidence |-> "stale", seen |-> cache[s]])
    /\ UNCHANGED <<store, todo, answer, ghosts>>

\* Slip: a view whose cached row cannot be read is tried again.
FallbackFailsSlip(r, s) ==
    /\ pc[r] = "fallback" /\ reading[r] = s
    /\ pc' = [pc EXCEPT ![r] = "next"]
    /\ todo' = [todo EXCEPT ![r] = @ \cup {s}]
    /\ UNCHANGED <<store, reading, seen, got, answer, ghosts>>

FallbackFails(r, s) ==
    /\ pc[r] = "fallback" /\ reading[r] = s
    /\ Keep(r, s, [confidence |-> "partial"])
    /\ UNCHANGED <<store, todo, answer, ghosts>>

-----------------------------------------------------------------------------
(* run_balance_walk: the native balance, then the tokens until the cap.    *)
(* A token that cannot be read is left out like one with a zero balance,   *)
(* and the status stays what it was.                                       *)
Walks ==
    {[idle |-> 0, status |-> "no_provider"], [idle |-> 0, status |-> "rpc_error"]}
    \cup {w \in [idle : 0..MaxTotal, status : {"ok", "rpc_error"}] :
             w.idle \in (IF w.status = "ok" THEN 1..Tokens + 1 ELSE 0..Tokens)}
    \cup {w \in [idle : {MaxTotal}, status : {"truncated"}] : Tokens >= MaxTotal}

(* classify_strategy_health.  No view of this code is partial with data.   *)
\* Slip: last-known-good counts as healthy.
HealthSlip(e) ==
    CASE e.confidence \in {"full", "stale"} -> "healthy"
      [] e.confidence = "missing" -> "missing"
      [] OTHER -> "failed"

Health(e) ==
    CASE e.confidence = "full" -> "healthy"
      [] e.confidence = "stale" -> "stale"
      [] e.confidence = "missing" -> "missing"
      [] OTHER -> "failed"

Contributing(envelopes) ==
    {s \in Strategies : envelopes[s] # None /\ Health(envelopes[s]) \in {"healthy", "stale"}}

(* aggregate_strategy_assets: in the order of the listing, up to a cap per *)
(* strategy and one over all, which the idle balances use first.  The      *)
(* strategy at which the total is reached is the last one looked at.       *)
Entries(S) == {e \in S \X (1..MaxPerStrategy) : e[2] <= Declares[e[1]]}
Before(e, f) == e[1] < f[1] \/ (e[1] = f[1] /\ e[2] < f[2])
CountBefore(S, f) == Cardinality({e \in Entries(S) : Before(e, f)})

\* Slip: the total cap forgets the idle balances.
AggregateSlip(S, idle) ==
    [ assets    |-> {f \in Entries(S) : CountBefore(S, f) < MaxTotal},
      truncated |-> {s \in S : Declares[s] > MaxPerStrategy} ]

Aggregate(S, idle) ==
    [ assets    |-> {f \in Entries(S) : idle + CountBefore(S, f) < MaxTotal},
      truncated |-> {s \in S : /\ Declares[s] > MaxPerStrategy
                               /\ idle + CountBefore(S, <<s, 1>>) <= MaxTotal} ]

(* Step 7 of read_portfolio, the first rule that applies.                  *)
Confidence(envelopes, status) ==
    LET health == {Health(envelopes[s]) : s \in {s \in Strategies : envelopes[s] # None}}
    IN  IF health # {} /\ health \subseteq {"failed", "missing"} THEN "missing"
        ELSE IF "failed" \in health THEN "partial"
        ELSE IF "stale" \in health THEN "stale"
        ELSE IF status \in {"truncated", "rpc_error"} THEN "partial"
        ELSE "full"

(* Steps 3 to 7: the walk, the aggregation and the answer.                 *)
Answer(r) ==
    /\ r \in Portfolios /\ pc[r] = "next" /\ todo[r] = {}
    /\ pc' = [pc EXCEPT ![r] = "done"]
    /\ \E w \in Walks :
          LET S      == Contributing(got[r])
              merged == Aggregate(S, w.idle)
              status == IF merged.assets # Entries(S) THEN "truncated" ELSE w.status
          IN  answer' = [answer EXCEPT ![r] =
                 [ confidence |-> Confidence(got[r], status), status |-> status,
                   idle |-> w.idle, assets |-> merged.assets,
                   truncated |-> merged.truncated ]]
    /\ UNCHANGED <<store, locals, ghosts>>

AnswerView(r) ==
    /\ r \in Viewers /\ pc[r] = "next" /\ todo[r] = {}
    /\ pc' = [pc EXCEPT ![r] = "done"]
    /\ got' = [got EXCEPT ![r] = [s \in Strategies |-> None]]
    /\ UNCHANGED <<store, todo, reading, seen, answer, ghosts>>

-----------------------------------------------------------------------------
(* strategy_delete: the row of the cache goes first, best effort, then the *)
(* soft delete, both under one lock.                                       *)
DropCache(s) ==
    /\ cache' = [cache EXCEPT ![s] = None]
    /\ best' = [best EXCEPT ![s] = 0]

Delete(s) ==
    /\ s \in active \cap Deletable
    /\ DropCache(s) \/ UNCHANGED <<cache, best>>
    /\ active' = active \ {s}
    /\ UNCHANGED <<records, pc, locals, answer, base, flightLow, rowLow, overtaken>>

DeleteFails(s) ==
    /\ s \in active \cap Deletable
    /\ DropCache(s)
    /\ UNCHANGED <<active, records, pc, locals, answer, base, flightLow, rowLow, overtaken>>

(* A run captures a record (RunPipeline); only views read them.            *)
Capture(s) ==
    /\ s \in active \ Viewless /\ records[s] < MaxRecords
    /\ records' = [records EXCEPT ![s] = @ + 1]
    /\ UNCHANGED <<active, cache, pc, locals, answer, ghosts>>

Read(r) ==
    \/ List(r) \/ ListFails(r) \/ Render(r) \/ Answer(r) \/ AnswerView(r)
    \/ \E s \in Strategies :
          \/ Open(r, s) \/ Snapshot(r, s) \/ NoView(r, s) \/ SnapshotFails(r, s)
          \/ Store(r, s) \/ StoreFails(r, s) \/ Fallback(r, s) \/ FallbackFails(r, s)

Next ==
    \/ \E r \in Readers : Read(r)
    \/ \E s \in Strategies : Delete(s) \/ DeleteFails(s) \/ Capture(s)

Spec == Init /\ [][Next]_vars

(* A request is a task of the async runtime: it is polled while it is      *)
(* ready.  Nobody has to send a request.                                   *)
Proceed(r) == pc[r] # "idle" /\ Read(r)
Fairness == \A r \in Readers : WF_vars(Proceed(r))
FairSpec == Spec /\ Fairness

-----------------------------------------------------------------------------
TypeOK ==
    /\ active \subseteq Strategies
    /\ records \in [Strategies -> Nat]
    /\ cache \in [Strategies -> Nat \cup {None}]
    /\ pc \in [Readers -> {"idle", "next", "render", "store", "fallback", "done"}]
    /\ todo \in [Readers -> SUBSET Strategies]
    /\ reading \in [Readers -> Strategies \cup {None}]
    /\ seen \in [Readers -> Nat]
    /\ got \in [Readers -> [Strategies -> Envelope \cup {None}]]
    /\ best \in [Strategies -> Nat]
    /\ flightLow \in [Readers -> Nat]
    /\ rowLow \in [Strategies -> Nat]
    /\ overtaken \in [Strategies -> BOOLEAN]

(* The last-known-good row is the one with the most records of those       *)
(* stored since the last drop, so that a later failure never falls back    *)
(* behind an earlier success, unless a better one was stored while this    *)
(* one was rendered: the upsert does not look at what it replaces.  Even   *)
(* then the row is no older than what had been stored when its rendering   *)
(* began (read_strategy_view, view_cache.rs upsert).                       *)
StaleIsLatestGood ==
    \A s \in Strategies : cache[s] # None =>
        /\ ~overtaken[s] => cache[s] = best[s]
        /\ cache[s] >= rowLow[s]

(* A portfolio that says full rendered every listed view that there is, in *)
(* this request and from records no older than it, and its walk over the   *)
(* balances read the native one and was not cut, or there is no node.  It  *)
(* says nothing of tokens the walk could not read, nor of prices           *)
(* (read_portfolio's honesty envelope, classify_strategy_health).          *)
FullMeansRendered ==
    \A r \in Readers :
        answer[r] # None /\ answer[r].confidence = "full" =>
            /\ answer[r].status \in {"ok", "no_provider"}
            /\ \A s \in Strategies : got[r][s] # None =>
                  \/ s \in Viewless
                  \/ got[r][s].confidence = "full" /\ got[r][s].seen >= base[r][s]

(* No asset is dropped silently: the lists stay under the total cap, and   *)
(* where a declared entry of a contributing view is missing, the strategy  *)
(* is marked truncated or the portfolio does not say full                  *)
(* (aggregate_strategy_assets, run_balance_walk).                          *)
CutsAreTold ==
    \A r \in Readers : answer[r] # None =>
        LET a == answer[r]
        IN  /\ Cardinality(a.assets) + a.idle <= MaxTotal
            /\ \A s \in Contributing(got[r]) : \A i \in 1..Declares[s] :
                  \/ <<s, i>> \in a.assets
                  \/ s \in a.truncated
                  \/ a.confidence # "full"

(* Every request for the portfolio is answered, whatever views fail.       *)
PortfolioAnswers == \A r \in Readers : pc[r] = "next" ~> pc[r] = "done"
=============================================================================
