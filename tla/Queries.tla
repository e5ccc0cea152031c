------------------------------ MODULE Queries ------------------------------
(***************************************************************************)
(* The read side of the MCP server (resources.rs) and the SQL it runs      *)
(* (runs.rs, journal.rs, records_capture.rs): URIs, query strings, lists   *)
(* with filters, the journal of a run, totals.  A table is a set of rows.  *)
(* Time is in seconds; a row's text is its second and a Z.                 *)
(***************************************************************************)
EXTENDS Integers, Sequences, FiniteSets, FiniteSetsExt, Functions

CONSTANTS
    ListCap,        \* 500, LIST_RUNS_LIMIT_CAP
    ListDefault,    \* 50, LIST_RUNS_DEFAULT_LIMIT
    HistoryCap,     \* 200, the cap of policy://history
    HistoryDefault, \* 20
    EventsCap,      \* 100, the events of a trigger
    Day,            \* seconds of the rollup window
    SumMax          \* u128::MAX

ASSUME QueriesAssumption ==
    /\ ListCap \in Nat \ {0} /\ ListDefault \in 1..ListCap
    /\ HistoryCap \in Nat \ {0} /\ HistoryDefault \in 1..HistoryCap
    /\ EventsCap \in Nat /\ Day \in Nat /\ SumMax \in Nat

Is(v) == [ok |-> TRUE, val |-> v]
IsNot(why) == [ok |-> FALSE, err |-> why]

Malformed == 0

(***************************************************************************)
(* A URI is its namespace, its segments ("id" in place of an identifier),  *)
(* the identifier and the pairs behind its "?".  An identifier that fails  *)
(* the shape check (64 hex digits, 26 letters and digits) is Malformed.    *)
(***************************************************************************)
TriggerRoute(segs) ==
    CASE segs = <<"list">> -> "trigger_list"
      [] Len(segs) = 2 /\ segs[2] = "events" -> "trigger_events"
      [] OTHER -> "trigger"

StrategyRoute(segs) ==
    IF segs = <<"list">> THEN "strategy_list"
    ELSE IF segs[1] = "by-name" /\ Len(segs) > 1 THEN "strategy_by_name"
    ELSE IF segs[1] = "lineage" /\ Len(segs) = 2 THEN "lineage_active"
    ELSE IF segs[1] = "lineage" /\ Len(segs) = 3 /\ segs[3] = "history" THEN "lineage_history"
    ELSE IF Len(segs) = 2 /\ segs[2] = "view" THEN "strategy_view"
    ELSE IF Len(segs) = 2 /\ segs[2] = "records" THEN "strategy_records"
    ELSE "strategy"

Singletons ==
    [policy |-> {"current", "history"}, portfolio |-> {""},
     runtime |-> {"status", "signals", "recent"},
     docs |-> {"policy-model", "eip-7702", "strategy-bundle", "trigger-model"}]

DispatchUri(ns, segs) ==
    CASE ns = "strategy" -> StrategyRoute(segs)
      [] ns = "trigger" -> TriggerRoute(segs)
      [] ns = "trigger-events" -> "trigger_events"
      [] ns = "execution" -> IF segs = <<"list">> THEN "execution_list" ELSE "execution"
      [] ns = "journal" -> "journal"
      [] ns = "examples" /\ segs[1] \in {"strategies", "contracts"} ->
           IF Len(segs) = 2 THEN "embedded"
           ELSE IF segs = <<"strategies">> THEN "examples_index" ELSE "unsupported"
      [] ns \in DOMAIN Singletons /\ Len(segs) = 1 /\ segs[1] \in Singletons[ns] -> ns
      [] OTHER -> "unsupported"

(***************************************************************************)
(* A query string is a sequence of pairs [key, val]; a value is garbled (a *)
(* bad escape), a word, a number or an RFC 3339 time [sec, suffix]: the    *)
(* second it writes and what follows it.  The last pair of a key counts.   *)
(***************************************************************************)
LastOf(q, key) ==
    LET at == {i \in DOMAIN q : q[i].key = key}
    IN  IF at = {} THEN {} ELSE {q[Max(at)].val}

PercentDecode(v) == IF v.t = "garbled" THEN IsNot("percent") ELSE Is(v)

\* Each pair is decoded, then looked up; Check has a last word on its value.
ParsePairs(q, keys, Check(_)) ==
    LET result(p) == IF ~PercentDecode(p.val).ok THEN IsNot("percent")
                     ELSE IF p.key \notin keys THEN IsNot("unknown_parameter")
                     ELSE IF Check(p) THEN Is(p) ELSE IsNot("bad_value")
        bad == {i \in DOMAIN q : ~result(q[i]).ok}
    IN  IF bad = {} THEN Is(q) ELSE result(q[Min(bad)])

IsTime(v) == v.t = "time"
IsCount(v) == v.t = "num" /\ v.n > 0
Word(v, words) == v.t = "word" /\ v.w \in words
Unchecked(p) == TRUE
Truthy(v) == Word(v, {"true", "1"})
Count(q, default, cap) ==
    Min({cap} \cup (IF LastOf(q, "limit") = {} THEN {default}
                    ELSE {v.n : v \in LastOf(q, "limit")}))

ParseExecutionListQuery(q) ==
    LET shape  == ParsePairs(q, {"strategy_id", "since", "status", "limit"}, Unchecked)
        status == {v.w : v \in LastOf(q, "status")}
    IN  IF ~shape.ok THEN shape
        ELSE IF ~\A v \in LastOf(q, "since") : IsTime(v) THEN IsNot("since")
        ELSE IF ~\A v \in LastOf(q, "status") : Word(v, {"succeeded", "failed", "noop"})
             THEN IsNot("status")
        ELSE IF ~\A v \in LastOf(q, "limit") : IsCount(v) THEN IsNot("limit")
        ELSE Is([strategy |-> {v.w : v \in LastOf(q, "strategy_id")},
                 since    |-> LastOf(q, "since"),
                 status   |-> status \ {"noop"},
                 outcome  |-> status \cap {"noop"},
                 limit    |-> Count(q, ListDefault, ListCap)])

ParseStrategyListQuery(q) ==
    LET check(p) == CASE p.key = "status" -> Word(p.val, {"active", "deleted", "all"})
                      [] p.key = "tag" -> p.val # [t |-> "word", w |-> ""]
                      [] p.key = "summary" -> Word(p.val, {"true", "1", "", "false", "0"})
        shape == ParsePairs(q, {"status", "tag", "summary"}, check)
    IN  IF ~shape.ok THEN shape
        ELSE Is([status  |-> IF LastOf(q, "status") = {} THEN "active"
                             ELSE (CHOOSE v \in LastOf(q, "status") : TRUE).w,
                 tag     |-> LastOf(q, "tag"),
                 summary |-> \A v \in LastOf(q, "summary") : Word(v, {"true", "1", ""})])

TriggerKind == {"manual", "interval", "log", "mempool", "block", "webhook"}

ParseTriggerListQuery(q) ==
    LET check(p) == CASE p.key = "kind" -> Word(p.val, TriggerKind)
                      [] p.key = "enabled" -> Word(p.val, {"true", "1", "false", "0"})
                      [] OTHER -> TRUE
        shape == ParsePairs(q, {"strategy_id", "kind", "enabled"}, check)
    IN  IF ~shape.ok THEN shape
        ELSE Is([strategy |-> {v.w : v \in LastOf(q, "strategy_id")},
                 kind     |-> {v.w : v \in LastOf(q, "kind")},
                 enabled  |-> {Truthy(v) : v \in LastOf(q, "enabled")}])

\* The one parser that does not decode and ignores what it does not know.
ParsePolicyHistoryQuery(q) ==
    IF \E i \in DOMAIN q : q[i].key = "limit" /\ ~IsCount(q[i].val) THEN IsNot("limit")
    ELSE Is([limit |-> Count(q, HistoryDefault, HistoryCap),
             body  |-> \E v \in LastOf(q, "include_body") : Truthy(v)])

ParseRecordsQuery(q) ==
    LET check(p) == p.key = "limit" => IsCount(p.val)
        shape == ParsePairs(q, {"since", "limit"}, check)
    IN  IF ~shape.ok THEN shape
        ELSE IF ~\A v \in LastOf(q, "since") : IsTime(v) THEN IsNot("since")
        ELSE Is([since |-> LastOf(q, "since"), limit |-> Count(q, ListCap, ListCap)])

(***************************************************************************)
(* ORDER BY: before is a strict order of the rows as a set of pairs, and   *)
(* the row at i has i - 1 rows before it.                                  *)
(***************************************************************************)
OrderBy(rows, before) ==
    [i \in 1..Cardinality(rows) |->
        CHOOSE r \in rows : Cardinality({s \in rows : <<s, r>> \in before}) = i - 1]

NewestFirst(rows) ==
    {p \in rows \X rows : p[1].at > p[2].at \/ (p[1].at = p[2].at /\ p[1].id > p[2].id)}

(***************************************************************************)
(* Lists.  `since` is compared as a text with the second and the Z of a    *)
(* row: of the characters that may follow the second, Z is the last.       *)
(***************************************************************************)
\* Slip: the bound is inclusive.
AfterSlip(sec, since) == sec >= since.sec

After(sec, since) == sec > since.sec \/ (sec = since.sec /\ since.suffix # "Z")

Newest(rows, limit) ==
    SubSeq(OrderBy(rows, NewestFirst(rows)), 1, Min({limit, Cardinality(rows)}))

ListRuns(runs, f) ==
    Newest({r \in runs : /\ \A s \in f.strategy : r.strategy = s
                         /\ \A t \in f.since : After(r.at, t)
                         /\ \A s \in f.status : r.status = s
                         /\ \A o \in f.outcome : o \in r.outcomes},
           Min({f.limit, ListCap}))

Everything == [strategy |-> {}, since |-> {}, status |-> {}, outcome |-> {}, limit |-> ListCap]

ReadExecutionList(runs, q) ==
    LET f == ParseExecutionListQuery(q)
    IN  IF f.ok THEN Is(ListRuns(runs, f.val)) ELSE f

ReadRuntimeRecent(runs) == ListRuns(runs, [Everything EXCEPT !.limit = ListDefault])

ListTriggers(triggers, f) ==
    {t \in triggers : /\ \A s \in f.strategy : t.strategy = s
                      /\ \A k \in f.kind : t.kind = k
                      /\ \A e \in f.enabled : t.enabled = e}

ReadTriggerList(triggers, q) ==
    LET f == ParseTriggerListQuery(q)
    IN  IF f.ok THEN Is(ListTriggers(triggers, f.val)) ELSE f

\* The flat form of the URI still answers, with less confidence.
ReadTriggerEvents(events, flat) ==
    [events |-> Newest(events, EventsCap), confidence |-> IF flat THEN "partial" ELSE "full"]

ReadPolicyHistory(revisions, q) ==
    LET f == ParsePolicyHistoryQuery(q)
    IN  IF f.ok THEN Is(Newest(revisions, f.val.limit)) ELSE f

ReadPolicyCurrent(active) ==
    IF active = {} THEN [loaded |-> FALSE, confidence |-> "missing"]
    ELSE [loaded |-> TRUE, confidence |-> "full"]

\* A captured row writes milliseconds behind its second, and "." is before
\* Z; a fraction of `since` is compared with them (an offset counts as -1).
CapturedAfter(r, since) ==
    r.at > since.sec \/ (r.at = since.sec /\ since.suffix # "Z" /\ r.ms > since.ms)

ListCaptures(rows, f) == Newest({r \in rows : \A t \in f.since : CapturedAfter(r, t)}, f.limit)

\* By lineage when the id is a row, by the id itself otherwise.
ReadStrategyRecords(strategies, rows, id, q) ==
    LET f    == ParseRecordsQuery(q)
        mine == IF \E s \in strategies : s.id = id
                THEN LET s == CHOOSE s \in strategies : s.id = id
                     IN  {r \in rows : r.lineage = s.lineage}
                ELSE {r \in rows : r.strategy = id}
    IN  IF id = Malformed THEN IsNot("malformed_strategy_id")
        ELSE IF ~f.ok THEN f
        ELSE Is(ListCaptures(mine, f.val))

(***************************************************************************)
(* The journal of a run: rows [at, seq] that the one writer numbers, read  *)
(* by time and number.                                                     *)
(***************************************************************************)
NextSeq(rows) == IF rows = {} THEN 0 ELSE Max({r.seq : r \in rows}) + 1
RecordAt(rows, at) == rows \cup {[at |-> at, seq |-> NextSeq(rows)]}

InTime(rows) ==
    {p \in rows \X rows : p[1].at < p[2].at \/ (p[1].at = p[2].at /\ p[1].seq < p[2].seq)}
ListForRun(rows) == OrderBy(rows, InTime(rows))

ReadJournal(runs, rows, id) ==
    IF id = Malformed THEN IsNot("malformed_run_id")
    ELSE IF ~\E r \in runs : r.id = id THEN IsNot("run_not_found")
    ELSE Is(ListForRun(rows[id]))

(***************************************************************************)
(* Totals: the last day of runs, and the sums of captured fields.          *)
(***************************************************************************)
FailedStatus == {"failed", "simulation_denied", "policy_denied", "canceled"}
StatusCount(list, S) == Cardinality({i \in DOMAIN list : list[i].status \in S})
Today(now) == [t |-> "time", sec |-> now - Day, suffix |-> "Z"]

LastDay(runs, now) ==
    LET day  == [Everything EXCEPT !.since = {Today(now)}]
        list == ListRuns(runs, day)
    IN  [runs      |-> Len(list),
         succeeded |-> StatusCount(list, {"succeeded"}),
         failed    |-> StatusCount(list, FailedStatus),
         noop      |-> Len(ListRuns(runs, [day EXCEPT !.outcome = {"noop"}]))]

\* strategy://list: one window per listed version, triggers by lineage.
ReadStrategyList(strategies, triggers, runs, now, q) ==
    LET f    == ParseStrategyListQuery(q)
        rows == {s \in strategies :
                    /\ f.val.status = "active" => ~s.deleted
                    /\ f.val.status = "deleted" => s.deleted
                    /\ \A t \in f.val.tag : t.w \in s.tags}
        day(s) == LastDay({r \in runs : r.strategy = s.id}, now)
    IN  IF ~f.ok THEN f
        ELSE Is([rows |-> {[id    |-> s.id,
                            kinds |-> {t.kind : t \in {t \in triggers : t.lineage = s.lineage}},
                            day   |-> day(s)] : s \in rows},
                 confidence |-> IF f.val.summary /\ rows # {} /\ \A s \in rows : day(s).runs = 0
                                THEN "partial" ELSE "full"])

(***************************************************************************)
(* The runtime plane.  A probe ends "ok", in an error or at its timeout;   *)
(* the balance is asked for where the chain id came.                       *)
(***************************************************************************)
EnabledOf(triggers, kind) ==
    {t \in ListTriggers(triggers, [strategy |-> {}, kind |-> {}, enabled |-> {TRUE}]) : t.kind = kind}

Latest(S) == IF S = {} THEN {} ELSE {Max(S)}

RpcProbe(provider, chain, balance) ==
    IF provider = "none" THEN [ok |-> FALSE, balance |-> FALSE, partial |-> FALSE, missing |-> TRUE]
    ELSE [ok |-> chain = "ok", balance |-> chain = "ok" /\ balance = "ok",
          partial |-> ~(chain = "ok" /\ balance = "ok"), missing |-> FALSE]

ReadRuntimeStatus(provider, chain, balance, resolved, triggers, runs, now) ==
    LET probe == RpcProbe(provider, chain, balance)
        watcher(kind) ==
            [running |-> EnabledOf(triggers, kind) # {},
             last    |-> Latest(UNION {t.fired : t \in EnabledOf(triggers, kind)})]
    IN  [rpc_ok |-> probe.ok, burner_balance |-> probe.balance, chain_id |-> resolved,
         mempool |-> watcher("mempool"), log |-> watcher("log"),
         active_triggers |-> Cardinality({t \in triggers : t.enabled}),
         last_24h |-> LastDay(runs, now),
         confidence |-> IF probe.missing THEN "missing"
                        ELSE IF probe.partial \/ ~resolved THEN "partial" ELSE "full"]

\* The union of both address lists of every enabled mempool trigger.
ReadRuntimeSignals(triggers) ==
    LET last(kind) == Latest(UNION {t.fired : t \in EnabledOf(triggers, kind)})
    IN  [watched |-> UNION {t.to_address \cup t.from_address : t \in EnabledOf(triggers, "mempool")},
         mempool |-> last("mempool"), log |-> last("log"), confidence |-> "partial"]

ActiveIn(strategies, l) == {s \in strategies : s.lineage = l /\ ~s.deleted}

ReadLineageActive(strategies, l) ==
    IF ActiveIn(strategies, l) = {} THEN IsNot("lineage_no_active_version")
    ELSE Is(CHOOSE s \in ActiveIn(strategies, l) : TRUE)

\* Versions are numbered by the second of their insertion.
VersionForId(strategies, s) ==
    Cardinality({r \in strategies : r.lineage = s.lineage /\ r.at <= s.at})

ReadLineageHistory(strategies, l) ==
    LET mine == {s \in strategies : s.lineage = l}
    IN  IF mine = {} THEN IsNot("lineage_not_found")
        ELSE Is({[id |-> s.id, version |-> VersionForId(strategies, s), active |-> ~s.deleted] :
                    s \in mine})

ReadStrategyByName(strategies, name) ==
    IF \E s \in strategies : s.name = name /\ ~s.deleted
    THEN Is(CHOOSE s \in strategies : s.name = name /\ ~s.deleted)
    ELSE IsNot("strategy_not_found")

ReadStrategy(strategies, id) ==
    IF id = Malformed THEN IsNot("malformed_strategy_id")
    ELSE IF ~\E s \in strategies : s.id = id THEN IsNot("strategy_not_found")
    ELSE Is(CHOOSE s \in strategies : s.id = id)

ReadTrigger(triggers, id) ==
    IF \E t \in triggers : t.id = id THEN Is(CHOOSE t \in triggers : t.id = id)
    ELSE IsNot("trigger_not_found")

\* The rows of the executions, by index; the signer is the first row's.
BuildExecutionReport(runs, execs, id) ==
    LET mine == {x \in execs : x.run = id}
        rows == OrderBy(mine, {p \in mine \X mine : p[1].index < p[2].index})
    IN  IF ~\E r \in runs : r.id = id THEN IsNot("not_found")
        ELSE Is([run |-> CHOOSE r \in runs : r.id = id, actions |-> rows,
                 signer |-> IF rows = <<>> THEN {} ELSE {rows[1].signer}])

ReadExecution(runs, execs, id) ==
    LET report == BuildExecutionReport(runs, execs, id)
    IN  IF id = Malformed THEN IsNot("malformed_run_id")
        ELSE IF ~report.ok THEN IsNot("run_not_found")
        ELSE report

\* Captured values, by their places: a decimal text or a number counts,
\* anything else (or a sum beyond u128) leaves the field without a sum.
SumDecimalStrings(vals) ==
    LET sum == FoldFunction(+, 0, [i \in DOMAIN vals |-> vals[i].n])
    IN  IF DOMAIN vals = {} \/ (\E i \in DOMAIN vals : vals[i].t # "num") \/ sum > SumMax
        THEN {} ELSE {sum}

\* The records a view function is handed, newest first, up to the cap.
AggregateRecords(list, name, field) ==
    LET mine == {i \in DOMAIN list : list[i].name = name}
        with == {i \in mine : field \in DOMAIN list[i].fields}
    IN  [count |-> Cardinality(mine),
         sums  |-> SumDecimalStrings([i \in with |-> list[i].fields[field]])]

(***************************************************************************)
(* dispatch_uri as a whole: db holds the tables, the present second, the   *)
(* provider and its two probes.  The routes of Elsewhere are answered by   *)
(* the dashboard or from texts compiled into the server.                   *)
(***************************************************************************)
Elsewhere == {"strategy_view", "portfolio", "examples_index", "embedded", "docs"}

ServeStrategy(db, route, uri) ==
    CASE route = "strategy_list" ->
           ReadStrategyList(db.strategies, db.triggers, db.runs, db.now, uri.q)
      [] route = "strategy_by_name" -> ReadStrategyByName(db.strategies, uri.id)
      [] route = "lineage_active"   -> ReadLineageActive(db.strategies, uri.id)
      [] route = "lineage_history"  -> ReadLineageHistory(db.strategies, uri.id)
      [] route = "strategy_records" ->
           ReadStrategyRecords(db.strategies, db.captures, uri.id, uri.q)
      [] OTHER -> ReadStrategy(db.strategies, uri.id)

ServeRuntime(db, segs) ==
    CASE segs = <<"status">> ->
           ReadRuntimeStatus(db.provider, db.chain, db.balance, db.resolved,
                             db.triggers, db.runs, db.now)
      [] segs = <<"signals">> -> ReadRuntimeSignals(db.triggers)
      [] OTHER -> ReadRuntimeRecent(db.runs)

Serve(db, uri) ==
    LET route == DispatchUri(uri.ns, uri.segs)
    IN  CASE uri.ns = "strategy" /\ route \notin Elsewhere -> ServeStrategy(db, route, uri)
          [] route = "policy" -> IF uri.segs = <<"current">> THEN Is(ReadPolicyCurrent(db.active))
                                 ELSE ReadPolicyHistory(db.revisions, uri.q)
          [] route = "trigger_list" -> ReadTriggerList(db.triggers, uri.q)
          [] route = "trigger_events" ->
               Is(ReadTriggerEvents({e \in db.events : e.trigger = uri.id}, uri.ns # "trigger"))
          [] route = "trigger" -> ReadTrigger(db.triggers, uri.id)
          [] route = "runtime" -> Is(ServeRuntime(db, uri.segs))
          [] route = "journal" -> ReadJournal(db.runs, db.journal, uri.id)
          [] route = "execution_list" -> ReadExecutionList(db.runs, uri.q)
          [] route = "execution" -> ReadExecution(db.runs, db.execs, uri.id)
          [] route \in Elsewhere -> Is(route)
          [] OTHER -> IsNot("unsupported_resource_uri")
=============================================================================
