------------------------------- MODULE Reads -------------------------------
(***************************************************************************)
(* What is read of the server and of the node: a poll of the execution     *)
(* list, the journal of a run, any resource, the records a view sums, the  *)
(* logs of a range of blocks.                                              *)
(***************************************************************************)
EXTENDS Queries, NodeReads

CONSTANTS
    Histories,    \* the seconds at which runs start, in order
    Databases,    \* tables of the store
    Captures,     \* captured rows of one lineage
    Uris(_)       \* the URIs an agent reads of a database

\* A table of rows with an id each.
IsTableOf(rows) ==
    /\ IsFiniteSet(rows)
    /\ \A r, s \in rows : r.id = s.id => r = s

\* ... that are listed newest first.
IsDated(rows) == IsTableOf(rows) /\ \A r \in rows : r.id \in Int /\ r.at \in Int

ASSUME ReadsAssumption ==
    /\ \A times \in Histories :
          /\ times \in Seq(Nat)
          /\ \A i, j \in DOMAIN times : i < j => times[i] <= times[j]
    /\ \A db \in Databases :
          /\ IsDated(db.runs) /\ db.now \in Int
          /\ \A r \in db.runs \cup db.strategies : r.id # Malformed
          /\ \A uri \in Uris(db) :
                /\ uri.q \in Seq({uri.q[i] : i \in DOMAIN uri.q})
                /\ \A i \in DOMAIN uri.q : uri.q[i].val.t = "num" => uri.q[i].val.n \in Nat
    /\ \A rows \in Captures :
          /\ IsDated(rows)
          /\ \A r \in rows : "amount" \in DOMAIN r.fields /\ r.fields["amount"].t = "num" =>
                r.fields["amount"].n \in Nat

(***************************************************************************)
(* An agent lists the runs, later lists those since the newest it saw.     *)
(***************************************************************************)
Started(times) ==
    {[id |-> i, at |-> times[i], strategy |-> 1, status |-> "succeeded", outcomes |-> {}] :
        i \in DOMAIN times}

Limit(n) == [key |-> "limit", val |-> [t |-> "num", n |-> n]]
Since(sec, suffix) ==
    [key |-> "since", val |-> [t |-> "time", sec |-> sec, suffix |-> suffix]]

Poll == Blank /\ \E times \in Histories, limit \in 1..ListCap + 1, suffix \in {"Z", "fraction"} :
    \E before \in 1..Len(times) :
        LET first  == ReadExecutionList(Started(SubSeq(times, 1, before)), <<Limit(limit)>>).val
            since  == first[1].at
            second == ReadExecutionList(Started(times), <<Since(since, suffix), Limit(limit)>>).val
        IN  Enter([topic |-> "poll", times |-> times, limit |-> limit, suffix |-> suffix,
                   since |-> since, first |-> first, second |-> second])

\* The rows of the first n decisions of one run, recorded at these seconds.
Recorded(times) ==
    LET rows[n \in 0..Len(times)] ==
            IF n = 0 THEN {} ELSE RecordAt(rows[n - 1], times[n])
    IN  rows

Journal == Blank /\ \E times \in Histories :
    Enter([topic |-> "journal", times |-> times,
           list |-> ListForRun(Recorded(times)[Len(times)])])

ReadResource == Blank /\ \E db \in Databases : \E uri \in Uris(db) :
    Enter([topic |-> "resource", db |-> db, uri |-> uri, answer |-> Serve(db, uri)])

\* What strategy_view hands the view function of its captured rows.
SumRecords == Blank /\ \E rows \in Captures :
    Enter([topic |-> "total", rows |-> rows,
           answer |-> AggregateRecords(ListCaptures(rows, [since |-> {}, limit |-> ListCap]),
                                       "supply", "amount")])

NextRead == Poll \/ Journal \/ ReadResource \/ SumRecords \/ QueryLogs

SpecReads == Unread /\ [][NextRead]_doc

-----------------------------------------------------------------------------
Ids(list) == {list[i].id : i \in DOMAIN list}

(* No run is answered to both polls when the client repeats the second it  *)
(* was given, and a run is answered to neither only when it started in     *)
(* that very second or a page was full; a client that writes the second    *)
(* with a fraction misses none (runs.rs list_runs).                        *)
PollsMissNothing ==
    doc.topic = "poll" =>
        LET full   == Min({doc.limit, ListCap}) \in {Len(doc.first), Len(doc.second)}
            missed == DOMAIN doc.times \ (Ids(doc.first) \cup Ids(doc.second))
        IN  /\ doc.suffix = "Z" => Ids(doc.first) \cap Ids(doc.second) = {}
            /\ ~full => \A i \in missed : doc.suffix = "Z" /\ doc.times[i] = doc.since

(* The decisions of a run read back in the order they were made, several   *)
(* of them in one second included (journal.rs).                            *)
JournalInOrder ==
    doc.topic = "journal" =>
        doc.list = [i \in DOMAIN doc.times |-> [at |-> doc.times[i], seq |-> i - 1]]

(***************************************************************************)
(* The identifiers an answer holds and the URIs they are read with.        *)
(***************************************************************************)
At(ns, segs, id) == [ns |-> ns, segs |-> segs, id |-> id, q |-> <<>>]
IdsOf(rows) == {r.id : r \in rows}

Links(uri, answer) ==
    LET route == DispatchUri(uri.ns, uri.segs)
        each(ns, segs, ids) == {At(ns, segs, id) : id \in ids}
    IN  CASE route = "strategy_list"   -> each("strategy", <<"id">>, IdsOf(answer.rows))
          [] route = "lineage_history" -> each("strategy", <<"id">>, IdsOf(answer))
          [] route = "trigger_list"    -> each("trigger", <<"id">>, IdsOf(answer))
          [] route = "execution_list"  -> each("execution", <<"id">>, Ids(answer))
                                          \cup each("journal", <<"id">>, Ids(answer))
          [] OTHER -> {}

(* Every identifier a list answers can be read under its own URI: a        *)
(* deleted version, a run of a deleted strategy, a disabled trigger.       *)
LinksResolve ==
    doc.topic = "resource" /\ doc.answer.ok =>
        \A uri \in Links(doc.uri, doc.answer.val) : Serve(doc.db, uri).ok

InLastDay(db) == {r \in db.runs : r.at > db.now - Day}
Statuses(S, runs) == Cardinality({r \in runs : r.status \in S})

(* The totals of the last day are exact while it has fewer runs than the   *)
(* cap of a list; at the cap the number of runs is the cap and nothing     *)
(* says so.  No-ops are counted apart and never exceed the runs            *)
(* (read_runtime_status).                                                  *)
TotalsAreExact ==
    doc.topic = "resource" /\ doc.uri.ns = "runtime" /\ doc.uri.segs = <<"status">> =>
        LET day  == doc.answer.val.last_24h
            runs == InLastDay(doc.db)
        IN  /\ day.runs = Min({Cardinality(runs), ListCap})
            /\ day.noop <= day.runs
            /\ day.succeeded + day.failed <= day.runs
            /\ Cardinality(runs) <= ListCap =>
                  /\ day.succeeded = Statuses({"succeeded"}, runs)
                  /\ day.failed = Statuses(FailedStatus, runs)

Total(rows) == FoldFunction(+, 0, [r \in rows |-> r.fields.amount.n])

(* What a view function sums: with at most as many rows as the cap, the    *)
(* count is exact and a sum is there exactly when every value is a number  *)
(* and the total fits, and is that total (aggregate_records_for_view).     *)
SumsAreExact ==
    doc.topic = "total" /\ Cardinality(doc.rows) <= ListCap =>
        LET mine   == {r \in doc.rows : r.name = "supply"}
            amount == {r \in mine : "amount" \in DOMAIN r.fields}
            total  == Total(amount)
        IN  /\ doc.answer.count = Cardinality(mine)
            /\ doc.answer.sums =
                  IF amount = {} \/ (\E r \in amount : r.fields.amount.t # "num") \/ total > SumMax
                  THEN {} ELSE {total}

(* Nothing falls between two reads of the server or of a node's logs.      *)
ListsMissNothing ==
    /\ LogsSplit /\ PollsMissNothing /\ JournalInOrder
    /\ LinksResolve /\ TotalsAreExact /\ SumsAreExact
=============================================================================
