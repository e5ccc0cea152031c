----------------------------- MODULE NodeReads -----------------------------
(***************************************************************************)
(* What a strategy reads of the node's history: the block a read is pinned *)
(* to (strategy-js/src/sandbox.rs) and eth_getLogs (executor-evm read.rs). *)
(* A JavaScript value is a record whose field t is its type; a text is     *)
(* "text" with its content, or "decimal" / "hex" with the number it        *)
(* spells.                                                                 *)
(***************************************************************************)
EXTENDS Doc, Integers, Sequences, FiniteSets, FiniteSetsExt

CONSTANTS
    WordMax,      \* u64::MAX (and usize::MAX): where `as u64` saturates
    MaxLogs,      \* 5000, GET_LOGS_MAX_RESULTS
    NodeLogs,     \* the logs of a node, in order
    BlockRanges,  \* the blockTag, fromBlock and toBlock of a log query
    Topics,       \* JSON topic lists
    HeadBlock     \* the node's newest block

Ok(v) == [ok |-> TRUE, val |-> v]
Fail(why) == [ok |-> FALSE, err |-> why]

Null == [t |-> "null"]
IsNullish(v) == v.t \in {"undefined", "null"}
IsString(v) == v.t \in {"text", "decimal", "hex"}

(***************************************************************************)
(* Numbers.  A JS number is an "int" (fits i32) or a "float" with its      *)
(* integer part n, whether it has a fraction and whether it is finite.     *)
(***************************************************************************)
IsNumber(v) == v.t \in {"int", "float"}
IsFinite(v) == v.t = "int" \/ v.finite
IsWhole(v) == v.t = "int" \/ ~v.frac
Saturate(n) == Min({n, WordMax})

NonNegativeWhole(v) ==
    IsNumber(v) /\ IsFinite(v) /\ v.n >= 0 /\ IsWhole(v)

ASSUME NodeReadsAssumption ==
    /\ WordMax \in Nat /\ MaxLogs \in Nat /\ HeadBlock \in Nat
    /\ \A chain \in NodeLogs :
          /\ chain \in Seq({chain[i] : i \in DOMAIN chain})
          /\ \A i \in DOMAIN chain : chain[i].block \in Nat
          /\ \A i, j \in DOMAIN chain : i < j => chain[i].block <= chain[j].block
    /\ \A raw \in BlockRanges : \A v \in {raw.blockTag, raw.fromBlock, raw.toBlock} :
          IsNumber(v) /\ IsFinite(v) => v.n \in Int
    /\ \A topics \in Topics : topics \in Seq({topics[i] : i \in DOMAIN topics})

(***************************************************************************)
(* Block tags.  readContract and the token reads truncate a fractional     *)
(* block number; getLogs refuses it, and also takes hex strings and three  *)
(* more names.                                                             *)
(***************************************************************************)
Named(s) == [t |-> "text", s |-> s]
AtBlock(n) == [t |-> "int", n |-> n]

ParseBlockTag(v) ==
    CASE v.t = "text" /\ v.s \in {"latest", "pending"} -> Ok(v)
      [] v.t = "decimal" /\ v.n \in 0..WordMax -> Ok(AtBlock(v.n))
      [] IsNumber(v) /\ IsFinite(v) /\ v.n >= 0 -> Ok(AtBlock(Saturate(v.n)))
      [] OTHER -> Fail("block_tag")

BlockTagOrLatest(v) ==
    IF IsNullish(v) THEN Ok(Named("latest")) ELSE ParseBlockTag(v)

ParseLogBlockTag(v) ==
    CASE v.t = "text" /\ v.s \in {"latest", "pending", "earliest", "finalized", "safe"}
           -> Ok(v)
      [] v.t \in {"decimal", "hex"} /\ v.n \in 0..WordMax -> Ok(AtBlock(v.n))
      [] NonNegativeWhole(v) -> Ok(AtBlock(Saturate(v.n)))
      [] OTHER -> Fail("block_tag")

\* The block range of a log filter: blockTag pins both ends.
BlockRange(f) ==
    LET end(v, default) == IF IsNullish(v) THEN Ok(Named(default)) ELSE ParseLogBlockTag(v)
        pinned == ParseLogBlockTag(f.blockTag)
        from   == end(f.fromBlock, "earliest")
        to     == end(f.toBlock, "latest")
    IN  IF ~IsNullish(f.blockTag)
        THEN IF pinned.ok THEN Ok(<<pinned.val, pinned.val>>) ELSE pinned
        ELSE IF ~from.ok THEN from
        ELSE IF ~to.ok THEN to ELSE Ok(<<from.val, to.val>>)

(***************************************************************************)
(* eth_getLogs.  A topic slot is the set of topics it accepts, {} for any. *)
(* A null inside a list of alternatives is skipped.                        *)
(***************************************************************************)
TopicSlot(v) ==
    CASE v.k = "null" -> Ok({})
      [] v.k = "topic" -> Ok({v.n})
      [] v.k = "list" ->
           IF \E i \in DOMAIN v.items : v.items[i].k \notin {"null", "topic"}
           THEN Fail("get_logs_topic_shape")
           ELSE Ok({v.items[i].n : i \in {j \in DOMAIN v.items : v.items[j].k = "topic"}})
      [] OTHER -> Fail("get_logs_topic_shape")

Matches(log, f) ==
    /\ \E i \in DOMAIN f.addresses : log.address = f.addresses[i]
    /\ log.block \in f.from..f.to
    /\ \A i \in DOMAIN f.topics :
          f.topics[i] # {} => i \in DOMAIN log.topics /\ log.topics[i] \in f.topics[i]

\* Of the first n members of a list, the ones at the positions P.
Kept(s, P) ==
    LET kept[n \in 0..Len(s)] ==
            IF n = 0 THEN <<>>
            ELSE IF n \in P THEN Append(kept[n - 1], s[n]) ELSE kept[n - 1]
    IN  kept

\* chain is the node's log, in order.
Hits(chain, f) == Kept(chain, {n \in DOMAIN chain : Matches(chain[n], f)})

GetLogs(chain, f) ==
    LET hits == Hits(chain, f)[Len(chain)]
    IN  IF f.addresses = <<>> THEN Fail("get_logs_no_address")
        ELSE IF Len(f.topics) > 4 THEN Fail("get_logs_too_many_topics")
        ELSE IF Len(hits) > MaxLogs THEN Fail("get_logs_too_many") ELSE Ok(hits)

\* Names other than earliest are the node's head.
NodeBlock(tag) ==
    IF tag.t = "int" THEN tag.n ELSE IF tag.s = "earliest" THEN 0 ELSE HeadBlock

LogFilter(addresses, raw, topics) ==
    LET range == BlockRange(raw)
        slots == [i \in DOMAIN topics |-> TopicSlot(topics[i])]
        bad   == {i \in DOMAIN slots : ~slots[i].ok}
    IN  IF ~range.ok THEN range
        ELSE IF bad # {} THEN slots[Min(bad)]
        ELSE Ok([addresses |-> addresses, topics |-> [i \in DOMAIN slots |-> slots[i].val],
                 from |-> NodeBlock(range.val[1]), to |-> NodeBlock(range.val[2])])

QueryLogs == Blank /\ \E chain \in NodeLogs, addresses \in {<<>>, <<"watched">>}, topics \in Topics,
                raw \in BlockRanges :
    LET filter == LogFilter(addresses, raw, topics)
    IN  Enter([topic |-> "logs", chain |-> chain, raw |-> raw, filter |-> filter,
               answer |-> IF filter.ok THEN GetLogs(chain, filter.val) ELSE filter])

-----------------------------------------------------------------------------
(* A block that pins a read and is also accepted by getLogs is the same    *)
(* block there (parse_block_tag, parse_log_block_tag).                     *)
BlocksAgree ==
    doc.topic = "logs" /\ doc.filter.ok =>
        LET read == BlockTagOrLatest(doc.raw.blockTag)
        IN  ~IsNullish(doc.raw.blockTag) /\ read.ok =>
                /\ doc.filter.val.from = NodeBlock(read.val)
                /\ doc.filter.val.to = NodeBlock(read.val)

(* Logs are never cut: where a query over a range of blocks is answered,   *)
(* the two halves of the range are, and together give the same logs, so a  *)
(* strategy that splits a refused range loses nothing (read.rs get_logs).  *)
LogsSplit ==
    doc.topic = "logs" /\ doc.answer.ok =>
        LET f == doc.filter.val
        IN  \A m \in f.from..f.to - 1 :
                LET low  == GetLogs(doc.chain, [f EXCEPT !.to = m])
                    high == GetLogs(doc.chain, [f EXCEPT !.from = m + 1])
                IN  low.ok /\ high.ok /\ low.val \o high.val = doc.answer.val
=============================================================================
