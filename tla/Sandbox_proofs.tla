---------------------------- MODULE Sandbox_proofs ----------------------------
(***************************************************************************)
(* Proofs about one invocation of a strategy, for any number of host calls,*)
(* any chain head and any set of pinned blocks.  Typing carries what a row *)
(* of the journal may claim of its block; Outcome carries the exception    *)
(* from the script to the answer; Ledger relates what the strategy did to  *)
(* what is still buffered and to what is written.                          *)
(***************************************************************************)
EXTENDS Sandbox, SequenceTheorems, WellFoundedInduction, TLAPS

(* A row of the journal.  A read is resolved by a later lookup of the head,*)
(* or by the number it was asked for.                                      *)
ReadRow ==
  {c \in [read : Nat, tag : Tag, seen : Nat, resolved : Nat \cup {None}] :
     c.resolved # None =>
       /\ c.resolved >= c.seen
       /\ c.tag \in Pinned => c.resolved = c.tag}

LogRow == [log : Nat]
Row == {Marker} \cup ReadRow \cup LogRow

Call == [read : Nat, binding : {"readContract", "readErc20", "balance", "blockNumber", "getLogs"},
         tag : Tag, seen : Nat \cup {None}]

Exception == {Plain} \cup EvmFailure \cup BuilderFailure \cup OwnThrow

Before == {"start", "script", "rpc", "resolve"}
Phase == Before \cup {"ended", "flush", "done"}

(* The lookup under way knows what the read saw: a head that has only      *)
(* moved on since, or the block that was asked for.                        *)
PendingOK ==
  /\ phase \in {"rpc", "resolve"} => pending \in Call
  /\ phase = "resolve" =>
       /\ pending.seen \in Nat
       /\ pending.tag = Latest => pending.seen <= head
       /\ pending.tag \in Pinned => pending.seen = pending.tag

Typing ==
  /\ phase \in Phase /\ head \in Nat
  /\ made \in Seq(Row) /\ reads \in Seq(Row) /\ logs \in Seq(Row)
  /\ host \in [reads : Seq(Row), logs : Seq(Row)]
  /\ db \in Seq(Row)
  /\ exn \in Exception \cup {None}
  /\ PendingOK

(* Nothing raises the flag and leaves an exception: where the script ended *)
(* with one in flight, the text alone decides.                             *)
Outcome ==
  /\ phase \in Before => timedOut = FALSE
  /\ phase \in {"start", "rpc", "resolve"} => exn = None
  /\ phase \in {"ended", "flush"} /\ exn # None =>
       timedOut = FALSE /\ result = ClassifyMessage(exn)
  /\ EvmKindSurvives

ReadsMade == CallsWith("seen", made)
LogsMade == CallsWith("log", made)

(* Where the rows of the invocation are.                                   *)
Buffered == reads = ReadsMade /\ logs = LogsMade /\ db = <<>> /\ host = NoHost
Drained == host.reads = ReadsMade /\ host.logs = LogsMade
Rest == host.reads \o host.logs

Ledger ==
  /\ phase \in Before \cup {"ended"} => Buffered /\ flushFailed = FALSE
  /\ phase = "flush" /\ ~flushFailed =>
       IF db = <<>> THEN Drained ELSE Expected = db \o Rest
  /\ phase = "flush" /\ flushFailed => host = NoHost
  /\ phase \in {"flush", "done"} => IsPrefix(db, Expected)
  /\ phase = "done" => CompleteUnlessFlushFailed

IInv == Typing /\ Outcome /\ Ledger
-----------------------------------------------------------------------------
(* The rows of one kind, as a recursive function of the number of calls.   *)
KeptAt(f, field, calls, n) ==
  IF n = 0 THEN <<>>
  ELSE IF field \in DOMAIN calls[n] THEN Append(f[n - 1], calls[n])
  ELSE f[n - 1]

Keeps(f, field, calls, k) == f = [n \in 0..k |-> KeptAt(f, field, calls, n)]

LEMMA LeastNat ==
  ASSUME NEW T \in SUBSET Nat, T # {}
  PROVE  \E x \in T : \A y \in T : x <= y
<1>1. PICK x \in T : \A y \in T : ~(<<y, x>> \in OpToRel(<, Nat))
  BY NatLessThanWellFounded, WFMin
<1>2. \A y \in T : ~(y < x)
  BY <1>1 DEF OpToRel
<1>3. QED
  BY <1>2

(* The recursion has a solution up to every length: one more value extends *)
(* the solution below.                                                     *)
LEMMA KeepsExists ==
  ASSUME NEW field, NEW calls, NEW k \in Nat
  PROVE  \E f : Keeps(f, field, calls, k)
<1> DEFINE Bad == {n \in Nat : ~\E f : Keeps(f, field, calls, n)}
<1>1. SUFFICES ASSUME Bad # {} PROVE FALSE
  OBVIOUS
<1>2. PICK m \in Bad : \A n \in Bad : m <= n
  <2>1. Bad \in SUBSET Nat
    OBVIOUS
  <2> HIDE DEF Bad
  <2>2. QED
    BY <2>1, <1>1, LeastNat
<1>3. CASE m = 0
  <2> DEFINE f == [n \in 0..0 |-> <<>>]
  <2>1. Keeps(f, field, calls, 0)
    BY DEF Keeps, KeptAt
  <2>2. QED
    BY <2>1, <1>3
<1>4. CASE m # 0
  <2>1. m - 1 \in Nat /\ m - 1 \notin Bad
    BY <1>2, <1>4
  <2>2. PICK f : Keeps(f, field, calls, m - 1)
    BY <2>1
  <2> DEFINE g == [n \in 0..m |-> IF n = m THEN KeptAt(f, field, calls, m) ELSE f[n]]
  <2>3. \A n \in 0..m : g[n] = KeptAt(g, field, calls, n)
    <3> SUFFICES ASSUME NEW n \in 0..m PROVE g[n] = KeptAt(g, field, calls, n)
      OBVIOUS
    <3>1. n # 0 => n - 1 \in 0..m /\ n - 1 # m /\ g[n - 1] = f[n - 1]
      OBVIOUS
    <3>2. KeptAt(g, field, calls, n) = KeptAt(f, field, calls, n)
      BY <3>1 DEF KeptAt
    <3>3. n # m => f[n] = KeptAt(f, field, calls, n)
      BY <2>2 DEF Keeps
    <3>4. QED
      BY <3>2, <3>3
  <2>4. Keeps(g, field, calls, m)
    <3>1. g = [n \in 0..m |-> g[n]]
      OBVIOUS
    <3> HIDE DEF g
    <3>2. QED
      BY <3>1, <2>3 DEF Keeps
  <2>5. QED
    BY <2>4
<1>5. QED
  BY <1>3, <1>4

(* Two solutions agree as far as their calls do.                           *)
LEMMA KeepsUnique ==
  ASSUME NEW field, NEW s, NEW t, NEW k \in Nat, NEW l \in Nat, k <= l,
         \A n \in 1..k : s[n] = t[n],
         NEW f, Keeps(f, field, s, k), NEW g, Keeps(g, field, t, l)
  PROVE  f[k] = g[k]
<1> DEFINE Bad == {n \in 0..k : f[n] # g[n]}
<1>1. SUFFICES ASSUME Bad # {} PROVE FALSE
  OBVIOUS
<1>2. PICK m \in Bad : \A n \in Bad : m <= n
  <2>1. Bad \in SUBSET Nat
    OBVIOUS
  <2> HIDE DEF Bad
  <2>2. QED
    BY <2>1, <1>1, LeastNat
<1>3. f[m] = KeptAt(f, field, s, m) /\ g[m] = KeptAt(g, field, t, m)
  <2>1. m \in 0..k /\ m \in 0..l
    BY <1>2
  <2>2. QED
    BY <2>1 DEF Keeps
<1>4. m # 0 => f[m - 1] = g[m - 1] /\ s[m] = t[m]
  BY <1>2
<1>5. KeptAt(f, field, s, m) = KeptAt(g, field, t, m)
  BY <1>4 DEF KeptAt
<1>6. QED
  BY <1>3, <1>5

LEMMA CallsWithIs ==
  ASSUME NEW field, NEW calls, Len(calls) \in Nat,
         NEW f, Keeps(f, field, calls, Len(calls))
  PROVE  CallsWith(field, calls) = f[Len(calls)]
<1> DEFINE g == CHOOSE h : Keeps(h, field, calls, Len(calls))
<1>1. Keeps(g, field, calls, Len(calls))
  OBVIOUS
<1>2. CallsWith(field, calls) = g[Len(calls)]
  BY DEF CallsWith, Keeps, KeptAt
<1> HIDE DEF g
<1>3. QED
  BY <1>1, <1>2, KeepsUnique

LEMMA CallsWithEmpty ==
  ASSUME NEW field
  PROVE  CallsWith(field, <<>>) = <<>>
<1>1. PICK f : Keeps(f, field, <<>>, 0)
  BY KeepsExists
<1>2. f[0] = <<>>
  BY <1>1 DEF Keeps, KeptAt
<1>3. QED
  BY <1>1, <1>2, CallsWithIs

(* A further call is kept or not; what was kept stays as it is.            *)
LEMMA CallsWithAppend ==
  ASSUME NEW field, NEW S, NEW calls \in Seq(S), NEW c \in S
  PROVE  CallsWith(field, Append(calls, c)) =
           IF field \in DOMAIN c THEN Append(CallsWith(field, calls), c)
           ELSE CallsWith(field, calls)
<1> DEFINE n == Len(calls)
           more == Append(calls, c)
<1>1. /\ n \in Nat /\ Len(more) = n + 1 /\ more[n + 1] = c
      /\ \A i \in 1..n : calls[i] = more[i]
  OBVIOUS
<1> HIDE DEF n, more
<1>2. PICK f : Keeps(f, field, calls, n)
  BY <1>1, KeepsExists
<1>3. PICK g : Keeps(g, field, more, n + 1)
  <2>1. n + 1 \in Nat
    BY <1>1
  <2>2. QED
    BY <2>1, KeepsExists
<1>4. f[n] = g[n]
  BY <1>1, <1>2, <1>3, KeepsUnique
<1>5. g[n + 1] = IF field \in DOMAIN c THEN Append(g[n], c) ELSE g[n]
  <2>1. n + 1 \in 0..(n + 1) /\ n + 1 # 0 /\ (n + 1) - 1 = n
    BY <1>1
  <2>2. g[n + 1] = KeptAt(g, field, more, n + 1)
    BY <2>1, <1>3 DEF Keeps
  <2>3. QED
    BY <2>1, <2>2, <1>1 DEF KeptAt
<1>6. CallsWith(field, calls) = f[n] /\ CallsWith(field, more) = g[n + 1]
  BY <1>1, <1>2, <1>3, CallsWithIs DEF n
<1>7. QED
  BY <1>4, <1>5, <1>6 DEF more

(* What is kept are calls that were made.                                  *)
LEMMA CallsWithType ==
  ASSUME NEW field, NEW S, NEW calls \in Seq(S)
  PROVE  CallsWith(field, calls) \in Seq(S)
<1>1. Len(calls) \in Nat
  OBVIOUS
<1>2. PICK f : Keeps(f, field, calls, Len(calls))
  BY <1>1, KeepsExists
<1> DEFINE Bad == {n \in 0..Len(calls) : f[n] \notin Seq(S)}
<1>3. SUFFICES ASSUME Bad # {} PROVE FALSE
  BY <1>1, <1>2, CallsWithIs
<1>4. PICK m \in Bad : \A n \in Bad : m <= n
  <2>1. Bad \in SUBSET Nat
    OBVIOUS
  <2> HIDE DEF Bad
  <2>2. QED
    BY <2>1, <1>3, LeastNat
<1>5. m \in 0..Len(calls) /\ f[m] = KeptAt(f, field, calls, m)
  BY <1>1, <1>2, <1>4 DEF Keeps
<1>6. m # 0 => f[m - 1] \in Seq(S) /\ calls[m] \in S
  BY <1>1, <1>4
<1>7. f[m] \in Seq(S)
  BY <1>5, <1>6 DEF KeptAt
<1>8. QED
  BY <1>4, <1>7

LEMMA PrefixOfConcat ==
  ASSUME NEW S, NEW s \in Seq(S), NEW t \in Seq(S)
  PROVE  IsPrefix(s, s \o t)
<1>1. Len(s) <= Len(s \o t)
  OBVIOUS
<1>2. SubSeq(s, 1, Len(s)) = SubSeq(s \o t, 1, Len(s))
  OBVIOUS
<1>3. QED
  BY <1>1, <1>2 DEF IsPrefix

(* The first of the rows still to write becomes the last one written.      *)
LEMMA ShiftOne ==
  ASSUME NEW S, NEW s \in Seq(S), NEW r \in Seq(S), r # <<>>, NEW u \in Seq(S)
  PROVE  Append(s, Head(r)) \o (Tail(r) \o u) = s \o (r \o u)
OBVIOUS

-----------------------------------------------------------------------------
(* Types, and what a row of the journal claims.                            *)
LEMMA RowTypes ==
  /\ Marker \in Row
  /\ \A n \in Nat : [log |-> n] \in Row
  /\ NoHost \in [reads : Seq(Row), logs : Seq(Row)]
  /\ Plain \in Exception
<1>1. Marker \in Row /\ Plain \in Exception
  BY DEF Row, Exception
<1>2. \A n \in Nat : [log |-> n] \in Row
  BY DEF Row, LogRow
<1>3. NoHost \in [reads : Seq(Row), logs : Seq(Row)]
  BY DEF NoHost
<1>4. QED
  BY <1>1, <1>2, <1>3

(* The row of a resolved read: a named block is looked up after the read,  *)
(* an explicit one is taken as it is.                                      *)
LEMMA RecordType ==
  ASSUME NEW p \in Call, p.seen \in Nat, NEW h \in Nat, NEW block,
         p.tag = Latest => p.seen <= h /\ block \in {h, None},
         p.tag \in Pinned => p.seen = p.tag /\ block \in {p.tag, None}
  PROVE  Record(p, block) \in Row
<1>1. p.read \in Nat /\ p.tag \in Tag
  BY DEF Call
<1>2. block \in Nat \cup {None}
  BY <1>1, SandboxAssumption DEF Tag
<1>3. block # None => block >= p.seen /\ (p.tag \in Pinned => block = p.tag)
  BY <1>1, SandboxAssumption DEF Tag
<1>4. Record(p, block) \in ReadRow
  BY <1>1, <1>2, <1>3 DEF Record, ReadRow
<1>5. QED
  BY <1>4 DEF Row

LEMMA AnsweredRow ==
  ASSUME Typing, RpcAnswers
  PROVE  LET p == [pending EXCEPT !.seen = Seen(pending.tag)]
         IN  /\ p \in Call /\ p.tag = pending.tag /\ p.seen \in Nat
             /\ p.tag = Latest => p.seen <= head
             /\ p.tag \in Pinned => p.seen = p.tag
             /\ Record(p, None) \in Row
<1> DEFINE p == [pending EXCEPT !.seen = Seen(pending.tag)]
<1>1. pending \in Call /\ head \in Nat
  BY DEF RpcAnswers, Typing, PendingOK
<1>2. pending.tag \in Tag /\ Seen(pending.tag) \in Nat
  BY <1>1, SandboxAssumption DEF Call, Tag, Seen
<1>3. p \in Call /\ p.tag = pending.tag /\ p.seen = Seen(pending.tag) /\ p.seen \in Nat
  BY <1>1, <1>2 DEF Call
<1>4. /\ p.tag = Latest => p.seen <= head
      /\ p.tag \in Pinned => p.seen = p.tag
  BY <1>1, <1>2, <1>3, SandboxAssumption DEF Seen
<1> HIDE DEF p
<1>5. Record(p, None) \in Row
  BY <1>1, <1>3, <1>4, RecordType
<1>6. QED
  BY <1>3, <1>4, <1>5 DEF p

LEMMA ResolvedRow ==
  ASSUME Typing, Resolve
  PROVE  \E block : Record(pending, block) \in Row /\ Push(block)
<1>1. phase = "resolve" /\ pending \in Call /\ head \in Nat
  BY DEF Resolve, Typing, PendingOK
<1>2. PICK block \in {head, None} :
         Push(IF pending.tag = Latest THEN block ELSE pending.tag)
  BY DEF Resolve
<1>3. pending.tag \in Pinned => pending.tag # Latest
  BY SandboxAssumption
<1>4. Record(pending, IF pending.tag = Latest THEN block ELSE pending.tag) \in Row
  BY <1>1, <1>3, RecordType DEF Typing, PendingOK
<1>5. QED
  BY <1>2, <1>4

LEMMA TypingInit == Init => Typing
BY RowTypes DEF Init, Typing, PendingOK, Phase, Before

LEMMA TypingStep == Typing /\ [Next]_vars => Typing'
<1> SUFFICES ASSUME Typing, [Next]_vars PROVE Typing'
  OBVIOUS
<1> USE DEF Typing, PendingOK, Phase, Before
<1>1. CASE StartEngine
  BY <1>1 DEF StartEngine, buffers
<1>2. CASE Log
  <2>1. Len(made) \in Nat
    OBVIOUS
  <2>2. [log |-> Len(made)] \in Row
    BY <2>1, RowTypes
  <2>3. QED
    BY <1>2, <2>2 DEF Log, Calling, Running, engine, outcome
<1>3. ASSUME NEW b \in {"readContract", "readErc20", "balance", "blockNumber", "getLogs"},
             NEW tag \in Tag, Begin(b, tag)
      PROVE  Typing'
  <2>1. Plain \in Exception
    BY RowTypes
  <2>2. phase' \in {"script", "rpc"} /\ exn' \in Exception \cup {None}
    BY <1>3, <2>1 DEF Begin, Raise, Calling, Running
  <2>3. phase' = "rpc" => pending' \in Call
    <3>1. Len(made) \in Nat
      OBVIOUS
    <3>2. [read |-> Len(made), binding |-> b, tag |-> tag, seen |-> None] \in Call
      BY <3>1 DEF Call
    <3>3. QED
      BY <1>3, <3>2 DEF Begin, Raise
  <2>4. QED
    BY <1>3, <2>2, <2>3 DEF Begin
<1>4. CASE RpcAnswers
  <2> DEFINE p == [pending EXCEPT !.seen = Seen(pending.tag)]
  <2>1. /\ p \in Call /\ p.seen \in Nat
        /\ p.tag = Latest => p.seen <= head
        /\ p.tag \in Pinned => p.seen = p.tag
    BY <1>4, AnsweredRow
  <2>2. PICK row \in Row : row = Record(p, None)
    BY <1>4, AnsweredRow
  <2>3. exn' \in Exception \cup {None}
    BY <1>4, RowTypes DEF RpcAnswers, Raise, Exception
  <2>4. UNCHANGED <<head, logs, host, db>>
    BY <1>4 DEF RpcAnswers
  <2>5. made' \in Seq(Row) /\ reads' \in Seq(Row)
    <3>1. \/ made' = made /\ reads' = reads
          \/ made' = Append(made, row) /\ reads' = Append(reads, row)
      BY <1>4, <2>2 DEF RpcAnswers
    <3>2. made \in Seq(Row) /\ reads \in Seq(Row)
      OBVIOUS
    <3>3. Append(made, row) \in Seq(Row) /\ Append(reads, row) \in Seq(Row)
      BY <3>2, AppendProperties
    <3>4. QED
      BY <3>1, <3>2, <3>3
  <2>6. \/ phase' = "script"
        \/ phase' = "resolve" /\ pending' = p
    BY <1>4 DEF RpcAnswers, Raise
  <2> HIDE DEF p
  <2>7. QED
    BY <2>1, <2>3, <2>4, <2>5, <2>6
<1>5. CASE Resolve
  <2>1. /\ phase = "resolve" /\ phase' = "script"
        /\ UNCHANGED <<head, logs, host, db>>
    BY <1>5 DEF Resolve
  <2>2. PICK block : Record(pending, block) \in Row /\ Push(block)
    BY <1>5, ResolvedRow
  <2>3. made' \in Seq(Row) /\ reads' \in Seq(Row)
    BY <2>2, AppendProperties DEF Push
  <2>4. exn' \in Exception \cup {None}
    BY <1>5, RowTypes DEF Resolve
  <2>5. QED
    BY <2>1, <2>3, <2>4
<1>6. CASE Throw
  BY <1>6 DEF Throw, engine, buffers, Running, Exception
<1>7. CASE Catch
  BY <1>7 DEF Catch, engine, buffers
<1>8. CASE Uncaught \/ Poll \/ Return \/ HostPanic
  BY <1>8 DEF Uncaught, Poll, Return, HostPanic, End, buffers
<1>9. CASE Drain
  BY <1>9 DEF Drain
<1>10. CASE FlushMarker
  <2>1. Marker \in Row
    BY RowTypes
  <2>2. QED
    BY <1>10, <2>1 DEF FlushMarker, Flushing, engine, buffers
<1>11. CASE FlushRead
  <2>1. Head(host.reads) \in Row /\ Tail(host.reads) \in Seq(Row)
    BY <1>11 DEF FlushRead
  <2>2. /\ db' = Append(db, Head(host.reads))
        /\ host' = [host EXCEPT !.reads = Tail(@)]
        /\ UNCHANGED <<phase, head, made, reads, logs, exn, pending>>
    BY <1>11 DEF FlushRead, engine, buffers
  <2>3. db' \in Seq(Row)
    BY <2>1, <2>2
  <2>4. host' \in [reads : Seq(Row), logs : Seq(Row)]
    BY <2>1, <2>2
  <2>5. QED
    BY <2>2, <2>3, <2>4
<1>12. CASE FlushLog
  <2>1. Head(host.logs) \in Row /\ Tail(host.logs) \in Seq(Row)
    BY <1>12 DEF FlushLog
  <2>2. /\ db' = Append(db, Head(host.logs))
        /\ host' = [host EXCEPT !.logs = Tail(@)]
        /\ UNCHANGED <<phase, head, made, reads, logs, exn, pending>>
    BY <1>12 DEF FlushLog, engine, buffers
  <2>3. db' \in Seq(Row)
    BY <2>1, <2>2
  <2>4. host' \in [reads : Seq(Row), logs : Seq(Row)]
    BY <2>1, <2>2
  <2>5. QED
    BY <2>2, <2>3, <2>4
<1>13. CASE FlushFails
  BY <1>13, RowTypes DEF FlushFails, Flushing, engine, buffers
<1>14. CASE Settle
  BY <1>14 DEF Settle, buffers
<1>15. CASE Deadline
  BY <1>15 DEF Deadline, buffers, outcome
<1>16. CASE NewBlock
  BY <1>16 DEF NewBlock, buffers, outcome, Call
<1>17. CASE UNCHANGED vars
  BY <1>17 DEF vars, engine, buffers, outcome
<1>18. CallAnyRead => Typing'
  <2>1. Latest \in Tag
    BY DEF Tag
  <2>2. QED
    BY <2>1, <1>3 DEF CallAnyRead, ReadContract, ReadErc20, ReadBalance, ReadBlockNumber, GetLogs
<1>19. QED
  BY <1>1, <1>2, <1>4, <1>5, <1>6, <1>7, <1>8, <1>9, <1>10, <1>11, <1>12, <1>13,
     <1>14, <1>15, <1>16, <1>17, <1>18 DEF Next

-----------------------------------------------------------------------------
(* The exception in flight and what becomes of it.                         *)
LEMMA ExceptionKind ==
  ASSUME NEW m \in Exception
  PROVE  m.evm # "bad_shape"
BY DEF Exception, EvmFailure, BuilderFailure, OwnThrow, Plain, Text

LEMMA OutcomeInit == Init => Outcome
BY DEF Init, Outcome, EvmKindSurvives, Before

LEMMA OutcomeStep == Typing /\ Outcome /\ [Next]_vars => Outcome'
<1> SUFFICES ASSUME Typing, Outcome, [Next]_vars PROVE Outcome'
  OBVIOUS
<1> USE DEF Outcome, Before
<1>1. CASE StartEngine
  BY <1>1 DEF StartEngine, EvmKindSurvives, buffers
<1>2. CASE Log
  BY <1>2 DEF Log, Calling, Running, engine, outcome, EvmKindSurvives
<1>3. ASSUME NEW b, NEW tag, Begin(b, tag)
      PROVE  Outcome'
  BY <1>3 DEF Begin, Calling, Running, Raise, EvmKindSurvives
<1>4. CASE RpcAnswers
  BY <1>4 DEF RpcAnswers, Raise, EvmKindSurvives
<1>5. CASE Resolve
  BY <1>5 DEF Resolve, EvmKindSurvives
<1>6. CASE Throw
  BY <1>6 DEF Throw, Running, engine, buffers, EvmKindSurvives
<1>7. CASE Catch
  BY <1>7 DEF Catch, engine, buffers, EvmKindSurvives
<1>8. CASE Uncaught
  <2>1. CaughtToRuntimeError(exn) = ClassifyMessage(exn)
    BY <1>8 DEF Uncaught, CaughtToRuntimeError
  <2>2. QED
    BY <1>8, <2>1 DEF Uncaught, End, EvmKindSurvives, buffers
<1>9. CASE Poll
  BY <1>9 DEF Poll, Running, End, EvmKindSurvives, buffers
<1>10. CASE Return
  BY <1>10 DEF Return, Running, End, EvmKindSurvives, buffers
<1>11. CASE HostPanic
  BY <1>11 DEF HostPanic, Running, EvmKindSurvives, buffers
<1>12. CASE Drain
  <2>1. timedOut = FALSE => result' = result
    BY <1>12 DEF Drain
  <2>2. QED
    BY <1>12, <2>1 DEF Drain, EvmKindSurvives
<1>13. CASE FlushMarker \/ FlushRead \/ FlushLog \/ FlushFails
  BY <1>13 DEF FlushMarker, FlushRead, FlushLog, FlushFails, Flushing, engine, buffers,
               EvmKindSurvives
<1>14. CASE Settle
  <2>1. exn # None =>
          exn.evm = "none" \/ exn.words # {} \/ (result = exn.evm /\ result # "bad_shape")
    <3>1. exn # None => exn \in Exception /\ result = ClassifyMessage(exn)
      BY <1>14 DEF Settle, Typing
    <3>2. exn.evm # "none" /\ exn.words = {} => ClassifyMessage(exn) = exn.evm
      BY DEF ClassifyMessage
    <3>3. exn # None => exn.evm # "bad_shape"
      BY <3>1, ExceptionKind
    <3>4. QED
      BY <3>1, <3>2, <3>3
  <2>2. phase' = "done" /\ exn' = exn
    BY <1>14 DEF Settle
  <2>3. result # "bad_shape" => answer' = result
    BY <1>14 DEF Settle
  <2>4. EvmKindSurvives'
    BY <2>1, <2>2, <2>3 DEF EvmKindSurvives
  <2>5. QED
    BY <2>2, <2>4
<1>15. CASE Deadline
  BY <1>15 DEF Deadline, buffers, outcome, EvmKindSurvives
<1>16. CASE NewBlock
  BY <1>16 DEF NewBlock, buffers, outcome, EvmKindSurvives
<1>17. CASE UNCHANGED vars
  BY <1>17 DEF vars, engine, buffers, outcome, EvmKindSurvives
<1>18. CallAnyRead => Outcome'
  BY <1>3 DEF CallAnyRead, ReadContract, ReadErc20, ReadBalance, ReadBlockNumber, GetLogs
<1>19. QED
  BY <1>1, <1>2, <1>4, <1>5, <1>6, <1>7, <1>8, <1>9, <1>10, <1>11, <1>12, <1>13,
     <1>14, <1>15, <1>16, <1>17, <1>18 DEF Next

-----------------------------------------------------------------------------
(* The ledger.                                                             *)
LEMMA KeptTypes ==
  ASSUME Typing
  PROVE  /\ ReadsMade \in Seq(Row) /\ LogsMade \in Seq(Row)
         /\ Expected \in Seq(Row)
<1>1. ReadsMade \in Seq(Row) /\ LogsMade \in Seq(Row)
  BY CallsWithType DEF ReadsMade, LogsMade, Typing
<1>2. <<Marker>> \in Seq(Row)
  BY RowTypes
<1>3. Expected = <<Marker>> \o ReadsMade \o LogsMade
  BY DEF Expected, ReadsMade, LogsMade
<1>4. QED
  BY <1>1, <1>2, <1>3

(* While the calls made stay as they are, so does what the journal owes.   *)
LEMMA KeptFrame ==
  ASSUME made' = made
  PROVE  ReadsMade' = ReadsMade /\ LogsMade' = LogsMade /\ Expected' = Expected
BY DEF ReadsMade, LogsMade, Expected, CallsWith

LEMMA LedgerInit == Init => Ledger
<1> SUFFICES ASSUME Init PROVE Ledger
  OBVIOUS
<1>1. ReadsMade = <<>> /\ LogsMade = <<>>
  BY CallsWithEmpty DEF Init, ReadsMade, LogsMade
<1>2. QED
  BY <1>1 DEF Init, Ledger, Buffered, Before

(* A call is recorded under its kind, in the buffer that mirrors it.       *)
LEMMA RecordRead ==
  ASSUME Typing, NEW p, NEW block, Record(p, block) \in Row,
         made' = Append(made, Record(p, block))
  PROVE  ReadsMade' = Append(ReadsMade, Record(p, block)) /\ LogsMade' = LogsMade
<1> DEFINE c == Record(p, block)
<1>1. "seen" \in DOMAIN c /\ "log" \notin DOMAIN c
  BY DEF Record
<1>2. made \in Seq(Row) /\ c \in Row
  BY DEF Typing
<1> HIDE DEF c
<1>3. /\ CallsWith("seen", Append(made, c)) = Append(CallsWith("seen", made), c)
      /\ CallsWith("log", Append(made, c)) = CallsWith("log", made)
  BY <1>1, <1>2, CallsWithAppend
<1>4. ReadsMade' = CallsWith("seen", made') /\ LogsMade' = CallsWith("log", made')
  BY DEF ReadsMade, LogsMade
<1>5. made' = Append(made, c)
  BY DEF c
<1>6. QED
  BY <1>3, <1>4, <1>5 DEF ReadsMade, LogsMade, c

LEMMA RecordLog ==
  ASSUME Typing, NEW n \in Nat, made' = Append(made, [log |-> n])
  PROVE  LogsMade' = Append(LogsMade, [log |-> n]) /\ ReadsMade' = ReadsMade
<1> DEFINE c == [log |-> n]
<1>1. "seen" \notin DOMAIN c /\ "log" \in DOMAIN c
  OBVIOUS
<1>2. made \in Seq(Row) /\ c \in Row
  BY RowTypes DEF Typing
<1> HIDE DEF c
<1>3. /\ CallsWith("log", Append(made, c)) = Append(CallsWith("log", made), c)
      /\ CallsWith("seen", Append(made, c)) = CallsWith("seen", made)
  BY <1>1, <1>2, CallsWithAppend
<1>4. ReadsMade' = CallsWith("seen", made') /\ LogsMade' = CallsWith("log", made')
  BY DEF ReadsMade, LogsMade
<1>5. made' = Append(made, c)
  BY DEF c
<1>6. QED
  BY <1>3, <1>4, <1>5 DEF ReadsMade, LogsMade, c

(* Steps that write nothing, and before the flush touch no buffer.         *)
LEMMA LedgerQuiet ==
  ASSUME Ledger, UNCHANGED <<made, reads, logs, host, db, flushFailed, answer>>,
         phase' = phase \/ {phase, phase'} \subseteq Before \cup {"ended"}
  PROVE  Ledger'
<1>1. ReadsMade' = ReadsMade /\ LogsMade' = LogsMade /\ Expected' = Expected
  BY KeptFrame
<1>2. /\ Buffered' <=> Buffered
      /\ Drained' <=> Drained
      /\ Rest' = Rest
      /\ CompleteUnlessFlushFailed /\ phase' = phase => CompleteUnlessFlushFailed'
  BY <1>1 DEF Buffered, Drained, Rest, CompleteUnlessFlushFailed
<1>3. QED
  BY <1>1, <1>2 DEF Ledger, Before

(* A flush in progress: what is written is a prefix of what is owed.       *)
LEMMA LedgerFlush ==
  ASSUME Typing, Typing', Ledger, phase = "flush", ~flushFailed,
         phase' = "flush", made' = made, flushFailed' = flushFailed,
         db' # <<>>, Expected = db' \o Rest'
  PROVE  Ledger'
<1>1. ReadsMade' = ReadsMade /\ LogsMade' = LogsMade /\ Expected' = Expected
  BY KeptFrame
<1>2. db' \in Seq(Row) /\ Rest' \in Seq(Row)
  BY DEF Typing, Rest
<1>3. IsPrefix(db', Expected')
  BY <1>1, <1>2, PrefixOfConcat
<1>4. QED
  BY <1>1, <1>3 DEF Ledger, Before

LEMMA LedgerStep == Typing /\ Typing' /\ Ledger /\ [Next]_vars => Ledger'
<1> SUFFICES ASSUME Typing, Typing', Ledger, [Next]_vars PROVE Ledger'
  OBVIOUS
<1> USE DEF Before
<1>1. CASE StartEngine
  BY <1>1, LedgerQuiet DEF StartEngine, buffers
<1>2. CASE Log
  <2>1. Len(made) \in Nat
    BY DEF Typing
  <2>2. /\ made' = Append(made, [log |-> Len(made)])
        /\ logs' = Append(logs, [log |-> Len(made)])
        /\ phase = "script" /\ phase' = "script"
        /\ UNCHANGED <<reads, host, db, flushFailed>>
    BY <1>2 DEF Log, Calling, Running, engine, outcome
  <2>3. LogsMade' = Append(LogsMade, [log |-> Len(made)]) /\ ReadsMade' = ReadsMade
    BY <2>1, <2>2, RecordLog
  <2>4. QED
    BY <2>2, <2>3 DEF Ledger, Buffered
<1>3. ASSUME NEW b, NEW tag, Begin(b, tag)
      PROVE  Ledger'
  BY <1>3, LedgerQuiet DEF Begin, Calling, Running, Raise
<1>4. CASE RpcAnswers
  <2> DEFINE p == [pending EXCEPT !.seen = Seen(pending.tag)]
  <2>1. /\ phase = "rpc" /\ phase' \in {"script", "resolve"}
        /\ UNCHANGED <<logs, host, db, flushFailed, answer>>
    BY <1>4 DEF RpcAnswers, Raise
  <2>2. \/ made' = made /\ reads' = reads
        \/ /\ made' = Append(made, Record(p, None))
           /\ reads' = Append(reads, Record(p, None))
    BY <1>4 DEF RpcAnswers
  <2> HIDE DEF p
  <2>3. CASE made' = made /\ reads' = reads
    BY <2>1, <2>3, LedgerQuiet
  <2>4. CASE made' = Append(made, Record(p, None)) /\ reads' = Append(reads, Record(p, None))
    <3>1. Record(p, None) \in Row
      BY <1>4, AnsweredRow DEF p
    <3>2. ReadsMade' = Append(ReadsMade, Record(p, None)) /\ LogsMade' = LogsMade
      BY <2>4, <3>1, RecordRead
    <3>3. QED
      BY <2>1, <2>4, <3>2 DEF Ledger, Buffered
  <2>5. QED
    BY <2>2, <2>3, <2>4
<1>5. CASE Resolve
  <2>1. /\ phase = "resolve" /\ phase' = "script"
        /\ UNCHANGED <<logs, host, db, flushFailed>>
    BY <1>5 DEF Resolve
  <2>2. PICK block : Record(pending, block) \in Row /\ Push(block)
    BY <1>5, ResolvedRow
  <2>3. ReadsMade' = Append(ReadsMade, Record(pending, block)) /\ LogsMade' = LogsMade
    BY <2>2, RecordRead DEF Push
  <2>4. QED
    BY <2>1, <2>2, <2>3 DEF Push, Ledger, Buffered
<1>6. CASE Throw \/ Catch
  BY <1>6, LedgerQuiet DEF Throw, Catch, engine, buffers
<1>7. CASE Uncaught \/ Poll \/ Return
  BY <1>7, LedgerQuiet DEF Uncaught, Poll, Return, Running, End, buffers
<1>8. CASE HostPanic
  <2>1. /\ phase = "script" /\ phase' = "done" /\ answer' = "storage_error"
        /\ UNCHANGED <<made, db>>
    BY <1>8 DEF HostPanic, Running, buffers
  <2>2. db = <<>> /\ Expected' = Expected
    BY <2>1, KeptFrame DEF Ledger, Buffered
  <2>3. IsPrefix(<<>>, Expected)
    <3>1. <<>> \in Seq(Row) /\ <<>> \o Expected = Expected /\ Expected \in Seq(Row)
      BY KeptTypes
    <3>2. QED
      BY <3>1, PrefixOfConcat
  <2>4. QED
    BY <2>1, <2>2, <2>3 DEF Ledger, CompleteUnlessFlushFailed
<1>9. CASE Drain
  <2>1. /\ phase = "ended" /\ phase' = "flush" /\ host' = [reads |-> reads, logs |-> logs]
        /\ UNCHANGED <<made, db, flushFailed>>
    BY <1>9 DEF Drain
  <2>2. db = <<>> /\ flushFailed = FALSE /\ reads = ReadsMade /\ logs = LogsMade
    BY <2>1 DEF Ledger, Buffered
  <2>3. ReadsMade' = ReadsMade /\ LogsMade' = LogsMade /\ Expected' = Expected
    BY <2>1, KeptFrame
  <2>4. IsPrefix(<<>>, Expected)
    <3>1. <<>> \in Seq(Row) /\ <<>> \o Expected = Expected /\ Expected \in Seq(Row)
      BY KeptTypes
    <3>2. QED
      BY <3>1, PrefixOfConcat
  <2>5. Drained'
    BY <2>1, <2>2, <2>3 DEF Drained
  <2>6. QED
    BY <2>1, <2>2, <2>3, <2>4, <2>5 DEF Ledger
<1>10. CASE FlushMarker
  <2>1. /\ phase = "flush" /\ ~flushFailed /\ db = <<>> /\ db' = <<Marker>>
        /\ UNCHANGED <<phase, made, host, flushFailed>>
    BY <1>10 DEF FlushMarker, Flushing, engine, buffers
  <2>2. host.reads = ReadsMade /\ host.logs = LogsMade
    BY <2>1 DEF Ledger, Drained
  <2>3. <<Marker>> \in Seq(Row)
    BY RowTypes
  <2>4. Expected = <<Marker>> \o (ReadsMade \o LogsMade)
    BY <2>3, KeptTypes, ConcatAssociative DEF Expected, ReadsMade, LogsMade
  <2>5. db' # <<>> /\ Expected = db' \o Rest'
    BY <2>1, <2>2, <2>4 DEF Rest
  <2>6. QED
    BY <2>1, <2>5, LedgerFlush
<1>11. CASE FlushRead
  <2>1. /\ phase = "flush" /\ ~flushFailed /\ db # <<>> /\ host.reads # <<>>
        /\ db' = Append(db, Head(host.reads))
        /\ host' = [host EXCEPT !.reads = Tail(host.reads)]
        /\ UNCHANGED <<phase, made, flushFailed>>
    BY <1>11 DEF FlushRead, Flushing, engine, buffers
  <2>2. PICK d \in Seq(Row), r \in Seq(Row), u \in Seq(Row) :
           d = db /\ r = host.reads /\ u = host.logs
    BY DEF Typing
  <2>3. host'.reads = Tail(r) /\ host'.logs = u
    BY <2>1, <2>2 DEF Typing
  <2>4. Expected = d \o (r \o u)
    BY <2>1, <2>2 DEF Ledger, Rest
  <2>5. Append(d, Head(r)) \o (Tail(r) \o u) = d \o (r \o u)
    <3>1. r # <<>>
      BY <2>1, <2>2
    <3>2. QED
      BY <3>1, ShiftOne
  <2>6. Expected = db' \o Rest'
    BY <2>1, <2>2, <2>3, <2>4, <2>5 DEF Rest
  <2>7. db' # <<>>
    <3>1. db' = Append(d, Head(r))
      BY <2>1, <2>2
    <3>2. Append(d, Head(r)) # <<>>
      OBVIOUS
    <3>3. QED
      BY <3>1, <3>2
  <2>8. QED
    BY <2>1, <2>6, <2>7, LedgerFlush
<1>12. CASE FlushLog
  <2>1. /\ phase = "flush" /\ ~flushFailed /\ db # <<>>
        /\ host.reads = <<>> /\ host.logs # <<>>
        /\ db' = Append(db, Head(host.logs))
        /\ host' = [host EXCEPT !.logs = Tail(host.logs)]
        /\ UNCHANGED <<phase, made, flushFailed>>
    BY <1>12 DEF FlushLog, Flushing, engine, buffers
  <2>2. PICK d \in Seq(Row), r \in Seq(Row) : d = db /\ r = host.logs
    BY DEF Typing
  <2>3. host'.reads = <<>> /\ host'.logs = Tail(r)
    BY <2>1, <2>2 DEF Typing
  <2>4. /\ <<>> \in Seq(Row)
        /\ <<>> \o r = r /\ r \o <<>> = r
        /\ <<>> \o Tail(r) = Tail(r) /\ Tail(r) \o <<>> = Tail(r)
    <3>1. r # <<>>
      BY <2>1, <2>2
    <3>2. Tail(r) \in Seq(Row)
      BY <3>1
    <3>3. \A seq \in Seq(Row) : <<>> \o seq = seq /\ seq \o <<>> = seq
      BY ConcatEmptySeq
    <3>4. QED
      BY <3>2, <3>3, EmptySeq
  <2>5. Expected = d \o r
    BY <2>1, <2>2, <2>4 DEF Ledger, Rest
  <2>6. Append(d, Head(r)) \o (Tail(r) \o <<>>) = d \o (r \o <<>>)
    <3>1. r # <<>>
      BY <2>1, <2>2
    <3>2. PICK nil \in Seq(Row) : nil = <<>>
      BY <2>4
    <3>3. Append(d, Head(r)) \o (Tail(r) \o nil) = d \o (r \o nil)
      BY <3>1, ShiftOne
    <3>4. QED
      BY <3>2, <3>3
  <2>7. Expected = db' \o Rest'
    BY <2>1, <2>2, <2>3, <2>4, <2>5, <2>6 DEF Rest
  <2>8. db' # <<>>
    <3>1. db' = Append(d, Head(r))
      BY <2>1, <2>2
    <3>2. Append(d, Head(r)) # <<>>
      OBVIOUS
    <3>3. QED
      BY <3>1, <3>2
  <2>9. QED
    BY <2>1, <2>7, <2>8, LedgerFlush
<1>13. CASE FlushFails
  <2>1. /\ phase = "flush" /\ phase' = "flush" /\ flushFailed' = TRUE /\ host' = NoHost
        /\ UNCHANGED <<made, db>>
    BY <1>13 DEF FlushFails, Flushing, engine, buffers
  <2>2. Expected' = Expected
    BY <2>1, KeptFrame
  <2>3. QED
    BY <2>1, <2>2 DEF Ledger
<1>14. CASE Settle
  <2>1. /\ phase = "flush" /\ phase' = "done" /\ (flushFailed \/ db # <<>>)
        /\ host = NoHost /\ UNCHANGED <<made, db, flushFailed>>
    BY <1>14 DEF Settle, buffers
  <2>2. Expected' = Expected
    BY <2>1, KeptFrame
  <2>3. ~flushFailed => db = Expected
    <3>1. Rest = <<>>
      BY <2>1 DEF Rest, NoHost
    <3>2. db \o <<>> = db
      BY ConcatEmptySeq DEF Typing
    <3>3. QED
      BY <2>1, <3>1, <3>2 DEF Ledger
  <2>4. QED
    BY <2>1, <2>2, <2>3 DEF Ledger, CompleteUnlessFlushFailed
<1>15. CASE Deadline \/ NewBlock
  BY <1>15, LedgerQuiet DEF Deadline, NewBlock, buffers, outcome
<1>16. CASE UNCHANGED vars
  BY <1>16, LedgerQuiet DEF vars, engine, buffers, outcome
<1>17. CallAnyRead => Ledger'
  BY <1>3 DEF CallAnyRead, ReadContract, ReadErc20, ReadBalance, ReadBlockNumber, GetLogs
<1>18. QED
  BY <1>1, <1>2, <1>4, <1>5, <1>6, <1>7, <1>8, <1>9, <1>10, <1>11, <1>12, <1>13,
     <1>14, <1>15, <1>16, <1>17 DEF Next

-----------------------------------------------------------------------------
LEMMA Invariance == Spec => []IInv
<1>1. Init => IInv
  BY TypingInit, OutcomeInit, LedgerInit DEF IInv
<1>2. IInv /\ [Next]_vars => IInv'
  BY TypingStep, OutcomeStep, LedgerStep DEF IInv
<1>3. QED
  BY <1>1, <1>2, PTL DEF Spec

(* At every moment the rows written for an invocation are a prefix of the  *)
(* source marker, the reads that succeeded and the logs, and an answered   *)
(* invocation whose flush met no storage error has written them all        *)
(* (sandbox.rs execute, runtime.rs flush): the buffers and the rows behind *)
(* them always add up to what the strategy did.                            *)
THEOREM JournalTells == Spec => []JournalComplete
<1>1. IInv => JournalComplete
  <2> SUFFICES ASSUME IInv PROVE JournalComplete
    OBVIOUS
  <2>1. CASE phase \in Before \cup {"ended"}
    <3>1. db = <<>>
      BY <2>1 DEF IInv, Ledger, Buffered
    <3>2. <<>> \in Seq(Row) /\ <<>> \o Expected = Expected /\ Expected \in Seq(Row)
      BY KeptTypes DEF IInv
    <3>3. IsPrefix(db, Expected)
      BY <3>1, <3>2, PrefixOfConcat
    <3>4. QED
      BY <2>1, <3>3 DEF JournalComplete, JournalIsPrefix, CompleteUnlessFlushFailed, Before
  <2>2. CASE phase \in {"flush", "done"}
    BY <2>2 DEF IInv, Ledger, JournalComplete, JournalIsPrefix, CompleteUnlessFlushFailed
  <2>3. QED
    BY <2>1, <2>2 DEF IInv, Typing, Phase
<1>2. QED
  BY <1>1, Invariance, PTL

(* An uncaught EVM failure reaches the caller under the kind the host gave *)
(* it: nothing between the throw and the answer raises the timeout flag.   *)
THEOREM KindReachesCaller == Spec => []EvmKindSurvives
<1>1. IInv => EvmKindSurvives
  BY DEF IInv, Outcome
<1>2. QED
  BY <1>1, Invariance, PTL

(* No row names a block older than the one its read saw, however the head  *)
(* moves between the read and the lookup, and an explicit block is named   *)
(* exactly.                                                                *)
THEOREM RowsNameTheirBlock == Spec => []ResolvedNotBefore
<1>1. Typing => ResolvedNotBefore
  <2> SUFFICES ASSUME Typing, NEW i \in DOMAIN db, IsRead(db[i]), db[i].resolved # None
               PROVE  /\ db[i].resolved >= db[i].seen
                      /\ db[i].tag \in Pinned => db[i].resolved = db[i].tag
    BY DEF ResolvedNotBefore
  <2>1. db[i] \in Row
    BY DEF Typing
  <2>2. db[i] \in ReadRow
    BY <2>1 DEF Row, LogRow, Marker, IsRead
  <2>3. QED
    BY <2>2 DEF ReadRow
<1>2. QED
  BY <1>1, Invariance, PTL DEF IInv
===============================================================================
