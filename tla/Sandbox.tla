------------------------------ MODULE Sandbox ------------------------------
(***************************************************************************)
(* One invocation of a strategy: Sandbox::execute (strategy-js/sandbox.rs) *)
(* between the snapshot of the host and the drain of its buffers, the      *)
(* flush of RuntimeContext (runtime.rs) and the answer strategy_run makes  *)
(* of it (tools.rs steps 5 and 6).  The strategy's code is the             *)
(* environment: it makes any host call, catches or not, returns anything.  *)
(* The chain's head moves and the wall clock runs out at any moment.       *)
(***************************************************************************)
EXTENDS Integers, Sequences, SequencesExt, TLC

CONSTANTS
    MaxCalls,   \* bound on the host calls one strategy makes
    MaxHead,    \* bound on the chain's head
    Pinned,     \* the explicit block numbers a strategy may ask for
    Latest,     \* the named block
    None

ASSUME SandboxAssumption ==
    /\ MaxCalls \in Nat /\ MaxHead \in Nat
    /\ Pinned \subseteq Nat /\ None \notin Nat /\ Latest \notin Nat

VARIABLES
    phase,      \* where the invocation is
    late,       \* the wall-clock deadline has passed
    timedOut,   \* the flag the interrupt handler raises
    head,       \* the chain's head
    wired,      \* the host carries a provider
    made,       \* what the strategy did and saw, in order
    pending,    \* the read under way
    reads,      \* evm_reads, the sandbox's buffer
    logs,       \* log_buffer
    host,       \* what RuntimeContext holds after the drain
    exn,        \* the JavaScript exception in flight
    result,     \* what execute returns
    db,         \* the rows written for this run, in order
    flushFailed,
    answer      \* what strategy_run goes on with

engine == <<phase, late, timedOut, head, wired>>
buffers == <<made, pending, reads, logs>>
outcome == <<host, exn, result, db, flushFailed, answer>>
vars == <<engine, buffers, outcome>>

(***************************************************************************)
(* The surface.  A read binding journals its successes; all of them but    *)
(* blockNumber and getLogs look up the number of a named block after the   *)
(* read.  An action builder throws with a prefix before the EVM text.      *)
(***************************************************************************)
Resolving == {"readContract", "readErc20", "balance"}
Tag == {Latest} \cup Pinned

(***************************************************************************)
(* An exception's text: the EVM kind its stable prefix names, where that   *)
(* prefix stands, and the words in it that the classifier looks for.       *)
(***************************************************************************)
Text(evm, at, words) == [evm |-> evm, at |-> at, words |-> words]
Plain == Text("none", "start", {})
Word == {"oom", "stack overflow", "interrupted"}

\* executor_evm::EvmError: Display and data_kind; a revert carries the
\* reason the contract chose.
EvmFailure ==
    {Text(k, "start", {}) : k \in {"evm_rpc_error", "evm_decode_error"}}
    \cup {Text("evm_revert", "start", w) : w \in {{}, {"oom"}, {"interrupted"}}}

BuilderFailure == {Plain, Text("evm_decode_error", "later", {})}

\* QuickJS's own limits, and what the strategy throws itself.
OwnThrow == {Plain} \cup {Text("none", "start", {w}) : w \in Word \ {"interrupted"}}

ClassifyWords(m) ==
    IF "oom" \in m.words THEN "oom"
    ELSE IF "stack overflow" \in m.words THEN "stack_overflow"
    ELSE IF "interrupted" \in m.words THEN "timeout"
    ELSE "exception"

\* Slip: the EVM prefix is expected at the start of the text.
ClassifyMessageSlip(m) ==
    IF m.words = {} /\ m.evm # "none" /\ m.at = "start" THEN m.evm ELSE ClassifyWords(m)

\* The words are looked for first, the EVM prefixes only after them.
ClassifyMessage(m) ==
    IF m.words = {} /\ m.evm # "none" THEN m.evm ELSE ClassifyWords(m)

CaughtToRuntimeError(m) == IF timedOut THEN "timeout" ELSE ClassifyMessage(m)

-----------------------------------------------------------------------------
Marker == [marker |-> TRUE]
NoHost == [reads |-> <<>>, logs |-> <<>>]

Init ==
    /\ phase = "start" /\ late = FALSE /\ timedOut = FALSE /\ head = 0
    /\ wired \in BOOLEAN
    /\ made = <<>> /\ pending = None /\ reads = <<>> /\ logs = <<>>
    /\ host = NoHost /\ exn = None /\ result = None
    /\ db = <<>> /\ flushFailed = FALSE /\ answer = None

\* The runtime, its limits, the context, the surface, the scrub of the
\* forbidden globals and the install of __ctx: any of them may fail.
StartEngine ==
    /\ phase = "start"
    /\ \/ phase' = "script" /\ UNCHANGED result
       \/ phase' = "ended" /\ result' \in {"exception", "oom"}
    /\ UNCHANGED <<late, timedOut, head, wired, buffers, host, exn, db,
                   flushFailed, answer>>

Running == phase = "script" /\ exn = None
Calling == Running /\ Len(made) < MaxCalls
Raise(m) == exn' = m /\ phase' = "script"

Log ==
    /\ Calling
    /\ logs' = Append(logs, [log |-> Len(made)])
    /\ made' = Append(made, [log |-> Len(made)])
    /\ UNCHANGED <<engine, pending, reads, outcome>>

(***************************************************************************)
(* The read bindings.  A host without a provider and an argument of the    *)
(* wrong shape throw before anything leaves; otherwise the binding hands   *)
(* one request to the provider.                                            *)
(***************************************************************************)
Begin(b, tag) ==
    /\ Calling
    /\ \/ Raise(Plain) /\ UNCHANGED pending
       \/ /\ wired
          /\ phase' = "rpc" /\ UNCHANGED exn
          /\ pending' = [read |-> Len(made), binding |-> b, tag |-> tag, seen |-> None]
    /\ UNCHANGED <<late, timedOut, head, wired, made, reads, logs, host, result,
                   db, flushFailed, answer>>

ReadContract(tag) == Begin("readContract", tag)
ReadErc20(tag) == Begin("readErc20", tag)
ReadBalance(tag) == Begin("balance", tag)
ReadBlockNumber == Begin("blockNumber", Latest)
GetLogs(tag) == Begin("getLogs", tag)

Seen(tag) == IF tag = Latest THEN head ELSE tag

Record(p, block) ==
    [read |-> p.read, tag |-> p.tag, seen |-> p.seen, resolved |-> block]

\* The node does not know a block beyond its head.
Answerable(tag) == Seen(tag) <= head

\* The host blocks on the RPC; a failure becomes a JavaScript exception.
RpcAnswers ==
    LET p == [pending EXCEPT !.seen = Seen(pending.tag)]
    IN  /\ phase = "rpc"
        /\ \/ /\ \E m \in EvmFailure : Raise(m)
              /\ pending' = None /\ UNCHANGED <<made, reads>>
           \/ /\ Answerable(pending.tag) /\ pending.binding \in Resolving
              /\ phase' = "resolve" /\ pending' = p
              /\ UNCHANGED <<exn, made, reads>>
           \/ /\ Answerable(pending.tag) /\ pending.binding \notin Resolving
              /\ phase' = "script" /\ pending' = None
              /\ reads' = Append(reads, Record(p, None))
              /\ made' = Append(made, Record(p, None))
              /\ exn' \in {None, Plain}
        /\ UNCHANGED <<late, timedOut, head, wired, logs, host, result, db,
                       flushFailed, answer>>

Push(block) ==
    /\ reads' = Append(reads, Record(pending, block))
    /\ made' = Append(made, Record(pending, block))

\* Slip: a named and an explicit block alike are looked up.
ResolveSlip ==
    /\ phase = "resolve"
    /\ Push(head) /\ pending' = None
    /\ phase' = "script" /\ exn' \in {None, Plain}
    /\ UNCHANGED <<late, timedOut, head, wired, logs, host, result, db,
                   flushFailed, answer>>

\* resolve_block_number: an explicit block is taken verbatim, a named one
\* costs a second RPC, whose failure leaves the field out.  The read is
\* journaled even when its value then cannot be handed to JavaScript.
Resolve ==
    /\ phase = "resolve"
    /\ \E block \in {head, None} :
          Push(IF pending.tag = Latest THEN block ELSE pending.tag)
    /\ pending' = None
    /\ phase' = "script" /\ exn' \in {None, Plain}
    /\ UNCHANGED <<late, timedOut, head, wired, logs, host, result, db,
                   flushFailed, answer>>

\* Units, addresses, abi, price, action builders and the script's own code.
Throw ==
    /\ Running
    /\ exn' \in OwnThrow \cup BuilderFailure
    /\ UNCHANGED <<engine, buffers, host, result, db, flushFailed, answer>>

Catch ==
    /\ phase = "script" /\ exn # None
    /\ exn' = None
    /\ UNCHANGED <<engine, buffers, host, result, db, flushFailed, answer>>

End(r) == phase' = "ended" /\ result' = r

Uncaught ==
    /\ phase = "script" /\ exn # None
    /\ End(CaughtToRuntimeError(exn))
    /\ UNCHANGED <<late, timedOut, head, wired, buffers, host, exn, db,
                   flushFailed, answer>>

\* Slip: the deadline is looked at only after a host call.
PollSlip ==
    /\ Running /\ late /\ made # <<>>
    /\ timedOut' = TRUE
    /\ End("timeout")
    /\ UNCHANGED <<late, head, wired, buffers, host, exn, db, flushFailed, answer>>

\* The interrupt handler, polled between bytecodes and never inside a host
\* call.  What it throws cannot be caught.
Poll ==
    /\ Running /\ late
    /\ timedOut' = TRUE
    /\ End("timeout")
    /\ UNCHANGED <<late, head, wired, buffers, host, exn, db, flushFailed, answer>>

\* The value returned.  A promise, a value JSON cannot hold and a source
\* that is no function are refused; a getter met by the conversion may run
\* past the deadline, which is reported as an output error as well.
Return ==
    /\ Running
    /\ \/ End("noop") \/ End("actions") \/ End("bad_shape") \/ End("invalid_output")
    /\ timedOut' \in {FALSE, late /\ result' = "invalid_output"}
    /\ UNCHANGED <<late, head, wired, buffers, host, exn, db, flushFailed, answer>>

\* A panic in a host call (decodeUint256 with an offset at the top of the
\* word) leaves through the join handle, past the drain and the flush.
HostPanic ==
    /\ Running
    /\ phase' = "done" /\ answer' = "storage_error"
    /\ UNCHANGED <<late, timedOut, head, wired, buffers, host, exn, result, db,
                   flushFailed>>

\* Slip: the buffers are drained only when the script returned a value.
DrainSlip ==
    /\ phase = "ended"
    /\ phase' = "flush"
    /\ host' = IF result \in {"noop", "actions", "bad_shape"}
               THEN [reads |-> reads, logs |-> logs] ELSE NoHost
    /\ reads' = <<>> /\ logs' = <<>>
    /\ UNCHANGED <<late, timedOut, head, wired, made, pending, exn, result, db,
                   flushFailed, answer>>

\* Whatever the script's end, both buffers move to the host, and a plain
\* exception past the deadline becomes a timeout.
Drain ==
    /\ phase = "ended"
    /\ phase' = "flush"
    /\ host' = [reads |-> reads, logs |-> logs]
    /\ reads' = <<>> /\ logs' = <<>>
    /\ result' = IF result = "exception" /\ timedOut THEN "timeout" ELSE result
    /\ UNCHANGED <<late, timedOut, head, wired, made, pending, exn, db,
                   flushFailed, answer>>

(***************************************************************************)
(* flush, a row at a time: the source marker, the reads, the logs.  A row  *)
(* the store refuses ends it; the drained rows behind it are lost, and the *)
(* caller only logs the failure.                                           *)
(***************************************************************************)
Flushing == phase = "flush" /\ ~flushFailed

FlushMarker ==
    /\ Flushing /\ db = <<>>
    /\ db' = <<Marker>>
    /\ UNCHANGED <<engine, buffers, host, exn, result, flushFailed, answer>>

FlushRead ==
    /\ Flushing /\ db # <<>> /\ host.reads # <<>>
    /\ db' = Append(db, Head(host.reads))
    /\ host' = [host EXCEPT !.reads = Tail(@)]
    /\ UNCHANGED <<engine, buffers, exn, result, flushFailed, answer>>

FlushLog ==
    /\ Flushing /\ db # <<>> /\ host.reads = <<>> /\ host.logs # <<>>
    /\ db' = Append(db, Head(host.logs))
    /\ host' = [host EXCEPT !.logs = Tail(@)]
    /\ UNCHANGED <<engine, buffers, exn, result, flushFailed, answer>>

FlushFails ==
    /\ Flushing /\ (db = <<>> \/ host # NoHost)
    /\ flushFailed' = TRUE
    /\ host' = NoHost
    /\ UNCHANGED <<engine, buffers, exn, result, db, answer>>

\* Steps 5 and 6 of strategy_run: the output is validated, or the error is
\* named to the caller.
Settle ==
    /\ phase = "flush" /\ (flushFailed \/ db # <<>>) /\ host = NoHost
    /\ phase' = "done"
    /\ answer' = IF result = "bad_shape" THEN "invalid_output" ELSE result
    /\ UNCHANGED <<late, timedOut, head, wired, buffers, host, exn, result, db,
                   flushFailed>>

Deadline ==
    /\ ~late /\ phase \in {"script", "rpc", "resolve"}
    /\ late' = TRUE
    /\ UNCHANGED <<phase, timedOut, head, wired, buffers, outcome>>

NewBlock ==
    /\ head < MaxHead /\ phase \in {"script", "rpc", "resolve"}
    /\ head' = head + 1
    /\ UNCHANGED <<phase, late, timedOut, wired, buffers, outcome>>

CallAnyRead ==
    \/ \E tag \in Tag : ReadContract(tag) \/ ReadErc20(tag) \/ ReadBalance(tag) \/ GetLogs(tag)
    \/ ReadBlockNumber
Flush == FlushMarker \/ FlushRead \/ FlushLog

Next ==
    \/ StartEngine
    \/ Log \/ CallAnyRead \/ RpcAnswers \/ Resolve
    \/ Throw \/ Catch \/ Uncaught \/ Poll \/ Return \/ HostPanic
    \/ Drain \/ FlushMarker \/ FlushRead \/ FlushLog \/ FlushFails \/ Settle
    \/ Deadline \/ NewBlock

(***************************************************************************)
(* Fairness.  The clock runs out, every RPC answers (each is bounded by a  *)
(* request timeout), an exception is caught or leaves, and the host's own  *)
(* steps are taken.  The script itself owes nothing: it may compute for    *)
(* ever, or throw and catch for ever.  QuickJS polls its handler every so  *)
(* many branches and calls, however they interleave: hence SF.             *)
(***************************************************************************)
Fairness ==
    /\ WF_vars(Deadline) /\ SF_vars(Poll)
    /\ WF_vars(RpcAnswers) /\ WF_vars(Resolve) /\ WF_vars(Catch \/ Uncaught)
    /\ WF_vars(StartEngine) /\ WF_vars(Drain) /\ WF_vars(Flush) /\ WF_vars(Settle)

Spec == Init /\ [][Next]_vars /\ Fairness

-----------------------------------------------------------------------------
\* What the strategy itself saw succeed, in the order the journal keeps: the
\* calls whose record has a field, first those that are reads.
CallsWith(field, calls) ==
    LET kept[n \in 0..Len(calls)] ==
            IF n = 0 THEN <<>>
            ELSE IF field \in DOMAIN calls[n] THEN Append(kept[n - 1], calls[n])
            ELSE kept[n - 1]
    IN  kept[Len(calls)]

IsRead(c) == "seen" \in DOMAIN c
Expected == <<Marker>> \o CallsWith("seen", made) \o CallsWith("log", made)

(* The journal of an invocation never has a gap, an invented row or a row   *)
(* of a failed read: at every moment, a failed flush and a crash included,  *)
(* it is a prefix of the marker, the reads that succeeded and the logs.     *)
JournalIsPrefix == IsPrefix(db, Expected)

(* Whatever ended the script, a timeout or an uncaught exception included,  *)
(* an answered invocation whose flush met no storage error has journaled    *)
(* everything the strategy did; only a panicking host call escapes this.    *)
CompleteUnlessFlushFailed ==
    phase = "done" /\ ~flushFailed /\ answer # "storage_error" => db = Expected

(* The journal of an invocation tells what the strategy did: in order, with *)
(* nothing invented, and all of it unless a write failed (sandbox.rs        *)
(* execute, runtime.rs flush).                                              *)
JournalComplete == JournalIsPrefix /\ CompleteUnlessFlushFailed

(* An uncaught EVM failure is answered with the kind the host gave it, from *)
(* a read or from inside an action builder, when its text holds none of the *)
(* engine's own words; only a run past its deadline is answered otherwise.  *)
EvmKindSurvives ==
    phase = "done" /\ exn # None =>
        \/ exn.evm = "none" \/ exn.words # {} \/ answer = exn.evm
        \/ answer = "storage_error"

(* A journaled read names a block that is not older than the one it saw,    *)
(* though the lookup follows the read and the head may move between them;   *)
(* an explicit block is named exactly.                                      *)
ResolvedNotBefore ==
    \A i \in DOMAIN db :
        IsRead(db[i]) /\ db[i].resolved # None =>
            /\ db[i].resolved >= db[i].seen
            /\ db[i].tag \in Pinned => db[i].resolved = db[i].tag

(* A strategy that computes for ever, or catches everything it throws, is   *)
(* still answered: the deadline passes and the handler is polled.           *)
InvocationSettles == <>(phase = "done")
=============================================================================
