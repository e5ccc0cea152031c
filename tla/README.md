# Verification of onchain-strategy-mcp

TLA+ models of the executor (`crates/*`): an MCP server through which an agent
registers JavaScript strategies, sets a policy, attaches triggers, and runs
strategies whose actions are judged, simulated, signed and broadcast.  TLC
checks the models on small instances; TLAPS proves the theorems of the
`*_proofs` modules for every value of their constants.  `PROJECT.json` maps
every definition to the lines it models and lists runs, mutants, hazards,
findings and theorems.

## 1. The system

| part | code | state it keeps | operations | what makes it correct |
|---|---|---|---|---|
| policy model and evaluator | `executor-policy` | the resolved policy; one ERC20 tally per run | `evaluate`, the accessors | deny by default; the tally is the true spend; caps are cumulative; widening never revokes |
| policy storage and boot | `policy_boot.rs`, `policy_revisions.rs`, `policy_set` in `tools.rs` | revisions in SQLite, at most one active; `Arc<RwLock<Option<LoadedPolicy>>>` in memory | `policy_set`, resolve at boot | nothing is enforced that was not committed; boot fails closed and never replaces |
| run pipeline | `run_strategy_with_event`, `execute_approved_actions` in `tools.rs`; `runs.rs`, `executions.rs`, `journal.rs` | run, journal, decision and execution rows, captured records | one run, one async task | gates before chain; one policy per run; rows, journal and status agree; denied means inert; runs settle |
| signer | `executor-signer` | key; no nonce cache | `broadcast`, `send_7702_batch`, `wait_for_receipt` | as part of the pipeline; nonces do not collide |
| EVM access | `executor-evm` | provider and chain id in `OnceCell`s | normalise, simulate, read, prices, units, addresses, ABI values | errors are not memoised; conversions invert each other; reader and encoder agree |
| sandbox | `strategy-js` | buffers of reads and logs, a deadline | `execute`, predicates, the conversions of JavaScript values | the journal tells what the script did; failures keep their kind; every invocation ends |
| strategy registry | `strategies.rs`, `schema.rs` | content-addressed rows, active or soft-deleted, with lineage and time | register, delete, lookups by id, name and lineage | one active row per name and lineage; a lineage never goes back |
| triggers | `executor-state/triggers.rs`, `executor-mcp/triggers/*` | trigger rows, event log; worker tasks; a channel of 1024 | register, delete, enable; workers; the dispatcher | stale triggers stop; no repeat inside the window; the current version runs; the dispatcher never sticks |
| views and portfolio | `read_strategy_view`, `read_portfolio` in `resources.rs`; `web_portfolio.rs`, `view_cache.rs` | last good rendering per strategy | render, fall back, aggregate | stale is the last good one; full means every view rendered now; cuts are told; a request answers |
| resources | `resources.rs`; lists of `runs.rs`, `triggers.rs`, `journal.rs`, `records_capture.rs` | none | parse a query, list, sum, count | nothing falls between two reads; links resolve; totals are exact below the caps |
| records DSL | `records.rs`, `capture_records_for_run` | captured rows | match, evaluate, insert | what is captured is what was sent |
| advisory functions | `policy_diff.rs`, `alignment.rs`, `contracts_touched.rs`, `load.rs` | none | load, diff, extract, align | texts and the loaded policy agree |
| prompts | `prompts.rs` | none | `triage_run` | the report tells the run's rows |
| server shell | `main.rs`, `web.rs`, `init.rs`, `errors.rs` | none that matters | I/O and formatting | |

How they interact.  The server runs on tokio's multi-threaded runtime.  Every
store call holds the one SQLite connection's mutex, so a store call is atomic
towards the others (unless a statement in the middle of it fails), and
everything between two of them is not.  The policy lock is held for one clone or
one assignment.  `strategy_run` runs a strategy directly; a trigger worker sends
an event over the channel to the single dispatcher task, which calls the same
function and awaits it.  At start-up the policy is read from the store, workers
are spawned for the enabled triggers, and a run left `running` is not touched.

What is hard: a policy change, a node failure, a store failure or a crash
between any two awaits of a run; a broadcast whose answer is lost; a receipt
after its timeout; several actions in one EIP-7702 transaction; memoised
answers; two writers of one policy; a lineage that is replaced under a trigger;
a trigger that is switched off under an event; content-addressed ids that come
back; timestamps of whole seconds.  `hazards` lists them with their lines.

## 2. Modules

| module | models | role |
|---|---|---|
| `PolicyModel` | `LoadedPolicy`, its accessors, `evaluate` | operators shared by the two below |
| `PolicyEval` | one tally under a sequence of `evaluate` calls | component |
| `RunContract` | what a run promises | abstract specification |
| `RunPipeline` | `run_strategy_with_event` and `execute_approved_actions` | component; implements `RunContract` |
| `PolicyStore` | `policies` table, memory, `policy_set`, boot | component |
| `Lineage` | what the registry promises to the followers of a lineage | abstract specification |
| `StrategyRegistry` | the `strategies` table | component; implements `Lineage` |
| `TriggerDispatch` | trigger tables, workers, channel, dispatcher | component, composed with `Lineage` |
| `Triage` | the `triage_run` prompt over the rows of a run | operators on `RunPipeline`'s state |
| `Sandbox` | `execute`, the host functions, the drain and the flush | component |
| `Dashboard` | views, their cache, the portfolio, `strategy_delete` | component |
| `NodeReads` | block tags, log filters, `eth_getLogs` | pure functions and the log query |
| `Units` | `parse_units`, `format_units`, `ctx.units` | pure functions and the conversion of an amount |
| `HostCalls` | addresses, overloads, contract calls, action builders | component over `Units` |
| `JsValues` | conversions between JavaScript values and JSON | pure functions |
| `HostValues` | ABI values and JSON | pure functions |
| `PolicyTools` | policy loading, announced capabilities, extraction, alignment | pure functions over `PolicyModel` |
| `Doc` | the input and the answer of one entry point | base of the next ones |
| `PolicyTexts` | one policy text replaced, or one strategy aligned with one | component over `PolicyTools` |
| `RecordsDsl` | match and capture expressions, one capture sweep | pure functions |
| `Queries` | routes, query parsers, lists, status, sums | pure functions |
| `Reads` | one poll, journal, resource, sum or log query | component over `Queries` and `NodeReads` |
| `Requests` | one capture sweep | component over `Reads`, `RecordsDsl` and `HostCalls` |
| `Documents` | one ABI value or structured diff, and all of the above | component over `Requests`, `PolicyTexts`, `JsValues`, `HostValues` |
| `*_proofs` | | theorems |
| `MC*` | | instances for TLC |

Operators named `...Slip` (and `RegisterReplaceBlind`)
are not part of any specification: each is a plausible mistake in the
definition it stands before, and the run of the property it breaks notices it.

**RunPipeline.**  One phase of `pc[r]` per await of the handler.  `status`,
`journal`, `policyRow`, `simRow`, `exec`, `captured` are the rows of run `r`;
`memPolicy`, `chainKnown`, `delegateOk` the server's memory; `snap`, `acts`,
`outcome`, `cur`, `tally`, `fail`, `exit` the task's locals; `tx` and
`deployed` the chain.  A step is one store call or one RPC together with the
computation up to the next one.  `fail` holds what the code passes to its
`record_*` helpers: the execution row that gets an error, the journal outcome,
the terminal status.  `StoreFails` and `RpcFails` are the `?`s.  `policy_set`,
mining, `deploy-delegate` and a restart are the environment.

**PolicyStore.**  `policy_set` is four steps, as it takes two locks of the
store and one of the policy: parse, read the previous revision, commit the new
one, install it in memory.  `drift` is a history variable: why memory and table
may differ when no call is between its commit and its install.

**Lineage and StrategyRegistry.**  `register` is atomic (one hold of the mutex)
except that its two statements are not a transaction: `RegisterTorn`.  A content
hash is a record, so it is injective and hashes with and without a lineage never
meet.  `Follow` maps the table to the contract: the current version of a lineage
is its active row, its past all its rows.

**TriggerDispatch.**  `pc` walks through the body of the dispatcher's loop, one
lock of the store or one await per step.  A trigger's id is a hash that includes
the strategy, so `LineOf` and `Pinned` are functions of the id.  `trig` is the
row the dispatcher loaded and goes on to use.  Time goes in ticks, `Grain` to the second;
stored stamps are truncated as `now_rfc3339` does.  Under it `Reregister` is any
step of `Lineage`, not of the registry's table.  `born`, `stale`, `seen`,
`faulted` and `lastRun` are history variables for the properties.

**Triage.**  The report is a function of `RunPipeline`'s rows and of what the
node answers about receipts, so it is checked in every state of a settled run
instead of on made-up rows.

**Sandbox.**  `phase` says who has the word: the script, a host function in an
RPC, the second RPC that resolves a block, the drain, the flush.  The script is
nondeterministic: it calls, logs, throws, catches, returns, or goes on for ever.
`made` is a history variable of what it did, `db` the journal.  `late` is the
clock past the deadline, `timedOut` the flag of the interrupt handler: QuickJS
polls it between instructions, never inside a host call, and a script may catch
the interruption as any other exception.  The text of an error is the set of the
words `classify_message` looks for, and the kind of EVM failure behind it.

**Dashboard.**  A view is known by the number of records it was rendered from.
One reader renders one strategy or walks all of them; listing, snapshot,
rendering, the upsert and the cache lookup are separate steps, `strategy_delete`
and captures go in between.  Five history variables: `best`, the most records
of a row stored since the last drop; `flightLow` and `rowLow`, what `best` was when the
rendering in flight, and the one in the row, began; `overtaken`, that a better row was
stored meanwhile; `base`, the records when a request came in.

**The pure functions.** `NodeReads`, `Units`, `HostCalls`, `Reads`, `Requests`,
`PolicyTexts` and `Documents` share one variable, `doc` (module `Doc`): an action
applies an entry point to every input of a small set and keeps input and answer.
The properties relate functions that the code expects to agree and nowhere compares:
there and back, read and sent, text and loaded policy, list and store. Integers have
widths: a word of `WideBits`, a JavaScript int of `IntMax`, decimals up to
`MaxDecimals`, so overflow happens. Texts are what the code distinguishes of them:
an address is its prefix, length and letter case, a source the list of its call
sites, a policy text a record keyed by spellings. ABI values and JavaScript values
nest to any depth, so the functions on them are recursive operators and stay in
`JsValues`, `HostValues` and `Documents`; `HostCalls` takes the three it calls as
constants (`ToJson`, `ToHost`, `ToDyn`), for which the run `documents` puts the
operators themselves. Lists are ordered by rank: the row at place `i` is the one
with `i - 1` rows before it (`OrderBy`). In the modules with theorems, arms whose
conditions overlap are an `IF` chain in the order of the code; in the others a
`CASE` is read in order, as TLC evaluates it.

## 3. Runs

Bounds are chosen so that each hazard can happen.

| run | shows | bounds |
|---|---|---|
| `policy_eval` | what is spent is the tally, within caps, on listed contracts; widening never revokes | 192 policies over two chains and two contracts; `MaxU256 = 3` so that three calls overflow it; a cap of exactly `MaxU256` included |
| `run_sequential` | gates, rows, journal, answers, status, contract, triage; every run settles | one run; every list of up to three actions, `noop`s included; a crash, store, RPC or receipt failure at any step |
| `run_concurrent` | one policy per run; a batch is whole, and the triage explains its revert | two batching runs, two actions, `policy_set` and `deploy-delegate` in between |
| `policy_store` | committed before enforced; memory follows the table; only calls replace | three calls, two policies that resolve and one that does not; at each boot a file that resolves, one that does not, or none; any number of crashes and boots |
| `registry` | unique indexes never fire; lineages are sound; no aliasing; a name survives; implements `Lineage` | two names, two bundles and one with actions, two minted lineages, three rows, two seconds, over any legacy table |
| `triggers` | stale triggers fire once; fresh target; one worker per registration; no repeat inside the window; `last_fired_at`; the dispatcher gets back to its channel | two focuses, chosen at the start: an interval trigger with predicate, two versions, two registrations, one restart and a dropped server; or a log trigger with one dedup key, a window of two half-seconds or one past the longest that has a cutoff (`MaxWindow`), and four half-seconds of time |
| `sandbox` | the journal is complete; an EVM failure keeps its kind; blocks resolve no earlier than read; every invocation settles | three calls, one new block, each kind of failure with and without the engine's words |
| `dashboard` | stale is the latest good, of overlapping renderings too as far as the code goes; full means rendered; cuts are told; a portfolio answers | one portfolio and one view request; three strategies, one deletable, one without a view, one declaring more than its cap; one captured record each; walks that are whole, cut, failed, or without a node |
| `documents` | conversions invert (amounts, values, the structured diff); calls agree; captures are what was sent; lists miss nothing; satisfied is admitted; new calls are announced where the sections the code compares open them | base 2, words of six bits, numbers of four; JSON objects two deep; amounts with signs, dots and hex prefixes, decimals at and past both limits; a node whose head is at block 3 and that answers at most its cap of logs; histories of up to four runs in three seconds, lists of at most two, limits past that cap; policy texts of two chains, one contract, two selectors, with two spellings of each key; files that are absent, unreadable, too big or no TOML; every pair of texts that differ in one table, or in the list of chains and the raw gate, or of which the second is refused for a cap or a key; sources of at most one call |
| `run_unjournaled`, `delegate_retry`, `registry_revert` | the code and what is written about it disagree (*Findings*) | the smallest instances that show it |

Why these are enough: the pipeline's locals are per run and two runs meet only in
the policy, the chain id and the delegate memo, which two runs exhaust.  A list of
three actions has a first, a middle and a last one.  Two rows of one lineage and a
third of another name give every collision `register` can see.  The dispatcher is
one task and handles triggers independently of each other, so one trigger shows
what can happen to a trigger; a queue of two holds an event behind the one in
hand.  An invocation of the sandbox has its own buffers and meets others only in
the store, whose calls are atomic; three calls hold a read, a log and a failure in
any order.  Two requests overlap in every way two renderings can; the walk treats
strategies one at a time and independently.  The pure functions are uniform in the
width of a word and the length of a list; the inputs go past each bound.

**Fairness.**  `RunSettles`: weak fairness of each live run's next step, except where it
awaits the node without a timeout (`AwaitsNode`): the broadcast, the nonce and chain id
of a batch (`local.rs:139-217`), the chain id of the server and the code of the
delegate go through a provider that has none (`provider.rs:16-21`).  A run may
therefore hang there for ever, and the property says so: it settles, or was cut short
by the node, the store or a crash, or awaits the node from some time on.  Elsewhere
tokio polls a woken task, store and policy locks are held for a bounded time, and
sandbox, simulation and receipt wait have timeouts, so nothing is assumed of the chain.
`DispatcherReturns`: weak fairness of the dispatcher except while a run is on (its other
awaits are the store's mutex and predicates); none of runs, workers, spawns, tools or
time.  The dispatcher gets back to its channel unless the server is gone, a window
without a cutoff made it panic, or the run it awaits never ends.
`InvocationSettles`: weak fairness of the clock, of RPC answers (each request has
a timeout) and of the host's own steps; strong fairness of `Poll`, as QuickJS
counts branches and calls down to the next poll of its handler however they are
interleaved with host calls, during which it is not polled.  Nothing is assumed of
the script.
`PortfolioAnswers`: weak fairness of a request under way, which is a task as a run
is; none of deletes, captures or the start of requests.

Deadlock is checked where the instance cannot stop; elsewhere a server with no
call under way stops, and the bounds on calls, rows and time stop the instances.

## 4. Proofs

Checked by TLAPS for every value of the constants that satisfies the named
assumptions of the modules (sets of the right type, bounds that are naturals, and
a `None` that is none of the values it stands in for).  Liveness, facts that need
an induction over data, and `ENABLED` are out of the prover's reach.

*Policy_proofs* — the evaluator: lemmas on the type of `Evaluate`, on saturation
and `WiderAllows`; `Typing`, `TallyCorrect`, `SpendBounded`, `DenyByDefault` and with
them `SpendIsSound` from `Inv` = all of them (each is inductive only with the
others), and `Widening` from `WiderAllows`.  The texts: `LoadedShape` gives the
policies a text may load to as independent choices among the texts of each key.
`AlignmentHolds`: the order of a chain's texts is total and a table finite, so the
chain the alignment looks up exists (`FirstText`) and lists the contract, one
spelling of the contract is kept (`SomeKept`), and without two keys of one meaning
the loaded policy has exactly what that text says (`CoveredIsAdmitted`).
`RevisionsAnnounced`: what is listed and not announced was listed under the same
text before (`ListedBefore`, `PatternBefore`, and from them `ContractBefore`,
`SelectorBefore`), the old text may have loaded to a policy with both (`SomeLoading`),
its gates are the same in every loading (`LoadedGates`), and a plain call passes where
its gates do (`PlainAllowed`).  The two exceptions are part of the property: an old
policy without the chain, and a call that an entry of `raw_call` admits.  `TextsAssumption`: tables are finite, chain
ids are numbers and `None` is not a set of addresses.  Both are theorems of
`SpecTexts`; the run `documents` checks them under `Spec`, whose other actions answer
about other topics.

*PolicyStore_proofs* — `IInv` adds to the type what each call knows at its step:
the revision it inserted is in the table and is its body.  `PersistedBeforeEnforced`
is not inductive without that, as `Install` copies a local.  `MemoryLag` needs that
a call whose revision is still active and whose install is done left memory equal
to it.  `Replacement` is an action property from the same invariant.

*RunPipeline_proofs* — `IInv` is `TypeInv` (types, and the shape of `acts` and
`cur` by phase) and per run:
`PhaseInv` (which status and exit go with which phase),
`JournalInv` (how many journal rows each phase has, and that the failure the run
carries agrees with the row and status it will write),
`InertInv` (nothing sent or recorded before `send`, or on a denial),
`GateInv` (which actions have which decision rows in which phase),
`ChainInv` (a batch: all or nothing through the first action; else: every action
before `cur` is mined and confirmed, the one at `cur` in the state its phase
says, nothing after it).
`GatesBeforeChain` is not inductive: the step that sends does not look at decision
rows, it relies on `pc`, hence `GateInv`; `SequentialPrefix` needs `GateInv` and the
phase of `cur`.  Preservation is one step per action of one run, `Frame` and
`FrozenInv` for the other runs, and one lemma per environment action.
`AnswersAreTruthful` puts together `JournalTruthful`, `AnswersSettle` and
`DenialIsInert`.  `Refinement`: `Spec => ImplementsContract`; `Seen` lists what a step may change of
the contract's four variables, `RunStepSeen` shows that each action is one of these
or nothing, `SeenImplements` that each is a step of `RunContract`.
`SpendWithinSnapshot` rests on `SpendInv`: in the policy gate the tally is the sum of
the amounts judged so far (`SpendUpTo`), stuck at the largest U256, and what was
judged is allowed and within the caps of the snapshot (`WithinUpTo`); from the
simulation on that holds of the whole list, and nothing is sent before.
`TallyFollows` carries both over one action.  `SpendUpTo` is a recursive function on
the length of a prefix; `SumsExist` shows that it does what its definition says, by
the least length without a solution.

*RunRows_proofs* — on top of that, the rows.  `RowsInv` has, per run: `RowOK` (what
a row may claim of its transaction, whatever the phase), `Explained` (a sent
transaction without its row: the window before the record, a store fault or a
crash), `Agree` (the rows of a batch) and `PhaseRows` (which rows are blank, sent or
confirmed in which phase).  `RowsTruthful` is not inductive: a receipt row is written
from the receipt the task holds, and that the chain still shows it rests on mining
never changing a transaction that has been mined, and on `None` being no
receipt.  `BatchIsWhole` needs that the
loop over a batch's rows writes the same outcome to each.

`TriageIsTrue` and `SequentialRevertsAreHidden` (no run without a batch is explained by a
revert) add `StoryInv`: a run that shows a failure has a failed row or no row
at all, a decision row of a failed gate goes with a run that is about to be denied or
was (a storage fault or a crash aside), and without a batch a failed row has its error
text, unless the step that writes it is the next one.  The property says nothing of a
run before it settles, so it needs what is written on the way.  Of the node it is
assumed only what `Fetches` lists: any receipt of the row, an error or a timeout.

*Sandbox_proofs* — `IInv` has three parts.  `Typing`, with what a lookup under way
knows of the head (`PendingOK`).  `Outcome`: where a script ended with an exception in
flight, nothing has raised the flag and its text alone gives the kind; from there
`KindReachesCaller`.  `Ledger`: before the flush the buffers hold all calls of each
kind, during it the rows written and those still held are together what is expected,
and a failed write drops the rest; so the journal is a prefix at every step
(`JournalTells`).  `CallsWith`, the calls of one kind in order, is a recursive
function; `CallsWithIs` and `CallsWithAppend` say what it returns.  `RowsNameTheirBlock`
needs that the head does not go back between a read and the lookup of its block.

*Reads_proofs* — everything that is read.  The dashboard: `IInv` adds to the types
what a reader holds at each step: what it rendered is no more than the records there
are, and no less than the best row that was stored when it began (`FlightInv`).
`Store` copies a local, so `StaleIsLatestGood` says nothing about the next step
without it.  `RequestInv` says that what a request holds is not older than the
request, and `FullRendered` carries it through the walk to the answer: a delete or
a capture in between only makes the answer less than full.  It is about views; the
walk over the balances may have left a token unread, and prices are not modelled.
`CutsTellable`: an entry that is missing where its strategy
is not marked truncated means that not all entries were taken (`CutShows`), which
lowers the confidence. For an entry past its own strategy's cap this counts the
entries before it; that the lists stay under the total cap counts those before the
last one taken (`LastEntry`), which exists as the strategies are finitely many and
their entries in a total order.

The rest of the module is about `doc`: one theorem for each of the specifications
`SpecReads`, `SpecCalls` and `SpecRequests`, which have the actions their property
is about.  The run `documents` checks the same properties under `Spec` of
`Documents`, whose other actions answer about other topics but reach recursive
operators.  The assumptions say that what is given is of its type: lists are lists,
tables are finite with an id per row, the times of a history and the blocks of a
chain do not go back.

`ReadsMissNothing`. Where no two rows compare equal, `OrderBy` gives every rank to
one row, so a list holds the rows of its query, newest first, and a cut drops the
oldest; what was in the first poll started no later than `since`, and what is missed
by both started in that second, or a page was full. A row is recorded with a
sequence number one above all before it, and times do not go back, so a journal is
read as written. `HitsStep` and `HalvesMatch`: the logs of a range are those of its
lower half followed by those of its upper half, as blocks do not go back along a
chain, and each half is no longer than the whole.  The sum of a function over a
finite set is a number of cells, one per unit (`SumIsCells`), so it is the same over
the rows as over the places of their list.  The counts of a day are cardinalities of
disjoint sets of rows. A link resolves as the list and the lookup read one table.

`HostCallsAgree`. `readContract` answers only where one overload has the arity, and
then the first of that arity is this one (`ReadIsEncoded`); both convert the same
arguments (`ReadArgsAreSent`). A builder that answers ran its validators on the
fields that it returns (`BuildChecks`, `NoneFails`). Amounts, for any base, width
and number of decimals: `Value` and `Numeral` are recursive functions, of a length
and of a number, and `ValueExists` and `NumeralExists` show by the least
counterexample that they do what their definitions say. `NumeralIs`: the value of
the numeral of `n` is `n`. `LeadingZeros` and `Trimmed`: zeros ahead change no
value, and zeros behind are all that `format_units` trims; so whole and fraction,
filled up to the decimals, have the value of the number (`Halves`), `parse_units`
finds them on both sides of the dot (`DottedParts`) and reads the number back
(`ReadBack`).

`CapturesAreSent`.  The rows of a sweep are the rows of its pairs of an action and a
spec, joined (`FlattenHolds`), so with names that differ a captured row has one spec
it comes from (`CapturedFields`).  The entry that is encoded is an overload of the
function (`EntryIs`), and where it is also the first of the name, the selector the
sweep computes is that of the call (`HexMatches`, `SelectorsOf`); with one overload
its inputs are the names the arguments are looked up under (`ArgumentIs`); a hash is
that of a row of the action (`HashIs`).

*StrategyRegistry_proofs* — each operation is an `Effect` (rows soft-deleted, one
row added, nothing else of a row changed) that is `Admissible`, and `EffectKeeps`
shows once that such an effect keeps the table.  `LineagesSound` needs `Hashed` (an
id with a lineage in its hash is a row of that lineage, so a fresh lineage never
collides with a row there is) and `Youngest` (the active row of a lineage has the
latest time, so its rank is the number of rows).  From the code comes the assumption
that hashes are injective and that minted lineages are neither hashes nor
`None`.  `Refinement`: fresh registrations found, replacements replace, deletions
and torn replacements of an active row drop, everything else stutters.

*TriggerDispatch_proofs* — `StaleInv` (an event past the load has no stale run of
its trigger before it), `SeenInv` (what the lineage is now has been seen), `LogInv`
(the last run of a key left a row in its second), `DedupInv` (past the check, the
window is over) and `FiredInv` (no fire in the future).  `NoRepeatWithinWindow`
compares times where the code compares truncated seconds; `EarlierSecond`, that a
time in an earlier second is earlier, carries it over for every grain.

Only model-checked: the four liveness properties (`RunSettles`, `DispatcherReturns`,
`InvocationSettles`, `PortfolioAnswers`), `BatchRevertIsExplained` of `run_concurrent`,
whose proof would need every row of a batch in every step of the error path, and
`ConversionsInvert` of `documents`:
ABI values and JSON bodies nest to any depth, the functions on them are recursive
operators, and what they do for every input is an induction over that data. An
induction over naturals, or over the subsets of a finite set, is done by the least
counterexample (`WFMin`).

## 5. Findings

Shown by a run each:

- `delegate_retry`: a negative answer about the delegate is memoised, so the retry
  that the `delegate_not_deployed` error advises fails until a restart.
- `registry_revert`: registering an older bundle of a lineage again answers with
  its soft-deleted row and activates nothing.
- `run_unjournaled`: a run whose provider or chain id cannot be resolved ends
  without a journal row and stays `running`.

Seen while modelling, and not run.  Where a checked property is weaker than what is
written, because the code is:

- A failed simulation is reported as "Policy gate blocked", with the advice to change
  the policy: the first heuristic takes any decision row that is not a pass, under the
  comment "Policy deny" (`prompts.rs:2522-2547`).  So `TriageTellsTheRun` says that the
  gate is told of denied runs, not that the policy denied them.
- "What succeeded" is always empty: it looks for `succeeded` (`prompts.rs:2190`), and
  the rows say `confirmed` (`executions.rs:86`).
- The reason of a revert is not found where actions were sent one by one: the text that
  the handler leaves on the row (`tools.rs:1905-1913`) comes before the receipt
  (`prompts.rs:2489-2513`), against "revert likely cause must echo the revert reason"
  of `tests/prompt_triage_run.rs:256-259`, which seeds a row that no handler writes.
  `SequentialRevertsAreHidden` proves it of every run without a batch; in a batch only
  the first row has that text, and the others tell (`BatchRevertIsExplained`).
- The announced capabilities ignore `chains.allow` and the entries of `raw_call`: a
  revision that adds a chain opens in silence what was listed for it
  (`policy_diff.rs:113-202`).  These are the two exceptions of `NewCallsAnnounced`.
- A token whose balance cannot be read is left out as if it were zero, under status
  `ok` and so under `full` (`web_portfolio.rs:79`, `248-271`, `381`), and prices may come
  from their cache: `FullMeansRendered` is about views and the native balance.
- The last rendering to be stored stays, also when it was made from fewer records than
  the one it replaces (`view_cache.rs:36-52`, against "the most recent successful body",
  4-6).  `StaleIsLatestGood` bounds how far that goes.  A row brought back after
  `strategy_delete` is accepted by the comment there (`tools.rs:481-484`).
- A `dedup_window_ms` past the dates of chrono panics in the dispatcher's own task
  (`triggers.rs:372`, `dispatcher.rs:93-96`): no trigger fires until a restart.  It is one
  of the ways out of `DispatcherReturns`.
- The broadcast and four more calls of the node have no timeout (`provider.rs:16-21`), so
  one silent node stops a run, and from a trigger the only dispatcher, for ever: the
  other way out of `RunSettles` and `DispatcherReturns`.
- `trigger_delete` leaves the worker running (`WorkerPool::stop`, `pool.rs:133`, is called
  nowhere), and registering the trigger again starts a second one beside it (`pool.rs:70`).
  `OneWorkerPerRegistration` counts both: two rows came, two workers did.

In the tables and tools:

- Two concurrent `policy_set`s can commit in one order and install in the other;
  memory and table stay apart until the next call or restart.  The lag is part of
  `MemoryFollowsTable`, under `drift`.
- The store's updates of an execution row do not look at its present status
  (`executions.rs:78-142`): only the order of the handler keeps a confirmed row from
  going back, which `RowsTruthful` checks.
- `strategy_delete` drops the cached view even when the soft delete then fails
  (`tools.rs:479-491`).
- `policy_set` reads the previous revision under another lock than the one it
  replaces it under (`tools.rs:1107`, `1119`), so two overlapping calls can diff
  against one previous revision.
- `created_at` has whole seconds, so two registrations in one second leave a
  lineage without a version 1 (`strategies.rs:639`; its comment at 503-504: "1 = oldest").
- A dry run answers the hash without a lineage (`tools.rs:303`), which no
  registration under a fresh name answers (`strategies.rs:359-369`).
- A window past `i64::MAX` is stored negative and read back as none (`triggers.rs:96`,
  `139`).
- No pool sync follows `trigger_set_enabled` (`tools.rs:1290-1293`): a trigger
  enabled after boot gets no worker.
- Events that fire during a run are queued, not rejected (`dispatcher.rs:29`
  against `prompts.rs:103`).
- The dedup window does nothing for interval triggers, whose events have no key
  (`dispatcher.rs:89-92` against `interval.rs:19-20`).
- `list_decisions_for_run` speaks of "millisecond granularity" (`journal.rs:171-173`);
  `now_rfc3339` writes whole seconds.  The sequence makes up for it.

In the sandbox and the host functions:

- `classify_message` takes any text that contains `oom` or `interrupted` for the
  engine's own failure, a revert reason included (`sandbox.rs:863-872`).
- `decodeUint256` adds 32 to an offset of the script without a check
  (`sandbox.rs:1902-1984`): the sum wraps, the slice panics, the blocking task's join error is answered
  as a storage error and the run stays `running`.
- The journal kind of `getLogs` is `evm_logs` in its comment (`sandbox.rs:1612`,
  `1814`) and `evm_read` in the table (`runtime.rs:169-174`).
- `contractCall` takes the first overload of an arity (`dyn_abi.rs:68`),
  `readContract` refuses two (`read.rs:210`).
- An integer of an ABI type up to 32 bits and beyond `i32` becomes a float in
  JavaScript and is refused when it is passed back.

In views, records and lists:

- The portfolio's comment says "worst wins" (`resources.rs:2942`); a stale strategy
  and a degraded balance walk give `stale`, not `partial`.  A per-strategy cut does not lower the
  confidence.
- `sum(field)` of a view answers "0" where the total overflows or a value is not a
  number, and only the last 500 rows are summed.
- A nested brace hides a `contractCall` from the extractor, whose status stays
  `Complete` (`contracts_touched.rs:35`, `133`).
- A log match captures nothing: `capture_records_for_run` has no logs to give.
- An ABI entry without a name before the function makes `args.name` and hex
  selectors fail (`records.rs:393`, `669`); of overloads the first is taken.
- `since` of the lists accepts any RFC 3339 text and compares texts
  (`runs.rs:413`): runs of the second of the last poll are missed, and captures, which
  have milliseconds, of the rest of that second.  The counts of a day stop at 500.
- `policy://history` ignores parameters it does not know and does not decode `%`.

## 6. Plan

Done, in the order of importance: policy and pipeline, policy storage, registry,
triggers, sandbox, views and portfolio, records, lists and the pure functions;
theorems about all of them but the conversions of nested values.  Left:

1. `SignerNonce`: two runs and an operator share a key; `pending` nonces are
   fetched, not reserved (`local.rs:178`), so nothing in the code promises that no
   two transactions replace each other.  A model would show the known gap.
2. `evaluate_predicate` of the sandbox: one more entry point with the same limits.
3. Price feeds with their cache, and the decoding of revert data.
4. `Daemon`: `TriggerDispatch` over `RunContract` and `StrategyRegistry` in one
   instance; today it meets them through `Lineage` and through a run that ends.

## 7. Not modelled

JavaScript itself, the bytes of an ABI encoding, cryptography and key storage,
nonces (the node gives them out, and nothing in the code reserves one), price
feeds, the balance walk's RPCs, the web pages, static resources, the other
prompts, TOML's grammar, configuration files other than the policy, logging, and
the installer: no protocol state, or I/O only.  Memory and stack limits of the
sandbox appear as the errors they end in.  Subscriptions and reconnects of the
trigger workers are covered by letting a worker fire at any time with any of its
keys, again and again.
