# KronosStock: a TLA+ model of the paper trader and the data it trades on

KronosStock collects market data for Korean semiconductor stocks, computes a
daily flow index (KSF, the "K-Semiconductor Flow Desk"), and lets an autonomous
agent trade on *paper*: a simulated account whose ledger is append-only, whose
quantities are chosen by a deterministic risk engine and never by a language
model, and which must stay reconstructible from its rows alone. An older part,
the forecast dry run, trades a second simulated portfolio kept in Redis.

These modules model the parts of the program in which a mistake costs (paper)
money or falsifies the record: the ledger, the proposal boundary, the risk
review, the broker and the daily cycle that composes them; the KSF ledger as a
file that processes share, the rows a production run selects and scores, and
what becomes of its decisions; and the dry run. TLC checks them on small
instances; TLAPS proves the safety properties, and that the cycle implements an
atomic account, for every value of the constants. Liveness is model-checked
only.

    tlc -workers 2 -config PaperCycleModes.cfg MCPaperCycle    # one model-checking run
    tlapm PaperLedgerProofs.tla                                # the proofs of one module

Contents: [inventory](#1-inventory) - [plan](#2-plan) -
[modules and code](#3-modules-and-the-code-they-model) -
[runs](#4-what-each-run-checks) - [divergences](#5-where-the-code-disagrees-with-itself) -
[proofs](#6-what-is-proved) - [limits](#7-what-is-not-modelled).

## 1 Inventory

### The paper trader

| component | state it keeps | operations | hard because |
|---|---|---|---|
| **Paper ledger** `paper_trading/ledger.py`, `migrations/001_autonomous_paper_trading_ledgers.sql` | 14 SQLite tables: accounts, switches, decision, proposal, review, order, order events, fill, cash and position events, NAV snapshots | `create_account` and nine `append_*` methods, derived balances, states *as of* an instant | every call may be repeated under the same or another identifier; instants are chosen by the caller, so rows arrive in another order than their dates; a row's legality depends on four others |
| **Paper agent** `strategy/paper_agent.py` | none | one proposal per symbol from a feature snapshot and a model's answer; anything doubtful is `ABSTAIN` | derives again what the engine derived; the answer is untrusted; reasons must be true |
| **Risk review** `strategy/paper_risk.py` | none (`evaluate_risk` is a pure function); `review_and_persist` rebuilds its input from the ledger | one review per proposal | a cascade of seventeen rejections in a fixed order; whole-share divisions; approvals not yet filled must be reserved; history is audited at every call |
| **Paper broker** `strategy/paper_broker.py` | none | `execute_order`: price, fee, tax, fill, NAV snapshot | rounding against the account; two appends that belong together |
| **Paper cycle** `strategy/paper_cycle.py`, `strategy/paper_source.py` | one commit row per session; a file lock and a `BEGIN IMMEDIATE` transaction | settle, mark, decide, propose, review, order, commit, deliver a digest | partial failure and crash anywhere; modes mixed over sessions; a switch flipped between cycles; re-runs |

The cycle calls the broker for every open order, then the agent and the risk
review for each symbol; all of them read and write through the ledger, on the
one connection that holds the cycle's transaction. An operator writes switch
events through the same ledger between cycles.

What makes each correct: the ledger records one effect per signal, never a short
position, a loan, a look-ahead or an unauthorised fill, and can be re-read and
re-sent; the boundary asks a model only about sound data and lets only valid,
complete and truthful proposals out; the review never oversteps a limit and
never refuses more than it must; the broker never charges less than the rates;
the cycle is all or nothing, obeys the switches and changes nothing in shadow mode.

### The data it trades on

| component | state | operations | hard because |
|---|---|---|---|
| **KSF writer lock, dashboard snapshot** `ksf/ledger_lock.py`, `scripts/deploy/prepare_ksf_dashboard_snapshot.py` | a lock file; the SQLite file, its `-wal` and `-shm` | acquire with a deadline, copy, publish | writers, readers of an *immutable* file, kills in a checkpoint |
| **KSF production run** `ksf/production_runner.py`, `ksf/scoring.py` | runs, feature and score rows | migrate, collect, gate, score, check | each stage commits on its own; a run is repeated after a failure |
| **Collectors, feature engine** `inference/k_semiconductor_*`, `ksf/global_collector.py`, `ksf/feature_engine.py` | feature rows with a source time, an ingestion time and a status | append rows; select the latest as of a cutoff | dates of three time zones; failures are rows too; the past must stay what it was |
| **Response bundle and handoff** `ksf/response_bundle.py`, `ksf/offline_response_bundle_producer.py`, two shell wrappers | one bundle file per session, one handoff file | invalidate, hash, load, publish once, hand over, consume | a failure between any two; the source changes in between |
| **Performance settlement** `ksf/performance_settlement.py` | one outcome per decision and horizon | `settle_due_decisions` | calendars and prices arrive late and are corrected |
| **Dry run** `bot/scheduler.py`, `strategy/analyzer.py`, `strategy/paper_trader.py`, `inference/*fetcher.py` | price bars and one portfolio in Redis | refresh, forecast, load, trade, save, tell | cycles overlap; Redis and vendors fail; prices are missing |

What makes each correct: nobody reads a half-written file or publishes an
incomplete copy; a run is scored for all symbols or none, with the required inputs
of the session it names, from observations that were public; a cycle uses exactly the runs of its
bundle; a result is computed once and does not depend on when; a saved portfolio
is one cycle's work and what was reported was saved.

### The rest

AI explanation, strategy evaluation, paper evaluation, web APIs and dashboard,
and the operations check keep no state that anything above reads (section 7).
`PROJECT.json` lists every component with its status and every hazard at the
line where it bites, with the properties that would catch it or the reason why
there is none.

## 2 Plan

| module | composes | checked | proved |
|---|---|---|---|
| `PaperLedger` | | authority, exactly-once, look-ahead, lifecycle, long-only, conservation, replay | all of them |
| `PaperRisk`, `PaperRiskGate` | | limits, maximality, exact sales, no pyramiding | all of them |
| `PaperBroker` | | through the cycle | rounding, charges within proceeds |
| `PaperCycle` | the three above | atomicity, shadow, limits across symbols, caps, switches, digest | all of them |
| `PaperBook`: the abstract account, one atomic step per session | refined by `PaperCycle` | as a property of the cycle | the refinement |
| `PaperAgent`, `PaperProposal` | the risk gate | the boundary, and what its proposals become | all of it |
| `KsfStore` | | exclusion, complete copies, provenance of bundles and cycles, no endless wait | all but the wait |
| `KsfSignals` | | look-ahead, session of the required inputs, stable past, loadable lineage, freshness | all of them |
| `KsfSettlement` | `KsfSignals` | final, timely, reproducible results | all of them |
| `DryRun` | | conservation, cap | both, and reports |

The plan is carried out: every safety property the runs check is proved as well,
and liveness stays with TLC.

## 3 Modules and the code they model

### `PaperLedger` (`MCPaperLedger`, `PaperLedgerProofs`)

A table is a function from the identifiers present to rows; an event log is a
sequence per owner. Every public writing method is one action, with all of the
child rows that its `AFTER INSERT` trigger emits: creating an account emits
`CREATED` and the deposit's cash event, an order emits `ACCEPTED`, a fill emits a
cash event, a position event and `FILLED`.

A method does one of four things: insert, recognise a replay, raise a conflict,
or raise for another reason. The `...Outcome` operators say which, in the code's
order (checks of the arguments, replay test, constraints and triggers of the
row); the action is enabled exactly when the outcome is "inserted", and
`Replayable` asks what a repeated call would do. One call is one step: it runs
under `BEGIN IMMEDIATE`.

| TLA+ | code |
|---|---|
| `accounts`, `accountEvents`, `killEvents` | `paper_accounts`, `paper_account_events`, `paper_kill_switch_events` |
| `decisions`, `proposals`, `reviews`, `orders`, `orderEvents`, `fills`, `navs` | the tables of the same names |
| `cashAsOf[a][t]`, `positionAsOf[a][s][t]` | `cash_balance_as_of`, `positions_as_of`: sums over the event tables, kept as the function of the instant that they define; the value at `MaxTime` is the sum of all events (`cash_balance`, `positions`) |
| `Submit`, `LogEvent` | `_append`, the replay tests |
| `Open`, `EventCausal`, `FillCausal` | the triggers |

Abstracted: hashes, model names, currencies, reason codes and texts are carried
by the code without being compared to anything else. That `cashAsOf` really is
the sum of the events is the invariant `Conservation`.

### `PaperRisk`, `PaperRiskGate` (`PaperRiskProofs`, `PaperProposalProofs`)

`PaperRisk` is `evaluate_risk` line by line: the request, what `RiskInput`
refuses to construct, and the cascade of rejections in its order, with Python's
`//` as `\div`. `PaperRiskGate` reviews one symbol and executes what is accepted,
without costs, then reviews again. The limits at the end of `PaperRisk`
(`Affordable`, `WithinPosition`, `WithinExposure`, `WithinTarget`, together
`Permitted`) are the reference definition: they are written as inequalities without a division, so they do not repeat the code's arithmetic.
As a request's NAV is its cash plus its positions and no policy's aggregate cap
exceeds the NAV, a purchase within that cap is always affordable: the cash limit
of the code decides the reason of a refusal, and is a second line of defence.

### `PaperAgent`, `PaperProposal` (`MCPaperProposal`, `PaperProposalProofs`)

`PaperAgent` is the boundary around the language model as operators:
`StructureCanonical` derives the lists, the state and the group contributions of
a snapshot again from its rows, `PreModelAbstainReason` says why the model must
not be asked, `Catalog` what it may cite, `ValidProposal` what it may answer,
`Validated` and `Abstain` what becomes of the answer.

`PaperProposal` makes a behaviour of it: a snapshot, either the engine's
(`EngineOutput`, from `build_symbol`) or one with something forged in it; the
request; the transport or the abstention; the conversion of a target in percent
to the ledger's basis points in `run_cycle`; then the reviews and executions of
`PaperRiskGate` on the same book. Targets are in tenths of a basis point so that
rounding happens. A digest is its preimage, so two are equal exactly when what
they are taken of is. Closed schema and canonical copy are a Boolean each: what
they refuse is refused, how a text is compared is left out. Every invalid answer
becomes an abstention but one: `AnswerOverflows`, an integer too large for a float,
raises what `propose` does not catch, and the cycle rolls back.

### `PaperBroker`, `PaperCycle`, `PaperBook` (`MCPaperCycle`, `PaperCycleProofs`)

`PaperBroker` is the broker's arithmetic. `PaperCycle` extends the other three
and runs the cycle one ledger call at a time; `run.stage` is the place the
process has reached:

    idle -> settle <-> fill_nav -> decide -> propose -> review -> order -> decide ... -> alert -> idle

| action | code |
|---|---|
| `Begin`, `Rerun`, `Refuse` | `run_cycle` up to `BEGIN IMMEDIATE`, `_authoritative_state`, the comparison with an existing commit row |
| `SettleOrder`, `SnapshotFill` (or `SettleFails`, `SnapshotFillFails`) | the settlement loop, `execute_order`'s fill and its NAV snapshot |
| `Marking`, `MarkingFails` | the cycle's own snapshot |
| `Decide` | `propose` and `append_agent_decision`; an answer the gate refuses is `ABSTAIN` |
| `Propose`, `ReviewProposal`, `ReviewFails`, `PlaceOrder` | `append_order_proposal`, `review_and_persist`, `append_order` |
| `Commit`, `Alert` | the commit row, the digest after the lock is released |
| `Crash` | the process dies: the transaction is rolled back, an undelivered digest is lost |
| `Operator` | a switch event written between cycles |

The transaction: the ledger's variables are what the connection holding it sees,
`saved` is what a rollback restores. Nobody else can write inside it
(`BEGIN IMMEDIATE`, and the file lock is taken first), so no other action is
enabled in between; a cycle that finds the lock taken returns without an effect
and is not an action. An exception in any step is a `...Fails` action, which
rolls back.

Identifiers are hashes of the cycle's payload; since a session commits at most
one payload, `<<session, symbol>>` stands for them. Orders are settled in the
order of their hashes, that is, in any order. Reservations of one review are
taken in no stated order either; where that order decides whether the code
raises (`MayOversell`, `MustOversell`), both outcomes are possible.

A session has three instants: two at which a symbol's data may be cut off, then
the cycle itself (`CutoffAt`, `CycleAt`).

`PaperBook` is what a reader of the committed ledger sees: cash, holdings, the
queue of orders, and one step per session that executes the whole queue or, in
shadow mode, moves nothing. `PaperCycle` refines it (`Book`, `SessionsAreAtomic`):
inside a transaction the abstract state is `saved`, so every intermediate step,
failure and crash is a stutter and `Commit` is the step.

### `KsfStore` (`MCKsfStore`, `KsfStoreProofs`)

The database is the sequence of its commits, `log`; `main` says how many of them
are in the main file, `sidecars` which of `-wal` and `-shm` exist, `torn` that a
checkpoint is copying pages or died doing so. That part is SQLite and external:
it is modelled from what the code relies on (a WAL reader sees every commit, an
immutable open the main file alone, the last close checkpoints and removes the
sidecars, the next opener recovers).

| TLA+ | code |
|---|---|
| `Acquire`, `...TimesOut` | `ledger_lock`: the polled flock with its deadline |
| `OpenLedger`, `Collect`, `ScoreSymbol`, `CommitScores`, `StageFails`, `CloseLedger`, `RunnerDies` | `_open_and_migrate`, the stages of `run_production_locked`, `persist_scoring`, the close |
| `LookAtSidecars`, `CopyThroughWal`, `CopyMainFile`, `PublishCopy` | `create_snapshot` |
| `HashSource`, `LoadSymbol`, `CheckSource`, `PublishBundle` | `load_ksf_sqlite`, the producer's second hash, the link that publishes once |
| `NameCycle`, `HandOver`, `TakeHandoff`, `RunCycle` | the two shell wrappers and `run_cycle_from_env` |

A committed paper cycle is one step here because `SessionsAreAtomic` shows that
it may be.

### `KsfSignals`, `KsfSettlement` (`MCKsfSettlement`, `KsfSettlementProofs`)

`KsfSignals` is one symbol's rows. A value is abstracted to the date it was
observed for, which is what staleness, look-ahead and selection depend on. Close and
volume of a response share their fate and are the name `"close"`; the one-day return
is stored only when the response has an earlier row, and is a name of its own
(`PriceRows`).
`Published` says when an observation labelled with a date exists; three instants
a day separate a label (midnight UTC is 09:00 in Korea), the Korean close and
the time settlement waits for. No cutoff is before 09:00 (the timer runs at 16:10).
`KnownAt`, `LatestFeatures`, `State` and
`BuildSymbol` are the engine's selection and gate, `PersistScoring` copies the
selected rows into the run, `LoaderAccepts` is the test with which
`load_ksf_sqlite` derives a snapshot again.

`KsfSettlement` adds `settle_due_decisions` on the runs scored: four outcomes, a
calendar and bars that the caller brings and that may be short, bars that are
corrected the next morning, and the trigger that keeps a row's due time. It may be
called any number of times. The caller is assumed to bring the bar that was confirmed
at the close whenever it brings that date (`BarsUpTo`); the code does not ask for it
and would settle on a correction that comes alone.

### `DryRun` (`MCDryRun`, `DryRunProofs`)

One process per job: a timer wrapper that refreshes and runs a cycle, a service
job that only runs one. `ohlcv` and the last element of `saved` are Redis: the
close of the last bar, of whatever day, or nothing, when the key has expired
(`Expire`) or an empty frame was buffered. A read of Redis may fail (`Load` with the default portfolio), a write or a vendor
may raise (`Fails`). The watchlist may name a symbol twice: the signals are the
dictionary the code returns, in which the later forecast of a symbol takes the
place of the earlier one (`Put`). `apply_signals` is one step per signal (`Trade`)
and ends with the cycle's portfolio (`Traded`); a price of 0 raises on the way. A
portfolio carries the position in `saved` it was loaded from and the signals it
was traded on, which is what `Conserved` and `PurchaseWithinCap` compare it with.

## 4 What each run checks

| run | instance | shows |
|---|---|---|
| `ledger_orders` | two complete chains, two identifiers and keys of every kind, one deposit that pays for one purchase | however calls are repeated, renamed and reordered: one fill per signal, long-only, an order never both filled and cancelled |
| `ledger_history` | two chains dated at either of two instants and filled at instants 1 and 2 in either order, snapshots in between | as-of balances are the sums of the fills; what recorded an account, decision, proposal, review, order or fill is recognised as a replay; every row follows the row that authorises it; a fill's price was observed after its decision and after the data it could see |
| `risk_gate` | two required features, one optional, one of no list and one without a group, each absent or with one of several flaws; the engine's snapshot, the same with its lists cleared, or one forged; answers of every action with targets around each limit, other reasons and citations; five books. Besides, every book of up to 73 KRW at prices 3 and 7, caps of 50 % and 90 %, every stop reached exactly and overstepped | the model is asked only about sound data; the engine's snapshots pass; a proposal blames the data exactly when the model was not asked; of the targets the boundary lets out, only those of at most half a basis point raise; purchases are the largest within the limits, sales exact, near the target asked for; one fill satisfies a proposal |
| `cycle_modes` | one symbol, three sessions in any order and either mode, a close that moves | at most one digest per session; the cycle refines `PaperBook`: a shadow session moves nothing, one in fills mode settles the whole queue, once, and leaves no backlog |
| `cycle_whole` | three symbols, two orders a day, two sessions, either mode, cutoffs at either instant | all or nothing under every failure and crash; the approvals of one session, in either mode, fit the book and the daily cap *together* |
| `cycle_switches` | two switch events, at a cycle's instant or after it | no commit against the latest recorded state of a switch; once a later event is recorded, what a switch said as of an instant is final |
| `ksf_store` | two production runs before or after the close, one copy for the dashboard, two bundle productions, paper cycles; two symbols; under `FairStore` | writer and snapshot exclude each other; a copy contains every commit, also after a kill; a bundle's hash tells its lineage; the handoff is of the latest production; a cycle uses the runs of its bundle; a wait for the lock ends |
| `ksf_desk` | three days with a holiday, two runs, a peer and the exchange rate, any number of settlement calls | no look-ahead; close, volume and flow of the session that had closed; the past as of a cutoff does not change; a scored run can be loaded; a ready observation is fresh; results are final, in time and independent of when they were computed |
| `dry_run` | two overlapping cycles, two symbols of which the watchlist repeats one, prices 0, 2 and 5, bars that expire at any time | a saved portfolio is one cycle's orders on one earlier portfolio, never negative; purchases within the share |
| `cycle_same_instant`, `cycle_oversold`, `ksf_settlement_blocked` | | see section 5 |

**Bounds and why they are enough.** The hazards concern two rows that compete
(for a key, for cash, for an order's terminal state), so two of each identifier;
a third session is the first that can see a backlog across a session that did
not settle it. In the risk runs, 3 and 7 divide none of the amounts evenly, so
every division is inexact somewhere; two of the books are large enough for a
basis point to be worth several shares. In the store, one run may follow another
that was killed anywhere, one production another that failed anywhere: two of
each; one invocation of the production run is at work at a time (systemd does
not start a unit twice), so what the lock separates there is the run and the
copy. The desk needs a holiday between two sessions (labels and sessions
differ), a day after the target (a correction arrives) and two runs (a later one
could change the earlier one's past). Two cycles of the dry run are enough for a
lost update. Bounds on counters stand in the
guards and are named at the head of each module.

Identifiers of the ledger runs are only compared for equality, so permuting them
is a sound symmetry; the other runs use none.

**Deadlock.** The ledger runs, `risk_gate`, `ksf_store`, `ksf_desk` and
`dry_run` allow it: their identifier sets, calls or days are finite and the last
review of a book is final. The cycle runs check it: a cycle can always be re-run.

**Fairness.** Only `LockWaitEnds` needs one. `FairStore` is weak fairness of the
wait for the lock: whoever waits polls until the lock is free or a deadline of
finite length has passed. Nothing is assumed of the holder, which may hang or die.
Of the cycle no liveness is stated: it runs sequentially and waits for nobody, so
whether it ends is not a question of scheduling.

Every property of a passing run has a mutant in the modules, marked
`\* mutant`: a definition of the code changed the way a plausible bug would, under
which TLC finds the property violated.

## 5 Where the code disagrees with itself

Three runs state what a document or an assertion of the code says, and TLC shows
a behaviour of the code that contradicts it.

1. **`cycle_same_instant`**: two orders settled by observations of one instant
   get one NAV snapshot each at that instant; the first lacks the second fill.
   `review_and_persist` asserts that every historical snapshot equals the as-of
   state and refuses every later review. The ledger is append-only, so the
   account can not trade again.
2. **`cycle_oversold`**: an approval in shadow mode is never ordered, stays
   reserved for ever and counts as held shares. After a shadow session, an `EXIT`
   of a smaller real position approves and queues more shares than exist, against
   the plan and against the assertion in `review_and_persist`; no later fills
   cycle can settle it. Shadow sessions are the only cause: `FillsOnlySalesHeld`
   (section 6) proves the property when every session runs in fills mode.
3. **`ksf_settlement_blocked`**: the schema document says that a row the calendar
   blocks records the time of the settlement run. The second call's upsert does
   that, and the trigger on immutable columns aborts it: one blocked row keeps
   every later call from settling anything.

Others were met while modelling. The modules contain the behaviour, and no run is
about it:

- The one-day return, the only domestic price input that votes
  (`feature_engine.py:189`), is stored only when the response has an earlier row
  (`k_semiconductor_domestic_price_collector.py:226`). After a response of one row
  nothing marks it as missing, the READY return of an earlier session stays selected,
  and the run is scored on it. The peers' collector stores such a return as
  `MISSING_OPTIONAL`, "previous close unavailable" (`global_collector.py:646`), and
  docs/k-semiconductor-mvp-operating-scope.md:61 says that an input whose source is
  absent for a time is recorded as `missing`. `RequiredOfItsSession` is about close,
  volume and flow only.
- `propose` turns an answer that does not validate into an `ABSTAIN`, but an integer
  target too large for a float makes `math.isfinite` raise `OverflowError`
  (`paper_agent.py:1159`), which is not among the errors it catches (`:1372`): the
  session is rolled back.
- The dry run never compares the date of a bar with today. The time to live counts
  from when bars were buffered, and a vendor's old rows are buffered like new ones;
  an empty frame replaces earlier bars (`kr_data_fetcher.py:191`).

- `append_nav_snapshot` compares a snapshot with the as-of state *before* its
  replay test (`ledger.py:581`, `:266`), so repeating an old call after a later
  fill raises. A back-dated sale makes an earlier instant unreadable
  (`LedgerReadable`, `ledger.py:670`).
- The reservation of a shadow approval keeps its old price; when the close has
  risen, `RiskInput` raises and the shadow cycle aborts (`paper_risk.py:633`).
- A target above 0 of at most half a basis point passes the boundary, becomes 0 in
  `paper_cycle.py:316` and makes the ledger or the review raise, which rolls the
  whole session back: `OnlyTinyTargetsRaise` says that this is the only way.
- The boundary wants a time with the Korean offset for every row
  (`paper_agent.py:709`), and the global collectors store dates
  (`global_collector.py:738`): a snapshot with such a row abstains as
  `DATA_CUTOFF_INCONSISTENT`, and the model is never asked.
- A holding grown beyond the position cap cannot be held: the answer `HOLD`
  becomes `MODEL_OUTPUT_INVALID` (`paper_agent.py:1247`). A row that is READY
  without a number is unavailable but is not among the data gaps.
- A failed collection stores a missing row labelled with the cutoff, which orders
  ahead of the real value a retry stores later that day (`feature_engine.py:334`).
  An older fallback exchange rate orders behind the READY row it should replace.
- README.md:323-325 says that every access to the KSF ledger is serialised by the
  lock; `load_ksf_sqlite` and the bundle producer read without it. Hash and
  provenance keep a wrong cycle from committing (`BundleMatchesHash`,
  `CycleOfItsBundle`); a production run between bundle and cycle makes the cycle
  fail.
- After a failure between the published bundle and the handoff the day cannot be
  run: the bundle exists, and a new production may not replace it.
- In the dry run a failed read of Redis replaces the real portfolio by the default
  at the next save, overlapping cycles lose the orders of the one saved first, a
  holding without a price counts as 0, and one price of 0 ends the whole cycle.

## 6 What is proved

All proofs are checked by TLAPS to the last leaf. They state, for every value of
the constants within the named assumptions, every invariant and action property
of the passing runs but those listed at the end of this section.

### Sums: `SumProofs`

Cash, holdings, reservations, the abstract account's session and the value, payments
and flows of a dry-run portfolio are sums over finite sets (`SumFunctionOnSet`), and such a sum is defined by recursion over
subsets whose elements come in an unknown order. The lemmas a proof needs (an
element more or fewer, equal terms, a sum of naturals, a smaller term) are proved
without an induction principle: where the recursion had no solution, or two, there
would be a smallest set of which that is true (`LeastOfNaturals`, `SmallestSet`),
and it has a smaller subset.

### The ledger: `PaperLedgerProofs`

For any sets of identifiers, instants and amounts. The inductive invariant is
`LedgerInvariant == TypeOK /\ AuthorityChain /\ LongOnly /\ OrderLifecycle /\
ReviewedQuantities`, proved in `LedgerInvariance` with one lemma per action and per
conjunct that the action can disturb. `ReviewedQuantities`, that an
accepted review names a quantity, is what a sale's proceeds are computed of.
The properties of fills are not inductive by themselves: `OneFillPerSignal` needs that a proposal is unique for its
decision, a review and an order unique for their proposal, a fill unique for its
order. `AuthorityChain` says each of these one link at a time, and
`FillChainWalk` climbs from a fill to its decision. From it follow `Authorised`,
`ExactlyOnce` and `LookAheadFree`; `ChainsIntact`, `TypeCorrect`, `NeverShort` and
`LifecycleCorrect` are the other conjuncts.

- `BalancesConserved`: at every instant the balance the ledger reports is the
  deposit and the sum of what the fills up to then moved.
- `ReplaysRecognised`: whatever has been recorded since, a call that recorded an
  account, a decision, a proposal, a review, an order or a fill is recognised when it
  is repeated. A row once stored is never changed, so the
  outcome operators find the row itself.
- `SwitchHistory`, an action property: an entry back-dated into a log does not
  change what the log said at an earlier instant.

Assumptions: `TimeAssumption` and `ValueAssumption` (the ranges the CHECK
constraints admit), `EmittedAssumption` (an event identifier of a caller is
never one that a trigger makes) and `ChargeAssumption`: no fill's charges exceed its gross
amount. Only `NeverShort` and the invariants of which `LongOnly` is a conjunct need
the last: the schema does not enforce it, a sale with charges above its
proceeds would make cash negative, and the broker's rates alone prevent it.

### The review: `PaperRiskProofs`

For every policy within `PolicyAssumption`: `FloorLemma` turns each `\div` into an
inequality, `AcceptedMeans` reads the cascade of rejections once, and
`PurchaseIsLargestPermitted` combines them: the accepted quantity is the largest
one the limits permit. The boundary and the cycle use these lemmas.

### The boundary: `PaperProposalProofs`

For every set of inputs, answers and books. Two invariants:

- `GateInv` (the request is valid and the result is the review of it) gives
  `BookAlwaysValid`, `PurchasesWithinLimits` and `PurchasesMaximal`, together
  `PurchasesLargest`, then `SalesExact` and `NoPyramiding`.
- `ProposalInv == GateInv /\ Asking /\ Answered /\ Deciding` says of each stage
  what the earlier ones have established: the request built is of this input, an
  abstention has a reason that holds of it, a transport was called on a snapshot
  that passed, the target under review is the proposal's. It gives
  `AskedOnGoodData`, `EnginesAgree`, `ReasonsTruthful`, `OnlyTinyRaise`,
  `ApprovalsNearTarget` and `ReviewsOfProposals`.

`EnginesAgree` is the one about two pieces of code: what the engine derives from
rows and what the boundary derives again from the engine's answer agree, for any
groups, caps and features, but for the two kinds of rows the property names.
Assumptions: `AgentAssumption` (every feature the policy names is routed to a group), `InputsAssumption` (a row has one of the
statuses the schema's CHECK admits), `BooksAssumption` and `RequestsAssumption`
(a book is one `RiskInput` does not refuse).

### The cycle: `PaperCycleProofs`

For any number of symbols and sessions, any switches, prices, offsets and caps.
`CycleAssumption` says that there is one account, that the identifiers of sessions
and symbols are among the ledger's and that prices are positive;
`ExecutionAssumption` that rates are between 0 and 100 %. `ChargeAssumption` is
not used. The invariants are built on each other, since each needs the last to know
that a ledger call inside the cycle does what it should:

| invariant | says besides the one before | gives |
|---|---|---|
| `DigestInv` | a session at work is not committed, one whose digest is due is, and has not been told | `DigestsAtMostOnce` |
| `AuthorityInv` | the switches say what `Begin` read, until the commit | `CommitsAreAuthorised`, `CycleSwitchHistory` |
| `LedgerInv` | the ledger is sound, and so is `Past`, the same ledger read from what a rollback restores | `CycleKeepsTheLedger`, `CycleFillsSound` |
| `AtomicInv` | in a cycle, the tables of `BEGIN IMMEDIATE` consist of whole sessions, those now record every other session as they did, and of the running one what its stage has reached (`Settling`, `Deciding`); outside, the tables consist of whole sessions | `CyclesAllOrNothing` |
| `LimitsInv` | what a session approved fits its book and the daily cap, and in a cycle its orders are still open | `SessionsWithinLimits` |
| `BookInv` | the account is long; in a cycle, cash and holdings are those of `BEGIN IMMEDIATE` plus the sum over the orders executed since | `CycleNeverShort`, `CycleImplementsBook` |
| `SalesInv` (on `LimitsInv`; fills mode only) | after the settlement the open orders are of the running session and the sales among them are held, and so is the sale about to be queued; between cycles every queued sale is held | `FillsOnlySalesHeld` |

`AllOrNothing` is not inductive: it looks at states outside a transaction, and a
commit is correct only because of what every call since `BEGIN IMMEDIATE` wrote.
For `SessionWithinLimits` the point is that an approval of the same session is
reserved in every later review, at the price at which it was approved
(`OpenInSession`): the limits each review keeps add up.

`CycleImplementsBook` is the refinement, `PaperCycle` implements `PaperBook`. All
steps but `Commit` are stutters. For `Commit`, the queue of the abstract account is the set
of open orders of earlier sessions, `Settlement` says that none is left and that
the sums over the executed orders are the change of cash and holdings, and each
fill's movement is what the abstract charges at that session's closes compute.

`FillsOnlySalesHeld` is the other half of the finding `cycle_oversold`: with
`Modes = {"fills"}` every accepted review of an earlier session has its order and
`Marking` waits until all of those are executed, so whatever a review finds reserved
is of its own session and of other symbols (`OthersReserved`). It then sizes a sale by
the shares held (`HoldingsReviewed`), and nothing is sold before the next settlement.

`CycleImplementsBook` and `CycleNeverShort` assume `ModestCharges`: fee and sales tax are at most
half the amount together and no sale is executed at 1 KRW. It is needed: at 1 KRW
the two charges, each rounded up, are 2, and a sale makes cash decrease.
`ChargesWithinProceeds` is the lemma behind it: from 2 KRW up, fee and tax stay
within the amount. `RoundedAgainstAccount`: price, fee and tax are
never better for the account than the market and the rates.

### The KSF store: `KsfStoreProofs`

For any number of production runs, symbols, collections and days, wherever runs
fail, time out or are killed.

- `ExclusionInv`: the processes' records have their shape and whoever is past the
  wait holds the lock. `LedgerAlwaysExclusive`.
- `StoreInv == FilesInv /\ RunnersInv /\ CopierInv`: without `-wal` the main file
  has every commit, a torn file lacks one, a run that may still commit has the WAL
  beside the file, and what the copier saw is still so. `StoreAlwaysRecoverable`,
  `SnapshotAlwaysComplete`.
- `LineageInv == StoreInv /\ PaperInv /\ BundlesInv`: a producer whose source still
  has the hash it began with has read the runs its bundle names.
  `BundleAlwaysMatchesHash`, `HandoffAlwaysCurrent`, `CycleAlwaysOfItsBundle`. It
  rests on `StoreOnlyGrows`, an action property: nobody takes back a run or a
  commit, so a hash that is true again was true all the time.

Assumed, by `StoreAssumption`: no process is called `"snapshot"` or `"free"` and
no collection by the name of another stage. That the kernel frees the lock of a
dead process is part of the model (`RunnerDies`).

### The desk: `KsfSettlementProofs`

For any calendar, number of days and runs, horizons and optional features
(`SignalsAssumption`, `SettlementAssumption`). `SignalsInv` says what is true of every
row by the time it is stored, of a run at work and of the rows a run was scored
on; `DeskInv == SignalsInv /\ SettlingInv` adds that a result settled is the one that
the decision's session, its horizon and the bars published by then determine.

- `NoRunLooksAhead`, `RequiredFeaturesOfTheSession`, `ScoredRunsLoad`,
  `ReadyStaysFresh`, `ResultsReproducible`.
- `SelectionStable`, an action property: rows stored later do not change what was
  known as of an earlier cutoff, because a row's ingestion time is the time of its
  storing.
- `DecisionsSettledOnce`, an action property: a settled result never changes,
  whatever calendar and prices later calls bring.

### The dry run: `DryRunProofs`

For any watchlist, any prices (0 included), any share of the portfolio and any
number of jobs, of which any refresh the bars (`DryRunAssumption`).
`DryInv == BarsInv /\ BooksInv /\ JobsInv` says that bars have prices; that every
saved portfolio is balanced (what one cycle's orders made of a portfolio saved
before it, or of the default) and its purchases within their share; and the
same of a portfolio that is still being traded, with respect to the signals
applied so far.

- `Exchange`: an order exchanges cash for shares at the price at which the
  portfolio is valued, so it leaves the portfolio's value, its cash before the
  payments and its holdings before the orders as they were.
- `OneMoreSignal`: one signal more keeps the portfolio balanced and every purchase
  within its share: the new one because `Quantity` rounds down, the earlier ones
  because the value is the same and their symbols have no other signal
  (`PutKeepsOne`). Without that, a repeated symbol could be bought at one price and
  valued at another.
- `OneMoreSaved`: what other cycles save in the meantime does not touch the
  portfolio a cycle started from, since the history of the key is only appended to.
- The theorems: `PortfoliosConserved`, `PurchasesCapped`, and `ReportsAreSaved` (a
  digest that was sent tells of a saved portfolio).

### Stated by theorems only, or by runs only

`FillsAuthorised`, `BookStaysValid`, `StoreGrows` and `ReportsSaved` are stated by
theorems only (`Authorised`, `BookAlwaysValid`, `StoreOnlyGrows`,
`ReportsAreSaved`): the runs check stronger or neighbouring properties. So is
`FillsOnlySalesHeld`: the run over the same property has a shadow session, and
refutes it.

Only model-checked: `LockWaitEnds`, because liveness under fairness and `ENABLED` are
outside what the prover can do.

## 7 What is not modelled

Within the modelled components:

- **Ledger and cycle**: the schema check when a ledger is opened, identifier
  formats and hash verification; the flags of `run_cycle_from_env`; a second
  account; `HOLD` in `PaperCycle`, which treats it as `ABSTAIN` (`PaperProposal`
  has it); cancellations and expiries during the life of a cycle (the ledger
  modules have them, no caller in the program issues them). Stale source data is a
  Boolean of a request, false in the cycle because the boundary abstains first.
- **Proposals**: texts, the canonical copy and the closed schema are Booleans; the
  two symbols, which never meet at the boundary, are one.
- **Store**: two invocations of the production run at the same time (the lock that
  excludes them is the one the copy takes, and the module allows them; the
  instance has one); ownership and modes of files; two runs within one second, which
  would share their identifiers.
- **Signals**: scores and explanations; values other than the date they were
  observed for; blocked features, which are constant; the volume and trade value
  of TSM, which a failed collection does not mark as missing. `ReadyIsFresh` and
  the rows of `Missing` hold for cutoffs from 09:00 on: such a row is labelled with
  the date, 09:00 in Korea, and could not be selected before.
- **Settlement**: a caller that brings a corrected bar without the one confirmed at
  the close.
- **Switches**: `SwitchHistoryFinal` is about instants before a later recorded event. An
  event dated between the last one and an instant already read may still be appended,
  which the trigger allows.
- **Dry run**: the age of bars, on which nothing in the code depends but their expiry;
  the rounding of floats; the order in which providers are tried,
  which only decides where a bar comes from.

Whole components, and why:

- **AI explanation, web APIs, dashboard, operations check**: text and read-only
  views over finished ledgers; they keep no state and nothing reads theirs.
- **Strategy evaluation, forecasting's inference**: floating-point statistics and a
  neural network in one process; nothing interleaves and the arithmetic is outside
  TLC's reach.
- **Paper evaluation**: a replay in floating point and an audit of a finished
  ledger, both functions of their input. The facts the audit looks for are
  invariants of `PaperLedger`, whose triggers enforce them. (Its shadow audit wants
  proposal and review identifiers of every decision, so a session with an
  abstention does not pass it.)
- **Archiving and the column checks of the KSF schema, settings, unit files,
  installation, message texts, HTTP**: no behaviour beyond single statements.
