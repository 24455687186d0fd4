# A TLA+ model of CryptKeep's trading core

CryptKeep (`src/`) is a crypto trading bot: strategies write *intents*, gated
processes turn them into orders at an exchange (or at a paper engine), and
reconcilers follow the orders until their fills are accounted for. Everything
durable is in SQLite files and small JSON files; processes talk to each other
only through these files, lock and pid files, signals and the exchange. This
project models the part where money can be lost: from a queued intent to an
order at the venue, from a trade at the venue back into the accounts that limit
further trading, the switches that halt all of it, and the supervision that
keeps the processes running.

Paths below are relative to `src/`; `PROJECT.json` maps every definition to its
lines and lists every part of the repository, the parts that are not modelled
included.

## Inventory

| Part | Source | State | Operations | Talks to |
|---|---|---|---|---|
| Intent lifecycle | `services/execution/intent_lifecycle.py`, `state_authority.py` | none (tables) | transition and authority checks | queue writers |
| Live intent queue | `storage/live_intent_queue_sqlite.py` | `live_trade_intents`, `live_consumer_state` key/value | upsert, claim, update_status, risk claim, get/set_state | consumer, reconciler, producers |
| Order dedupe store | `storage/order_dedupe_store_sqlite.py` | `order_dedupe` | claim, mark_* | consumer, executor |
| Live trading store | `storage/live_trading_sqlite.py` | `live_orders`, `live_fills` | upsert_order, insert_fill | consumer, reconciler |
| Live intent consumer | `services/execution/live_intent_consumer.py` | locals of one loop | recovery sweep, batch | queue, dedupe, venue |
| Live reconciler | `services/execution/live_reconciler.py` | trade cursor, not-found counts | submit_unknown lane, order lane | queue, venue, fill sink, system guard |
| Executor path | `services/execution/live_executor.py`, `_executor_*.py` | `execution.sqlite`: intents, fills, deliveries | submit_pending_live, reconcile_live | dedupe store, venue, fill sink |
| Fill accounting | `services/journal/*`, `services/risk/risk_daily.py`, position and execution stores | journal, positions, daily total, loss streak, flag | on_fill | reconcilers, user stream, poller, order gates |
| Risk-sink repair | `scripts/repair_risk_sink_failed.py` | the flag | list, replay, verify, clear | fill accounting |
| State backup | `scripts/backup_state.py` | backup directory | backup, restore | the SQLite files |
| Order boundary | `services/execution/place_order.py` and gates | attempt counters, flags | gates in order, send, record | every sender |
| Halt control | `services/admin/*`, `services/process/watchdog.py`, `services/execution/live_arming.py` | guard, kill switch, arming, `live_enabled` | halt, disable, resume, enable, trip | operators, watchdog, order paths |
| Process locks | `_acquire_lock` of five services, `services/control/managed_component.py` | lock files | create, check pid, unlink, release | the services |
| Paper trading | `services/execution/paper_engine.py`, `paper_runner.py`, `intent_reconciler.py`, `held_intents.py` and three stores | paper queue, orders, fills, cash, position, journal | submit, evaluate, settle, cancel, hold | the paper queue's producers |
| Supervision | `services/runtime/process_supervisor.py`, `scripts/compat/run_bot_runner.py`, `start_bot.py`, `stop_bot.py` | pid files | start, stop, status, converge, hot reload | all services |
| Strategies, market data, analytics, dashboards, … | see `PROJECT.json` | | | |

### What is hard, and what makes each part correct

* **Submission** (queue, dedupe, consumer, reconciler). Three SQLite files are
  committed one after the other, the process may die between any two commits,
  a request may time out and still arrive, a lookup may miss or fail. Correct:
  at most one order per intent; what was refused or given up has no order; no
  store claims more than the venue has; statuses follow the table although the
  writers check stale copies; nothing stays in limbo.
* **Executor path**. The same task with another store and no recovery sweep.
  Correct: a second order only when an acceptance was lost; a terminal intent is
  accounted in full; recorded fills never exceed what the venue traded.
* **Fill accounting**. One call is five transactions, made by several processes
  at once, again and again. Correct: exactly once, in journal order, answered ok
  only when done, and new orders blocked while something is missing.
* **Following orders** (reconciler). One cursor for all orders of a symbol,
  trades listed late, fills that fail, rows that age, halts. Correct: the
  cursor leaves no unaccounted trade behind; rows say what the venue says;
  filled waits for a fill; a halt is complete when nothing is left to follow;
  every row ends.
* **Halt control**. Four files, written one after the other without a lock by
  operators, dashboard and watchdog, any write of which may fail. Correct: a
  stop that returned holds; at most the order already past the gates is sent
  after it; a failed resume leaves the kill switch armed; a stale heartbeat ends
  with everything halted.
* **Daily limits and locks**. Check before and record after the order, a
  counter reset by whoever sees the new day first, a lock file that is checked
  and unlinked in two steps. Correct: the limit is exceeded by no more than what
  is in flight; the process that runs owns the lock.
* **Paper trading**. Two loops and an operator on three files. Correct: cash and
  position are what the fills say; what was refused has no fill; what is filled
  is in the journal; claimed intents are answered.
* **Supervision**. Pid files without locks, zombies, two controllers. Correct:
  what runs can be found and stopped; the runner converges to what is wanted.

The list of hazards with their lines, and the properties that address each, is
under `hazards` in `PROJECT.json`.

## Modules

```
IntentStatus ── IntentLifecycle  (abstract: one row of a queue)
     │                 ▲ implement
     ├──────────── LiveSubmit ──── LiveSubmitProofs, MCLiveSubmit
     ├──────────── PaperPath ───── PaperPathProofs, MCPaperPath
     │             FillContract  (abstract: what on_fill promises)
     │                 ▲ implements        │ INSTANCE
     │             FillSink ── FillSinkProofs, MCFillSink
     └──────────── FillReconcile ── FillReconcileProofs, MCFillReconcile

InstanceLock ── OrderBudget ── OrderBudgetProofs, MCOrderBudget
HaltControl ── HaltControlProofs, MCHaltControl
ExecutorPath ── ExecutorPathProofs, MCExecutorPath
Supervision ── SupervisionProofs, MCSupervision
```

**IntentStatus** has the statuses, the transition table of
`intent_lifecycle.py`, the authority checks of `state_authority.py` and the
WHERE clause of `update_status`; it has no state. **IntentLifecycle** is the
abstract specification of a queue row: inserted as queued, moved along the
table, deleted only by an administrator. LiveSubmit and PaperPath implement it,
each with its own WHERE clause and its own stale writers, and FillReconcile's
rows, which begin as submitted or submit_unknown, take its steps.

**LiveSubmit** is the submission path.

| Variables | Code |
|---|---|
| `qstatus`, `qoid`, `obs` | `live_trade_intents` and the `su_not_found:` records |
| `dstatus`, `doid` | `order_dedupe` |
| `lstatus` | `live_orders` |
| `venue`, `wire` | accepted orders; requests whose sender gave up and that may still arrive |
| `pc`, `mode`, `work`, `cur`, … | locals of `run_forever` and `_recover_stale_submitting` of each consumer |
| `rpc`, `rwork`, … | locals of the reconciler's submit_unknown lane |
| `bk` | the backup, one file after the other |

Actions: `Start` and the sweep (`Recover*`), `ClaimNextQueued`, the gates, the
dedupe claim, the lookup before the send, the send with its four outcomes, the
marks and writes afterwards, the exception handler (`Handler*`), the reconciler's
lane (`Recon*`), the bounded not-found policy (`RecordNotFound`, `ReconGiveUp`),
crashes of either process, delivery or loss of a late request, backup and
restore. Time is abstracted: where the code compares an age, the model takes
either outcome (`AgeMayElapse`, `EarlyRestart`). The consumer's risk, quality
and route gates are one refusal that may or may not happen.

**FillContract** is what a deliverer may rely on: a fill is journaled, then
accounted, then answered ok, and nothing is ever taken back. **FillSink** is
`CanonicalFillSink.on_fill` itself: cutover, journal, position, daily total,
loss streak, each transaction a step, run by several deliverers that fail, die
and deliver again; the flag; the expiry of the symbol lock; and the repair
script. Positions use integer arithmetic with prices that are multiples of
every reachable quantity, so that the average is exact; fees travel in the same
UPDATE as the PnL and are left out; there is one UTC day and one symbol.

**FillReconcile** is the order lane of the reconciler on top of FillContract:
one action for each venue answer (`OrderClosed`, `OrderDead`, `OrderOpen`,
`OrderOther`, `OrderGone`), the trade loop (`FetchTrades`, `InsertFill`,
`EmitJournal`, `EmitOk`, `EmitFails`, `SaveCursor`), the decision about filled
(`Decide`, `Defer`, `LookbackFails`), the except clause, the promotion of the
guard at the end of a pass. The venue executes and lists trades and ends
orders; other processes deliver the fills of `Others` on their own. There is one
symbol, hence one cursor; the limits of a pass (60 rows, 200 trades) are not
reached.

**HaltControl** has the guard file with its temp file, the kill switch, the
arming file and `execution.live_enabled`. An operation is a *program*, a table
with one entry for each write or check of the function it models: the label that
follows it and the label its failure leads to (`DisableLiveNow`, `ResumeIfSafe`
with both rollbacks, `EnableLive`, the wizards, the dashboard's settings,
`RunWatchdogOnce`, …). Work steps interpret it (`SaveConfig`, `SetArmed`,
`SetState` in two steps over the shared temp file, `RewriteArming` in two steps,
`RecordEvent`, `Check`). Processes run any operations at once, may die between
two steps and may fail any write. Consumers and executors read the switches in
the order of the code (`Gate`, `Boundary`, `Send`). Abstracted: a small file is
written in one step, except that a failed kill-switch write may tear the file;
the guard file exists from the start and is never torn; processes that trade
were started with the arming environment variable.

**InstanceLock** is the lock file of consumer, reconcilers, paper runner and
strategy runner: O_EXCL creation, the pid written afterwards, the check of the
pid, the unlinking of whatever is there by then. **OrderBudget** composes it
with the consumer's daily claim (clock, stored day, reset, claim are four steps)
and with the boundary's check and record of attempts by consumer and executors;
midnight may fall between any two steps. The notional limit is treated like the
count of trades.

**ExecutorPath** is `submit_pending_live` and `reconcile_live` over the
execution store: the claim in the dedupe store, the send with its outcomes
(accepted, with or without id, ambiguous, refused), the marks; then retry of
undelivered fills, the fetched order, its trades, the fill made up for a closed
order without trades (`AddSynthetic`), the settlement. Quantities are units of
one; rejected and expired orders are folded into canceled ones; the limits per
tick are not reached.

**PaperPath** is the paper runner, the intent reconciler and an operator over
the paper queue, the paper books and the trade journal: claim, gate, insert,
link or reject, evaluation at a price, settlement, cancellation in two steps,
hold and release. `Stolen` allows a second runner, what a stolen lock makes
possible.

**Supervision** has one pid file for each service and controllers that work off
lists of tasks: the bot runner (`BeginPass`, hot reload, `Blocked`,
`BeginShutdown`) and a script beside it (start_bot, stop_bot, the watchdog's
stop). A child that exits is a zombie until its parent reaps it. Pids are not
reused while a file or a controller remembers them.

### How they compose

* FillReconcile never looks into on_fill, it uses the steps of FillContract, and
  FillSink is proved to implement FillContract (when risk_daily failures are not
  swallowed; see *Disagreements*). ExecutorPath's `booked` is FillContract's
  accounted.
* LiveSubmit's reconciler lane hands rows to FillReconcile as `submitted` rows
  with an order at the venue (`SubmittedHasOrder`), which is FillReconcile's
  initial state; `Confirm` is that lane seen from FillReconcile.
* OrderBudget's consumer runs inside InstanceLock. LiveSubmit's `Consumers` has
  two members where the lock is supposed to have failed.
* The halts that HaltControl writes are FillReconcile's `Halt`, and its
  `promote` is FillReconcile's promotion at the end of a pass.
* The fairness of LiveSubmit, FillReconcile and PaperPath (a dead process is
  started again) is what Supervision's `Converges` is about, up to the zombies
  named there.

Definitions whose comment describes a wrong variant (`DedupeClaimIgnored`,
`SaveCursorTwice`, …) are used by no specification; they are the mutants of
`PROJECT.json`, kept to show that each property can fail.

## Runs

All from this directory: `tlc -workers 2 -config MC<Module>_<x>.cfg MC<Module>`.

| Run | cfg | Asks | Properties |
|---|---|---|---|
| submit_overlap | MCLiveSubmit_overlap | two consumers at once, a crash anywhere, failing lookups, an intent deleted and enqueued again | AtMostOneOrder, RefusedHasNoOrder, SubmittedHasOrder, LedgerBacked, FollowsLifecycle |
| submit_settles | MCLiveSubmit_settles | two crashes, a backup taken while services run and restored later; liveness | AtMostOneOrder, GivenUpHasNoOrder, Settles |
| sink_replay | MCFillSink_replay | two deliverers, any order, repeats, a legacy fill, store and flag failures, a crash, a repair | AccountsAgree, LossesInJournalOrder, AckedAccounted, ImplementsContract |
| sink_repair | MCFillSink_repair | venue PnL, swallowed failures, two repairs | FailureBlocks |
| recon_venue | MCFillReconcile_venue | two orders, every end, age, halt, late listings, a failing sink, another deliverer | VenueDecides, LedgerBehind, FilledJournaled, HaltedIsClean, UnaccountedReachable |
| recon_ends | MCFillReconcile_ends | liveness, an unconfirmed row, a crash, a failing call, a halt | RowsEnd, HaltCompletes, FillsAccounted |
| halt_stop | MCHaltControl_stop | any two operations at once beside the watchdog, a failed write or a crash, a consumer that sends | StopHolds, OneLateOrder, FailedResumeCloses |
| halt_trip | MCHaltControl_trip | a stale heartbeat against resumes, switch-offs and failed writes; liveness | TripSticks |
| budget_day | MCOrderBudget_day | three starts of the consumer, two kills, an executor, midnight | HolderOwnsLock, ClaimCap, BoundaryCap |
| exec_tick | MCExecutorPath_tick | the service and a tool, crashes and failing calls, trades listed late or too old | SecondOrderNeedsLoss, TerminalAccounted, RecordedWithinVenue, EndedSettles |
| paper_books | MCPaperPath_run | a buy and a sale, runner and reconciler (or two runners), cancel, hold, crashes | TypeOK, BooksMatchFills, RefusedHasNoFill, FilledIsJournaled, PaperSettles |
| sup_bot | MCSupervision_bot | the runner beside a script, edits of the configuration, crashes of services and controllers | Tracked, StopStops, Converges |

Each takes between five seconds and four minutes with two workers. `MCHaltControl`
also has TLC evaluate `TablesClosed`: every step of the programs' tables leads to
a step of a table or to a rest.

### Bounds, and why they are enough

* *Intents.* Intents interact only through the batch and the processes' loops,
  and every property is about one intent, so the LiveSubmit and ExecutorPath
  runs have one; the theorems have any number. The paper run has two, because
  cash and position connect them. A second insertion of the same id
  (`MaxInserts = 2`) is what a deletion by hand makes possible.
* *Consumers.* Two stand for a lock that failed; one where the lock is modelled
  or holds. The proof of `OneOrder` has any number.
* *Crashes.* One crash hits every step; two are needed where a restart's own
  recovery is interrupted (`submit_settles`, `budget_day`).
* `MinObs = 2` rather than 3: the policy's first, middle and last observation
  differ only by being below or at the bound, and two show both.
* *Fills.* A buy and two sells that close it, one at a loss and one at a profit:
  a sell may be delivered before its buy (refused), losses may be journaled in
  either order, a position may be opened, halved and closed. Five deliveries
  allow each fill once and two of them again. One fill is *legacy* in
  `sink_replay`, from before the cutover.
* *Trades.* `Overlap = 3` with trades at 5 and 7: after the cursor moved to 8
  the window begins at 5, exactly the older trade; one tick more and the cursor
  loses it (see *Disagreements*).
* *Faults* bound failed calls of any kind together; one lets any single call
  fail, two let a failure hit the retry of the first.
* *Operations.* `MaxOps = 2` in HaltControl: every pair of operations, the
  watchdog's beside them; a stop, what disturbs it, and the watchdog's halt.
* *Days.* Two days and a limit of two orders: midnight falls between any two
  steps once, and a limit can be reached, exceeded by the one in flight and
  reset. Three pids of a consumer and two kills allow a kill of the process that
  took over.
* *Paper.* Prices 4 and 10 with a starting cash of 10 and a fee of 1: a buy that
  the gate admitted may not be affordable at the price of the fill.
* *Supervision.* Two services of which one is wanted at a time, a third
  configuration that wants the same as the first, four incidents: an edit, its
  return, a script and a crash. Five pids are never used up by them.

Deadlock is checked in the FillReconcile and PaperPath runs, where a pass is
always possible. The other configurations switch it off: with all intents
settled, all deliveries or operations made, all pids dead or all incidents used,
nothing is left to do.

Symmetry of intents, consumers, deliverers and processes is used in the runs
without liveness properties.

### Fairness

* `LiveSubmit!FairSpec`: weak fairness of each consumer and of the reconciler
  (the supervisor restarts dead processes, and each is a loop that never blocks
  for good); of the network (a request is delivered or lost). Strong fairness of
  `ReconFound`, `ReconGiveUp`, `ReconMiss` for a row, because the model's
  choices of age and of a failed save come back on every pass and time does not
  stand still: the age is at last above the bound, and saving does not fail for
  ever.
* `FillReconcile!FairSpec`: weak fairness of the reconciler's work, of the
  venue's listing of executed trades and ending of orders, and of the clock;
  strong fairness of `Confirm`, which is possible only in one step of a pass.
  Failures are bounded, so calls fail finitely often.
* `HaltControl!FairSpec`: weak fairness of the watchdog's loop and of its own
  steps only. Operators, services and the heartbeat need not move.
* `ExecutorPath!FairSpec`: weak fairness of the service's steps, strong fairness
  of its taking up each intent (a tick goes over all of them, so an intent that
  is again and again eligible is taken up), weak fairness of the venue's
  listing. The tool need not run.
* `PaperPath!FairSpec`: weak fairness of each process, restarts included, and of
  a cancellation under way. Operators and producers need not move.
* `Supervision!FairSpec`: weak fairness of the steps of runner and scripts.
  Nothing restarts the runner itself.

## Proofs

Checked with TLAPS 1.4.5 (`tlapm <Module>Proofs.tla`), for every value of the
constants that satisfies the modules' named assumptions. These are types and
little else (`ConstantsAssumption`, `SinkAssumption`, `ReconcileAssumption`,
`LockAssumption`, `BudgetAssumption`, `ExecutorAssumption`, `HaltAssumption`,
`OpsAssumption`, `SupervisionAssumption`); `PaperAssumption` also has the fee of a
fill no larger than its value, as a fee in basis points is.

Where a theorem has a hypothesis, it is one of these; *Disagreements* shows what
happens without several of them:

| Hypothesis | Meaning |
|---|---|
| `MaxRestores = 0` | no backup is restored. Only `OneOrder`, `ImplementsLifecycle`, `RefusedUnsent` and `LedgerFollows` have it. A restore sets rows back, so the last three are false with one; `OneOrderRestored` replaces the first |
| `OneConsumer`, `OneSubmitter`, `SerialStart` | the instance lock did its work: one consumer, one submitting process, starts that do not overlap |
| `[]Few(N)` | the lock let N consumers at most work at once |
| `LookupMayFail = FALSE` | a lookup by client id reaches the venue |
| `"risk" \notin Faults`, `"flag" \notin Faults` | risk_daily swallows no failed transaction (without it `OkMeansJournaled` remains); the flag file can be written |
| `QuietRepair = TRUE` | the repair script runs with the deliverers stopped |
| `Computed \/ Reported` | one source has the PnL: the position store, with a repair that refuses rows without one, or the venue |
| `Unconfirmed = {}` | no row was submit_unknown when trading stopped |
| trades closer than `Overlap`; or `OrdersClose` and `~ LateListing` | the two cases in which the shared cursor loses nothing: all trades close together, or only those of different orders, listed in their order |
| `[][ExactAverage]_vars` | no purchase on paper rounds the average price |

**LiveSubmitProofs**

* `TypeCorrect`. `TypeOK` alone is not inductive, since a step writes the row of
  `cur[c]`; `InHand` adds that a process past its pick holds an intent.
* `OneOrder`: `AtMostOneOrder`, for any consumers and intents, without restores.
  Inductive invariant `OrderInv`: an intent without dedupe row has no order and
  no request (`UnclaimedUnsent`); a consumer between its claim and its send
  holds an intent with a dedupe row and no order (`SenderFirst`), and is the
  only one (`SenderAlone`). Dedupe rows are never removed, so no second consumer
  enters. A restore does remove them, and then the lookup before the send is
  what is left.
* `OneOrderRestored`: `AtMostOneOrder` again, with any number of restores of
  backups however old, when that lookup reaches the venue. `CheckedInv` does not
  mention dedupe rows for orders that exist: a consumer about to send has asked
  and been told of no order since it claimed (`SenderChecked`), nobody else is
  there with it (`SenderAlone`), and a request on the wire keeps its dedupe row
  (`WireClaimed`). A restore happens with the services stopped and nothing on
  the wire.
* `SubmittedOrders`: `SubmittedHasOrder`, without conditions: a backup is older
  than the venue, which forgets nothing. `IdInv` follows an order id wherever it
  is held: in the queue, the dedupe row, the ledger, a consumer's or the
  reconciler's locals or the backup, it is of an order the venue has; `PathInv`
  says which of a consumer's labels a batch and a sweep reach, and with what in
  hand. `LedgerOrders` is the same for live_orders, the half of `LedgerBacked`
  that survives a restore.
* `RefusedUnsent` and `LedgerFollows`: `RefusedHasNoOrder` and `LedgerBacked`.
  Refusing is safe only if nobody else may still send, so `OnceInv` says for an
  intent inserted once who has it unsent: one batch at most (`HoldAt`), and then
  there is no order and the row is not refused; the ledger follows the queue
  (`TellAt`).
* `GivenUpUnsent`: `GivenUpHasNoOrder`. `GiveUpInv` adds that a row is out of the
  reconciler's reach while its consumer has it unsent. A second consumer's sweep
  breaks this, which is why it is proved for one. Restores are included: the
  invariant also says what a backup may bring back.
* `ImplementsLifecycle`: every step is a step of IntentLifecycle or leaves the
  rows alone, by cases on the writers' checks.

**FillSinkProofs**

* `TypeCorrect`.
* `OkMeansAccounted`: `AckedAccounted` when failures of risk_daily are not
  swallowed, with `Progress` (what a deliverer at a step has already done) as
  the strengthening; see *Disagreements* for why the condition is needed.
* `OkMeansJournaled`: what remains without the condition. A fill answered ok is
  in the journal and in the streak, so the repair script finds it.
* `StreakFollowsJournal`: `LossesInJournalOrder`, without conditions. The
  invariant has row ids distinct and increasing (`Rows`), no gap among applied
  fills (`NoGap`), and the count equal to the cardinality of the trailing
  losses (`Streak`), which the cardinality theorems carry over each step.
* `FailureStands`: `FailureBlocks`. Not inductive: a fill whose delivery failed
  before the journal is not missing yet and would be once another call journals
  it. `BlockInv` adds that, with the flag down, no call at work is for a failed
  fill, since its beginning took it off.
* `PositionCounts`: the position is the sum of its fills (`PosInv`), without
  conditions.
* `CountedOnce`: `AccountsAgree`, that and the day's total. What a deliverer is about to add to the day is what the position
  store has for the fill, which nobody changes any more (`ComputedInv`), or what
  the venue reported (`ReportedInv`); hence the day's total is the sum
  (`DayInv`). With both sources at once it does not hold: a fill counted with the
  venue's PnL may be computed differently by the position store.
* The sums are `SumFunctionOnSet`. Its facts (`SumEmpty`, `SumType`, `SumAdd`,
  `SumSame`) are proved from the fold's recursive function by way of a least
  counterexample (`Least`, from `WFMin`), because the induction theorems of the
  library take an operator as parameter.
* `SinkImplementsContract`: the refinement mapping takes `journaled` to the fills
  with a row and `accounted` to those in daily total and streak (or legacy).

**FillReconcileProofs**

* `TypeCorrect`, with the row and the trade in hand.
* `RowsFollowVenue` and `LedgerFollows`: `VenueDecides` and `LedgerBehind`. Rests on `PendingInv`
  (a pending filled transition belongs to a row whose order the venue called
  closed) and on `RowMoves`, which says once what any step may do to a row.
* `HaltIsCleanUnlessUnknown`: `HaltedIsClean` when no row is `submit_unknown`.
* `FilledHasJournal`: `FilledJournaled`, with `DeliveredInv` (the batch belongs
  to the row in hand, and what was counted in this pass is journaled).
* `OverlapSuffices`: `UnaccountedReachable` for any orders and any order of
  listing, when all trades in question lie closer than the overlap: the cursor
  is one past the time of a listed trade (`CursorInv`).
* `PrefixSuffices`: the same for a venue that lists in order and any number of
  orders, when only trades of *different* orders lie closer than the overlap; those
  of one order may be any distance apart, and a single order meets the condition
  (`OneOrderIsClose`). `PrefixInv` says that the cursor is one past a trade whose
  order has nothing unaccounted before it (`Behind`), and, while the cursor is not
  blocked, that what is neither accounted nor left in the batch was listed later.
* `RowsFollowTable`: every step is a step of IntentLifecycle on the rows or leaves
  them alone (`TableMove`). It is the step half of a refinement only: the rows of
  this module begin as submitted or submit_unknown, in the middle of a lifecycle.

**OrderBudgetProofs**. `LockHeld`, `ClaimsCapped` and `OrdersCapped` are for
starts that do not overlap (`SerialStart`), the other two for any starts.

* `TypeCorrect`.
* `LockHeld`: `HolderOwnsLock`. The invariant `LockInv` adds that one process is
  starting at most (`StartAlone`) and what it knows of the lock at each step
  (`StarterInv`): before the unlink the file names a dead pid, before the second
  creation there is no file, before the write it is its own and empty. With
  overlapping starts `StartAlone` fails, and so does the theorem.
* `ClaimsCapped`: `ClaimCap`. `ClaimInv` relates the stored day, the day a
  consumer took from the clock and the day it is: a reading overtaken by midnight
  finds nothing claimed of the new day (`ClaimantInv`), and the stored count lags
  one claim behind at most (`CountInv`).
* `OrdersCappedFor`: if N consumers work at once at most, the orders of a day
  exceed the limit by one for each executor, one for each consumer but the first
  and the unrecorded attempts, for any finite set of executors. `FlightInv`
  counts who is between check and send and who between send and record; both
  sets are disjoint parts of the executors and the consumers at work. The bound
  is sharp: with `SerialStart = FALSE` and three pids, TLC finds `BoundaryCap`,
  the bound for one consumer, violated and `CapFor(2)` not.
* `OrdersCapped`: `BoundaryCap`, which is that bound for N = 1; `LockInv` makes
  the consumers one.

**HaltControlProofs**, without conditions

* `TypeCorrect`.
* `StopsHold`, `OneLate`, `RollbackCloses`: `StopHolds`, `OneLateOrder`,
  `FailedResumeCloses`. The inductive invariant `StopIInv` has what a calm
  operation may count on (`CalmInv`: nothing enabling runs beside it), what
  `disable_live_now` has done by each of its steps (`DisableInv`), and what goes
  with a completed stop beyond the files it wrote (`StopInv`): the shared temp
  file does not hold RUNNING, no process holds an armed copy of the arming file
  or an enabled copy of the configuration that it may write back, and a resume
  has not passed its first check. The proof describes once what a step may do to
  the files, to the copies and to its place in the program (`FileMove`,
  `CopyMove`, `PlaceMove`, `StopMove`), and derives the invariant from that.

**ExecutorPathProofs**, for any number of reconciling workers

* `TypeCorrect`, without conditions.
* `FillsWithinVenue` and `EndsAccounted`: `RecordedWithinVenue` and
  `TerminalAccounted`, with one submitter. `IdInv`: the order a worker asks for
  and follows is the one in the intent's row, which never changes once written.
  `AnswerInv`: what it was told of the order is a past state of it, and the
  present one when that was the end. `FillInv`: the fills of an intent are of
  its row's order and no more than that has traded, a real one a single unit. `EndInv`: an
  intent about to end has all of them recorded and delivered. Quantities are
  cardinalities, carried by the theorems about finite sets.
* `OneOrder`: `SecondOrderNeedsLoss`, with one submitter. `SecondInv`: the one
  order of an intent without a lost acceptance shows in the row, or its submitter
  is about to write it there.
* `EndsAreFinal`, with one submitter, an action property: no step changes the
  status, the reason or the recorded fills of an intent that has ended, although
  reconcilers go on with answers they got before it did. It follows from the
  same invariant: whoever still has such an intent in hand has nothing to add.

**PaperPathProofs**, without conditions but for `BooksMatch`

* `TypeCorrect`, which says that neither cash nor position becomes negative:
  `apply_fill` looks at both again in its own transaction.
* `FilledJournaled`: `FilledIsJournaled`, with `JournalInv` (a reconciler that
  has read "filled" journals before it settles).
* `RefusedUnfilled`: `RefusedHasNoFill`. `ClaimInv`: a claimed intent is in one
  pair of hands and has no order until its holder inserts one, a listed one is
  past its submission; `SeenInv`: an order read as ended stays ended;
  `RefusedInv` names the three ways out.
* `BooksAdd`: position and cash are the sums of the rows of paper_fills, and the
  position at cost with the realized PnL is never more than was paid and earned.
  Every entry is made in the transaction that moves the order from new to filled,
  so no overlap of listings, cancels and runners books a fill twice (`Fills`).
  The set of intents is finite (`PaperAssumption`), as the sums need.
* `BooksMatch`: `BooksMatchFills`, where equality replaces "never more". The code
  divides floats and the model integers, so its hypothesis `ExactAverage` is that
  the average after a purchase is exact; it holds of every step of the run, and
  no condition on the constants short of enumerating the orders of the fills
  would say it.
* `PaperImplementsLifecycle`: PaperPath implements IntentLifecycle
  (`PaperSqlInTable`: what the queue's UPDATE lets through is in the table).
* The facts about sums (`SumsAgree`, `SumsTakeAny`) are those of FillSinkProofs,
  repeated so that each component's proofs stand on their own.

**SupervisionProofs**, without conditions

* `TypeCorrect`. The lists of tasks are built over `Managed` by a recursive
  function, whose type is proved by a least counterexample (`EachType`).
* `RunningTracked` and `StoppedDown`: `Tracked` and `StopStops`. `ActorInv` says
  what a controller knows at each place (a starter found no pid file and there is
  none until it writes, or somebody was in its way; the pid whose file it is
  about to remove has no process left), `PairInv` that two starters of one
  service have met, `StopInv` that somebody waits for whatever still runs of a
  stopped service.

### Only model-checked

* The liveness properties (`Settles`, `RowsEnd`, `HaltCompletes`,
  `FillsAccounted`, `TripSticks`, `EndedSettles`, `PaperSettles`, `Converges`):
  fairness and ENABLED are out of the prover's reach.

Every other property of a run is a theorem, with hypotheses that the run's
constants satisfy. Without them it fails, mostly as *Disagreements* shows; a
restore together with a failing lookup (`MCLiveSubmit_settles` with
`LookupMayFail = TRUE`) breaks `AtMostOneOrder`, since the restored row is claimed
again and the lookup was all that could still show its order.

## Disagreements

Met while modelling. Each is reached by an existing module with the constants
given, and none of them is among the runs, which all pass.

| What the code does | What is said | Constants |
|---|---|---|
| `find_order_by_client_oid` turns a failed lookup into "not found" (`live_exchange_adapter.py:182`), so the bounded policy may dispose of an intent whose order is live | "Only clean not-found answers reach this (lookup exceptions propagate before it)" (`live_reconciler.py:306`; also `live_intent_consumer.py:157`) | `MCLiveSubmit_settles` with `LookupMayFail = TRUE`: GivenUpHasNoOrder |
| `_recover_stale_submitting` skips rows younger than 120 s and runs once per start: a consumer restarted at once leaves the intent at submitting until the next start (`live_intent_consumer.py:176`) | "Crash/restart cases that were previously safe-but-stranded now converge" (`docs/work_log/review_stabilized_work_log.md:17861`) | `MCLiveSubmit_settles` with `EarlyRestart = TRUE`: Settles |
| `apply_fill_once` swallows a failed transaction (`risk_daily.py:257`) and on_fill answers ok; the loss is never counted and nothing blocks | "Return True only when canonical fill accounting succeeds." (`live_reconciler.py:250`), and the test `test_on_fill_returns_ok_false_for_risk_daily_failure` | `MCFillSink_replay` with `Faults = {"risk"}`: AckedAccounted |
| the repair script verifies, then removes the flag whatever failed in between (`scripts/repair_risk_sink_failed.py:98`) | orders are blocked "until a human or repair command verifies accounting" (`services/execution/place_order.py:516`) | `MCFillSink_repair` with `QuietRepair = FALSE`: FailureBlocks |
| the repair script looks at risk_daily only, though a failed loss streak raises the same flag (`:66`) | the same line | property `(Journaled \ Accounted) # {} => flag` for fills answered not ok |
| a fill first delivered with the venue's PnL is refused as a conflicting replay when the poller, which has none, delivers it again (`storage/execution_store_sqlite.py:445`) | "Idempotent on (venue, fill_id) so replays are safe" (`services/journal/canonical_execdb.py:13`) | `MCFillSink_replay` with `PnlSinks = {s1}` and no SYMMETRY: a later delivery of an accounted fill may be answered not ok |
| a buy has PnL 0 and so ends a streak of losses (`storage/execution_store_sqlite.py:471`) | recorded as "reset_on_profit" (`:479`) | a streak that only a profit may end |
| rows are taken newest first and share a cursor, so the newer order moves it past the older order's trades when these are further apart than the overlap | "Cursor may only advance through a contiguous prefix of successfully accounted fills." (`live_reconciler.py:639`); `docs/audit/audit_failure_ledger.md:14` lists the skip as NOT_REPRODUCED | `Trades = {"a1", "a2", "b1"}`, `OrderOf <- OrderOfTwo`, `Ts <- TsFar`, no faults, crashes, halts or late listing: UnaccountedReachable |
| the lookback counts journal rows, which on_fill writes before it may fail (`live_reconciler.py:232`) | "already accounted" (`:219`) | one order, `SinkFaults = {"after"}`: some trade of a filled order is accounted |
| one accounted fill is enough for filled, which is terminal: another fill of the order that failed in the same pass is not delivered again (`live_reconciler.py:648`) | "A sink returning {"ok": False} must make callers treat the fill as unaccounted" (`_executor_shared.py:86`) | `MCFillReconcile_ends` with `Orders = {1}`, `Trades = {"a1", "a2"}`, `SinkFaults = {"before"}`: FillsAccounted |
| an open order older than CBP_STALE_ORDER_MS becomes error (`live_reconciler.py:550`) | "Status stays `submitted`, no action" (`docs/AUTHORITY_MATRIX.md:53`) | `MayAge = TRUE` |
| a venue word such as expired changes nothing at any age, so that HALTING never ends (`live_reconciler.py:570`) | "reconciler should promote to HALTED on next cycle" (`docs/RUNBOOKS.md:170`) | `MCFillReconcile_ends` with `Ends = {"closed", "expired"}`: HaltCompletes |
| HALTED is reached with submit_unknown rows left (`live_reconciler.py:136`) | "only after cleanup work is complete" (`docs/safety/system_guard_state_model.md:122`) | `MCFillReconcile_venue` with `Unconfirmed = {1}`: HaltedIsClean |
| the consumer never reads the guard: with `op stop`, which writes HALTING and leaves the kill switch alone, it goes on submitting | "File wins — no orders submitted", "`_hard_off_guard()` checks this before every submit cycle" (`docs/AUTHORITY_MATRIX.md:102`) | `MCHaltControl_stop`: HaltBlocksSubmits |
| the dashboard's live_auto mode sets `execution.live_enabled` without the token ceremony (`dashboard/services/views/settings_view.py`, `update_automation_view`) | RUNNING is restored "only when a completed live-enable ceremony recently authorized live execution", and the way to an enabled configuration is the ceremony (`services/admin/resume_gate.py:20`) | operation `automation` |
| resume never writes `live_enabled` (`services/admin/resume_gate.py:23`) | "`resume_if_safe()` restores that persisted flag" (`docs/AUTHORITY_MATRIX.md:30`) | `ResumeIfSafe` |
| the rollback of a failed resume disarms first: should that raise, the kill switch stays off | the rollback is there to close | a "raised" end counted in FailedResumeCloses |
| `live_arming.json` is loaded and saved without a lock: a consumed token may come back as issued | one-time token | two operations on the arming file |
| two starters over a dead lock may both unlink and both run | "Reclaim only locks whose recorded PID is provably dead" (`strategy_runner.py:256`) | `MCOrderBudget_day` with `SerialStart = FALSE`: HolderOwnsLock; claims of a day then reach twice the limit, orders one more for each further consumer (`OrdersCappedFor`) |
| a dead child of the bot runner that it has not reaped answers os.kill(pid, 0) and is not started again until another start reaps it | "ensure wanted services are running" (`run_bot_runner.py:137`), "converges managed services" (`docs/STARTUP_STATUS_GATE.md:18`) | `Converged` with `proc[p] = "alive"` for `Signalable(p)`: Converges |
| nothing takes up a paper intent left submitting by a crash: `reconcile_once` lists submitted rows only | the header of `tests/test_paper_reconciler_recovery.py` has submitting end as rejected | `PaperSettles` without `lost` |

Observations without a contradicting text, visible in the models:

* *Halt control.* A disable and a resume in flight: the last writer wins. The
  epoch of the guard is written and never compared. All writers share the name
  of the temp file, so the second of two may publish the first one's payload or
  find the file gone (`SetState`).
* *Locks.* A lock left empty by a crash between creation and write is never
  reclaimed.
* *Executor path.* Six ways to strand an intent, named in `Stranded`. The answer
  of the dedupe claim is not used by `submit_order`, so two submitters at once
  would both send. `reconcile_open_orders` has no callers, and a pending intent
  with a remote id cannot arise. A made-up fill and the poller's real ones would
  both be booked by the sink.
* *Paper trading.* An exception after the order was inserted rejects the intent
  of a live order; cancel_order writes what it decided from an old read; a
  held and released intent is refused while its order exists; hold_intent
  answers ok when no row matched; neither loop catches store or price errors;
  the strategy runner's check for open intents does not count submitting rows.
  The execution-plan path cannot complete (its payload lacks intent_id), and
  `intent_executor.execute_one` indexes a dataclass.
* *Supervision.* A hot reload leaves unwanted services running until the next
  pass, so that executor and consumer run together for an interval. An invalid
  configuration ends the runner without the shutdown. stop_bot does not stop the
  runner, which starts the services again. start_bot starts executor and
  consumer whatever the mode.
* *Deliverers.* `user_stream_router.py:124` ignores what the fallback answered,
  and the poller advances its cursor whatever `route_fill_event` answered.
* *Fill accounting.* A journaled fill that is never delivered again blocks the
  later losses of its symbol (`execution_store_sqlite.py:462`); a fill counts on
  the UTC day of its accounting, not of the trade (`risk_daily.py:235`).
* *Ledger.* `upsert_order` overwrites: a delayed consumer may write
  submit_unknown over a later status (`live_trading_sqlite.py:159`).
* *Reconciler.* A pass reads the 60 newest rows, so rows deferred for ever would
  hide older ones (`:458`); a canceled row is terminal before its partial fills
  are fetched (`:525`).

## Not modelled

The map covers about four per cent of the repository's lines, the ones with
concurrent or durable trading state. The rest is, by volume, analytics and
evidence reports, dashboards, backtests and learning, strategies and market
data, command-line checks and packaging: code that computes or displays from
data it does not change, in one process, over floating-point values. A model of
it would restate formulas and have no interleaving, failure or ordering to
check. Exchange adapters format requests; the venue is an environment.

Within the modelled parts: fees of live fills, the change of the UTC day in the
fill sink, several symbols or venues at once (cursors and positions are per venue
and symbol), the limits of a pass, equity rows of mark_to_market, the poller's
own cursor, LiveGateDB's kill switch and `system_halted.flag`, a torn or missing
guard file, pid reuse, the older supervisors under `services/supervisor/`.

## Plan

Done: the submission path, the executor path, fill accounting, the order lane,
halt control, locks and daily limits, paper trading, supervision, with the
abstract specifications IntentLifecycle and FillContract.

Every safety property of the runs is a theorem. Left to do: a cursor kept for
each order, as a change to the code, proved to lose nothing; the poller's own
cursor on FillContract; a restore that is refused while a dedupe row would be
lost, for lookups that fail.
