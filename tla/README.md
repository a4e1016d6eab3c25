# QuantPlatformKit: a TLA+ verification project

QuantPlatformKit is the common library of a family of trading platforms: strategies
decide, and the kit carries their decisions to a broker. Most of it is sequential
arithmetic and validation. The parts that can lose money when several processes,
slow answers and crashes interleave are the durable ones: files and objects that are
created once, never changed, and read again before every decision. This project
models those parts.

All source paths below are relative to `src/quant_platform_kit/` (in the repository:
`src/src/quant_platform_kit/`). `[m]` marks what is modelled now.

## 1. Inventory

### 1.1 Account submission journal `[m]` — `common/execution_state.py`, from line 758

*State.* Per brokerage account a gap-free, hash-chained sequence of immutable event
objects `0000…N.json` (`account_submission.v1`) on a local directory or in an object
store; per process one mutex per account; a kernel file lock beside the local
directory, or an owner marker beside the objects; per session its own mutex, the
grants it was issued, those it used, and the flag `_failed`.

*Operations of `AccountSubmissionSession`.* `read_state` replays the whole journal;
`reserve` writes `PREPARED` and returns a grant; `dispatch` consumes the grant, calls
the platform's `submit()` and records the outcome; `record_observation` records later
reports; `record_circuit_breaker_open` bars new risk for good;
`record_account_equity`, `reserve_account_risk`, `reconcile_account_risk` and
`reserve_reduction` keep the risk of an account bound to a domain.

*Hard.* Every method decides on a journal that another session may extend before the
method appends. Only `dispatch` and `record_circuit_breaker_open` take the locks
between sessions; the others rely on create-only appends. Creating and writing a local
file are two steps; an answer can be lost after the object exists; a process dies
anywhere; a broker answers late, partially, contradictorily or not at all.

*Correct when.* An order reaches the broker at most once; replay never refuses what a
session wrote; no new-risk order follows OPEN; OPEN never takes the place of an
outcome; a terminal or unknown attempt never changes; only its owner resolves an
attempt; what the account may lose is never undercounted; reductions never sell more
than is held; locks are given back.

### 1.2 Durable execution commands `[m]` — `common/execution_commands.py`

*State.* Per command `command.json` and a sequence of event objects, create-only.
*Operations.* `enqueue`, `list_due`, `claim_due`, `append_event`; `list_unresolved` and
`build_recovery_report` only read. *Hard.* `append_event` reads the history, checks the
transition, then creates the next object. *Correct when.* `events()` accepts every
history; a command has one claimant and only follows `_ALLOWED_TRANSITIONS`.

### 1.3 Paper command consumer `[m]` — `common/paper_execution_command_consumer.py`

*State.* None of its own. *Operation.* `consume_due_paper_execution_commands`: list the
due commands, claim each, evaluate it (admission, `reconcile_command`, runtime gate, in
`paper_execution_admission.py`, `runtime_command_gate.py` and `strategy_release.py`),
append its lifecycle, flag it `reconciliation_required` when a call raises. *Hard.*
Several workers, also of other accounts at the same store, who claim before they check
whose command it is; an operator; a failure at every call. *Correct when.* A command is
evaluated once, by its claimant, never left half way, and submitted only where account,
release, receipt and reconciliation allow it.

### 1.4 Strategy risk state chain `[m]` — `common/strategy_risk_state.py`

*State.* Objects of one directory: the root transition, and every other one under the
digest of its predecessor. *Operations.* `load_chain` walks from the root; `append`
walks, decides at the end, creates, and after a conflict reads what is there. *Hard.*
Two writers of one successor, a writer that repeats its own append after a lost answer,
a walk while others extend the chain. *Correct when.* The objects are one list that
grows at its end, every receipt is and stays true, a repeated append is never refused.

### 1.5 Execution markers and owner claims `[m]` — `common/execution_state.py`, to line 757

*State.* Marker, claim, outcome and fence objects. *Operations.* `claim_marker`,
`has_marker`, `record_marker`, `record_outcome`, `claim_account_owner`. *Hard.* A plain
overwrite beside a create-only claim; an outcome file removed after a failed write; a
file that exists before it is written; deaths between claim and order. *Correct when.*
Callers of `claim_marker` submit a signal once, two owners are never past one fence, an
outcome that was acknowledged stays.

### 1.6 Reconciliation recovery `[m]` — `common/reconciliation_recovery.py`, `broker_reconciliation*.py`, `live_continuity.py`

*State.* The live-continuity state of an account, receipts of broker reads, candidates,
records, confirmations, plans. *Operations.* Enrolment of a candidate from two receipts,
publication, the operator's confirmation, evaluation with a newer receipt, the
platform's compare-and-set. *Hard.* Evidence older than the confirmation, facts that
change between reads, another target deployed meanwhile, plans that outlive the
recovery they were made for. *Correct when.* An account resumes only on facts that were
confirmed and found again afterwards.

### 1.7 Research promotion cycle `[m]` — `strategy_lifecycle/research_promotion/`

*State.* A file per research ticket with checkpointed stages, under one directory lock;
a copy of the ticket at the console. *Operations.* `run_saved_research_promotion_cycle`,
`decide_saved_research_promotion_ticket`, `reconcile_saved_research_promotion_ticket`.
*Hard.* A death between a checkpoint and a callback, work that is pending and polled,
rounds that add up over tickets, idle scopes, lost or late POSTs, decisions made at two
places. *Correct when.* No callback runs twice, people see only tickets whose evidence
is complete, decisions stay.

### 1.8 Notification incidents `[m]` — `notifications/unified_contract.py`

*State.* A versioned marker per incident. *Operations.* `IncidentTracker.observe` and
`record_delivery`, both by compare-and-set. *Hard.* Workers that observe the same
transition, a compare-and-set whose answer is lost, receipts that come after the
incident moved on. *Correct when.* A transition has one sender, a severity is not
swallowed, a delivery is what the transport confirmed for that transition.

### 1.9 Cloud Run tag reservations `[m]` — `operators/cloud_run_tags.py`

*State.* A journal file and its lock. *Operation.* `allocate_tag`. *Hard.* Processes
that race, die while the file is rewritten in place, or lose power before it is synced;
a write that is cut off and leaves a text that can still be read; a caller that asks
again. *Correct when.* No tag goes to two operations, none gets two tags, what was
handed out is kept as long as the journal can be read. The code keeps this for the
operations no cut-off write reaches (3.3).

### 1.10 The other components

| Component | State and operations | What is hard | Status |
|---|---|---|---|
| Reduce-only admission and the rest of the command gates (`common/reduce_only_command_admission.py`, …) | pure verdicts on a command | boundaries of caps and dates | partly: what the paper consumer calls is `CommandGates` |
| Account risk envelope (`risk/account_new_risk_gate.py`, `risk/capital_risk_envelope.py`, `common/account_risk_budget.py`, …) | pure; peak, floor, brake, budget | band boundaries, carried peak | partly: brake, budget and reduction test are operators of the journal model |
| Lifecycle proposals (`strategy_lifecycle/rollback_manager.py`, `candidate_control.py`, …) | recommendations recorded for a human | — | not modelled: no state machine of their own |
| Performance storage, drift (`strategy_lifecycle/performance_store.py`, …) | numeric series as JSON | floating point statistics | not modelled: out of TLC's reach |
| Cloud providers (`cloud/`) | adapters of object stores | — | external: the models assume an atomic create-only write |
| Broker adapters (`ibkr/`, `schwab/`, `longbridge/`, `binance/`) | network I/O, conversion | any report may come back | external: the journal takes any report of a set |
| Strategy contracts, plugins, catalogs | static descriptions | — | not modelled: parsing |
| Risk gate and engine (`risk/gate/`, `risk/engine.py`, …) | pure | boundaries | not modelled |
| Runtime control, heartbeat | pure due-time decisions | dates and boundaries | not modelled |
| Execution guards (`execution_kernel/`, `common/cash_conservation.py`, …) | one order batch | rounding, conservation | not modelled |
| Research, data, allocation | statistics, manifests | — | not modelled |

### 1.11 How they interact

A signal producer enqueues a command; a paper worker consumes it without a broker. A
platform that trades for real makes an allocation intent, opens an
`AccountSubmissionSession`, records equity, reserves risk, reserves a grant and
dispatches the order with its adapter's `submit`. The session calls the risk envelope
and budget functions on what the journal holds. The markers and the owner claim keep a
platform run from starting twice; reconciliation recovery decides when an account whose
position is unclear may trade again; the strategy risk chain holds what a strategy has
consumed of its own budget. All of them use the same create-only object stores and none
calls another's storage. The modelled parts therefore share no state, and are separate
specifications: the journal does not know commands, and the paper consumer has no
broker.

## 2. Modules

| Module | What it is |
|---|---|
| `AccountJournal` | what an account journal may hold: certainty of a report, what replaying each event checks and changes |
| `SubmissionLedger` | what an account journal promises, without sessions, locks and appends: the abstract specification |
| `AccountSubmission` | sessions and processes over that journal: one action per step of each method |
| `MCAccountSubmission` | orders, reports and processes of the small instances |
| `AccountSubmissionProofs` | every safety property of the two, proved: grants, the locks, decisions against replay, the position, the risk that is accounted for and the implementation of `SubmissionLedger` |
| `CommandLifecycle` | what the command queue promises, without a store: the abstract specification |
| `CommandGates` | the verdicts between a claimed command and its submission, as operators |
| `PaperCommandConsumer` | workers, store failures and an operator over durable histories |
| `MCPaperCommandConsumer` | commands, receipts, accounts and reports of the small instances |
| `PaperCommandConsumerProofs` | readable histories, approved submissions and the implementation of `CommandLifecycle`, proved |
| `RiskStateHistory` | what a risk state chain promises: one list that grows at its end |
| `StrategyRiskChain` | writers that walk, decide and create, with lost answers |
| `MCStrategyRiskChain` | rival, stale and late transitions of the small instances |
| `StrategyRiskChainProofs` | a readable chain, true receipts and refusals, the implementation of `RiskStateHistory`, proved |
| `ExecutionMarkers`, `MCExecutionMarkers` | runs of a platform over fence, claim and outcome |
| `ExecutionMarkersProofs` | one execution, one owner, an outcome that stays, proved |
| `ReconciliationRecovery`, `MCReconciliationRecovery` | an account, its receipts, an operator and controllers |
| `ReconciliationRecoveryProofs` | what a plan rests on, proved |
| `ResearchPromotion`, `MCResearchPromotion` | the holder of the directory lock, the console, people |
| `ResearchPromotionProofs` | every safety property of a ticket, proved |
| `NotificationIncident`, `MCNotificationIncident` | workers over one incident's marker |
| `NotificationIncidentProofs` | its safety properties, proved |
| `TagReservations`, `MCTagReservations` | processes over the reservation journal |
| `TagReservationsProofs` | its safety properties, proved |

### 2.1 AccountJournal and AccountSubmission

The code re-reads and replays the journal before each decision, so the model keeps the
state that replay computes, `journal`, in place of the list of events; the number of
events is `generation`, and an attempt is named by the number of its `PREPARED` event,
as in the code. `torn` says that a file was created and not yet (or never) written,
`poisoned` that a readable event is refused by replay. Both block every later read.

A session is sequential (its methods hold its own mutex) and has a program counter.

| Code | Actions |
|---|---|
| `_append`: create, write, read back | `Create`, `CreateConflict`, `Write`, `StoreFails`, `Confirm`, `ConfirmFails` |
| `reserve` | `Reserve`; with an unbound journal `ReserveBinds`, the append, `ReserveAfterBind` |
| `reserve_reduction` | `ReserveReduction` |
| `record_account_equity`, `reserve_account_risk`, `reconcile_account_risk` | `RecordEquity`, `ReserveRisk`, `ReconcileRisk` |
| `dispatch` | `DispatchBegin`, `DispatchLock`, `DispatchGuard`, `Submit` or `SubmitRaises`, `RecordOutcome`, the append |
| `_writer_guard` and its confirmation | `DispatchGuard`, `OpenGuard`, `GuardFails` |
| `record_observation` | `RecordObservation`, `RecordOutcome` |
| `record_circuit_breaker_open` | `OpenLock`, `OpenGuard`, the append |
| environment | `Crash` of a process, `Tick` |

The checks a method makes are its guard, computed on the journal at that step; what it
decided travels in `op[s].event` to a later `Create`, which succeeds only when the next
sequence number is free. `Replay` and `ReplayAccepts` translate `read_state`
independently of the guards: what a method permits and what replay accepts are two
pieces of code, and `JournalNeverPoisoned` and `OnlyDebtPoisons` compare them.

`SubmissionLedger` is the abstract specification: a ledger of orders (`OrdersOf(journal)`
leaves out valuations, reservations and snapshots), the breaker and what was sent. Its
five steps are entering an order, learning about one, sending one, opening the breaker
and nothing; each is atomic and sees the ledger as it is. `ImplementsLedger` says that
sessions which read, decide, append and confirm in separate steps do no more than this.

*Abstractions.* Instants are naturals and a snapshot's `source_digest` is identified
with its `valuation_at`. Money is a natural number, except for `cash`, the one amount of
a snapshot that the writer lets be negative; a unit of any order loses at least 1, and an account stays in one capital band, whose drawdown brake is `BrakePercent`.
A sum of numbers, `Total(f, S)`, is the number of units they count: a cardinality, about
which the library has theorems, where a fold would need an induction. One instrument is
traded. Fees, leverage, currencies, reception watermarks and
pending-order evidence are left out. Checks of the caller's identity (account, release,
policy window) are assumed to pass: they do not depend on other sessions. A method that
refuses without giving back a lock is no step. Consecutive reads of the journal inside
one method, with no shared action between them, are one read. The environment is
assumed to take snapshots that cover at least the fills earlier ones covered, with the
figures of the reports in the journal. A snapshot that shows a negative position is
refused by the method and by replay, as in the code (lines 1339 and 1073).

### 2.2 CommandGates and PaperCommandConsumer

`queue` and `history` are the store. A worker's `pc` is the place in the consumer's
loop, `job` what it has in its hands. `append_event` is `ReadHistory` then
`AppendEvent`; `claim_due` is `Look` then `Claim`; the flag written by the exception
handler is `Reconcile` then `Flag`. A create succeeds when the sequence number after
the events that were read is `Vacant`. `RunAborts`, `EvaluateRaises`, `AppendRaises`
and `FlagRaises` are a raising call at every place, with the object durable or not;
which of them ends the run, which leads to the flag and which is swallowed is what the
code's `try` blocks say. `Operate` is an operator who cancels a command, even a held
one, or records how a flagged one ended. `Crash` ends a worker: the process that
replaces it is another member of `Workers`.

`Content` is what a command says and `Runtime` the account, release and attestation of a
worker. A worker whose runtime does not attest its release cannot `StartRun` (the
preflight). `Evaluate` takes whatever `reconcile_command` reports and proposes, or, for a
command of another scope, the findings of `_command_binding_findings` without entering
it; `Judge` turns this into the next state. In `CommandGates`, `AdmissionFindings` is
`evaluate_paper_execution_admission`, whose checks halt in order; `Mode` and `Permits`
are `evaluate_runtime_command_gate`; `Submittable` joins them with the release binding.
A command claimed by a worker of another account is rejected for good, and its own
workers never run it: that is what the code does, in a store two accounts share.

*Abstractions.* A command whose own digest is wrong is left out: the store refuses to
read it. A digest that does not fit its receipt is the field `sealed`. The gate is
modelled for the submission of a claimed command under `_PAPER_COMMAND_GATE_POLICY`;
its check of the session date repeats what `list_due` and `claim_due` ensured. The
normalisation of fields and the reduce-only admission, which no module calls, are left
out. A session date does not advance: a worker may start a run for any date.

### 2.3 RiskStateHistory and StrategyRiskChain

`object` maps each place to the transition stored there; a transition is named by its
content and so is its own digest. `Begin` starts an `append`, `ReadNext` reads one
object of the walk, `Decide` is the test at the end (already in the chain, refused, or
create), `Create` succeeds when the place is vacant and `CreateFails` reads what took
it. `StoreRaises` is a raising call at any place, the object durable or not. A reader
validates the whole chain, which `ChainReadable` states with the operator `Follows` that
translates the validation.

### 2.4 ExecutionMarkers

`object` holds fence, claim and outcome of one signal and account. A run goes through
`claim_account_owner` (`Create` of the fence, or `ReadFence` when it exists),
`claim_marker`, the order (`Submit`, the platform's) and `record_outcome`; a legacy run
uses `HasMarker`, `Submit`, `RecordMarker`. On local files (`local`, chosen once)
`Create` and `Write` are two steps, and so are `RecordMarker` and `RecordWrite`, which
truncates first. `Raises` and `Dies` may happen anywhere, `Start` starts a run again,
`RepeatOutcome` asks again for an outcome, `Handover` is the operator who deletes the
fence while nothing runs, as `docs/account-owner-fence-ops.zh-CN.md` says.

### 2.5 ReconciliationRecovery

`Observe` is a broker read that becomes a receipt, `Enroll` and `EnrollInitial` build
candidates of kind v1, v2 and v3, `Publish` writes the record, `Confirm` is the operator,
`Evaluate` the controller's `evaluate_reconciliation_recovery_activation`, `Apply` the
platform's compare-and-set with the comparison `Exact` the plan allows. `BookChanges`,
`Deploy`, `Incident` and `Tick` are the world. *Abstractions.* All clocks agree; the
five state digests are one value; the compare-and-set, which is outside the library, is
taken at its best: it compares everything the plan carries, in one step. A plan from an
initial enrolment (v3) activates on facts that were read twice and confirmed but need
not have been found reconciled (`common/reconciliation_recovery.py:399`);
`ReconciledTwice` is therefore about source-bound (v2) plans only.

### 2.6 ResearchPromotion

A process holds the directory lock for a whole call, and one that finds it taken returns
at once, so `pc` and `task` are those of the holder; the tickets on disk are the state,
because the holder saves whatever it changes before it goes on. `Create`, `Resume`,
`ArchiveIdle` and `ArchiveScope` are the beginnings of a cycle, `Begin` the save before a
callback, `Call`, `Returns` and `Raises` the callback, `Diagnosed`, `Optimized`,
`Backtested` and `Shadowed` what follows each stage, then `Summary`, `Summarise`,
`Reconcile`, `Deliver`, `Post`, `SyncEnds`. `Decide` is the local decision,
`ConsoleDecide` and `Arrive` the console. `Crash` ends the holder at any save and
frees the lock. *Abstractions.* One scope; callbacks return any outcome; tasks have no
identity; copies of the ticket elsewhere are left out.

### 2.7 NotificationIncident and TagReservations

`observe` is `Observe`, `Read`, then `Write`, `NothingToWrite`, `WriteLoses` or
`WriteRaises` (taken effect or not), at most `MaxAttempts` times; `Send` is the
transport, `DeliveryRead` and `DeliveryWrite` the receipt. `allocate_tag` is `Open` (which
creates the file), `Reserve` or `Refuse` under the lock, `Write`, `Sync`, `Return`.

The tag journal is rewritten in place: the new text goes over the old one, which is
truncated afterwards. `Dies` in the middle of a write leaves the old file, the new one,
a `torn` one that nobody can read, or a *mixture*: the new text up to some place, then
the old one. `PowerLoss` leaves what was synced, what was written, a torn file or a
mixture of the two, whichever comes first. An operation is named by the place of its
digest in the sorted text, so the slot of a record is the number of records before it
(`Slot`), and two texts meet where records stand in one slot (`SameSlot`). What is read
of that slot is one of the two records, the one that follows under a key that nobody
has (`Strays`), or a blend whose fields nobody asks for (`CutSlot`). `Distinct` is the
part of `_journal_valid` that can refuse a mixture of well-formed records. The history
variable `endangered` collects the operations from the first place on where two mixed
texts differ; the properties speak of the others, the *intact* ones.

*Assumptions about mixtures.* Records have one length: digests do, and so do tags that
are shortened. Where lengths differ, a cut text meets the old one inside a record and is
more often unreadable. A row of the model stands for as many records as
a flush of the buffer or a page of the disk holds (a record has about 250 bytes, the
buffer 8192). An interruption cuts a text at one place. The journal holds one
service's records. `Strays` bounds the keys that a cut through a digest can make, and
`Garbled` stands for a digest or tag no caller asks for. The preferred tag is part of
the tag an operation asks for.

## 3. What is checked

Every property of a passing run has a mutant in `PROJECT.json`: a changed guard or
helper that makes TLC find a violation under the same configuration. The runs of the
markers and of the incidents check a type invariant; those of the other modules, and
the inductive invariants, were checked before they were proved (section 4).

| Run | Instance | What it shows |
|---|---|---|
| `AccountBreaker` | 3 sessions in 2 processes, local files, 2 orders, 3 events, fair threads | torn and failed writes and crashes included: the journal implements `SubmissionLedger`, an order is sent once, no new-risk order follows OPEN, OPEN waits for outcomes, only owners resolve, and the mutex and the file lock are given back |
| `AccountRisk` | an unbound account on an object store, 2 sessions with intents of their own, buy 2 and sell 2, 4 broker reports, cash that may be negative, 10 events | exposure is never above what is accounted nor above the limit; orders are prepared on the latest valuation; two reductions proven on one snapshot never sell more than is held; binding races and contradictory reports leave no event that replay refuses, except snapshots with negative cash, and take back no fact |
| `AccountOpenWhileBinding` | an unbound account, new risk | *violated*, see 3.3 |
| `Commands` | 2 fair workers of 2 accounts, a command for each on one date, runs of two dates, stale data, mixed orders, a raising call, crashes, an operator | histories stay readable, the queue implements `CommandLifecycle`, what is submitted was allowed by its own account, receipt and reconciliation, and a surviving worker ends or flags what it holds |
| `CommandsClaimedForever` | 1 command, 2 fair workers | *violated*, see 3.3 |
| `RiskChain` | 3 writers, 5 appends of 6 transitions (rival roots, rival successors, a late one), a raising call | the store stays one readable history, receipts are and remain true, and a repeated append is not refused |
| `Markers` | 4 runs of 2 owners, one of them legacy, an object store or local files, 2 faults, a handover | a signal is submitted once by callers of `claim_marker`, two owners are never past the fence, acknowledged outcomes stay, also when files exist before they are written |
| `Incident` | 3 workers, 2 severities, 4 observations, 1 fault | a transition has one sender, no severity is swallowed, deliveries are true and final |
| `Recovery` | 2 controllers, 2 books, 2 targets, 3 receipts, 2 confirmations, 2 incidents | plans rest on a confirmation and a later receipt of the same facts; an account resumes only so |
| `Promotion` | 2 researches, 2 digests, 2 rounds, a clock, a crash | no callback repeats, evidence is complete, rounds are counted, decisions stay |
| `PromotionAcceptedArchived` | 4 researches, no crash | *violated*, see 3.3 |
| `Tags` | 3 processes, 3 operations, 2 candidates, 2 tags, 4 calls, 2 deaths or power losses | writes cut off and still readable included: an intact operation shares its tag with no other intact one and keeps it, and what it was handed is in the journal |

### 3.1 Bounds

`MaxEvents` bounds the journal: a *call* needs room, what a call in progress appends
does not, so no run of an instance is cut in the middle of a method. Three events are
enough for PREPARED, OPEN and OBSERVED in every order, which is what the breaker
properties compare, with two sessions in one process (they share the mutex) and one in
another (it meets only the file lock). Ten events are the binding, equity, a
reservation, PREPARED, OBSERVED (twice, for a partial fill), the loss, a snapshot and two
sales; a reconciliation takes the place of the sales. `MaxTime` bounds the clock where
valuations expire. The reports of the risk instance are a part, the whole, a final
status without its facts and an answer about another order. The breaker instance has
local files and the risk instance an object store; the theorems of section 4 hold for
both kinds. `MaxFaults` bounds raising calls: one is enough to ask for a flag, and
`HeldCommandSettles` is only true for one, because a second may fall on the flag itself.
The two commands of `Commands` are one whose receipt permits reductions and one that may
add risk; the platform reports nothing or stale data, and proposes nothing, a reduction,
or a reduction together with an order that adds risk. This reaches all three
modes of the gate (halted through a foreign account), with orders it lets pass and orders
it stops; other mismatches are covered by the theorem, which holds for every content.

Five appends let three writers meet at the root, at a successor and at a repeated
append. A run of the markers needs two starts to meet its own claim again. Three
receipts are the two of a v2 candidate and the one after the confirmation; two incidents
let a plan outlive its recovery. Two researches with two rounds meet the limit both
inside one ticket and across tickets; four are the fewest that reach it with a third
accepted. Four observations are a rise, a further rise, a recovery and a second
incident. Three operations let a write be cut off before, at and behind the record of
another one, with a key between them that nobody has; two tags for them let one be
refused and one be taken again.

Symmetry is used in `AccountRisk` (a session is exchanged together with its intent),
`Incident`, `Recovery`, `Promotion`, `PromotionAcceptedArchived` and `Tags`
(processes, candidates and tags; operations are ordered and are not
exchanged). None of them checks liveness. Deadlock is not checked: an account that is
blocked by an unknown attempt, a full journal, a run that has ended and a crashed worker
do stop.

### 3.2 Fairness

`AccountSubmission!FairSpec` has weak fairness of `Progress(s)`: a thread inside a
method goes on, when nothing it uses fails. Nobody is obliged to call a method, and
failures and crashes are not needed for progress. Weak fairness is enough although two
sessions may want one lock, because `LocksReleased` is about the holder, whose next
step nobody disables. `PaperCommandConsumer!FairSpec` has weak fairness of `Work(w)`: a
running worker goes on with its loop. Starting runs, raising, crashing and operating
are not fair.

### 3.3 Findings

* `AccountOpenWhileBinding`: `reserve(new_risk=True)` checks the breaker on the journal
  it read first. When it then binds the account's domain it reads the journal again, and
  does not check again. OPEN recorded in between is followed by a new-risk `PREPARED`,
  which replay refuses: the account's journal cannot be read any more
  (`common/execution_state.py:1606`). `docs/account-new-risk-gate.zh-CN.md:138` says that
  reserve is refused while OPEN.
* `CommandsClaimedForever`: `docs/durable-execution-commands.md:19` says that a command
  whose worker crashes after claiming is written, or remains, in
  `reconciliation_required`. It stays `claimed`: the handler that flags it runs only in
  the worker that failed, later runs skip whatever is not queued, and `claim_due` is
  outside the `try` block (`common/paper_execution_command_consumer.py:333`).
* `PromotionAcceptedArchived`: `docs/research-promotion-resume.zh-CN.md:72` says that
  human stages protect a scope. When the rounds of several tickets add up to the limit,
  the last file listed is archived and parked whatever it is, also an accepted ticket
  (`strategy_lifecycle/research_promotion/cycle.py:939`).

Five more behaviours of the models are worth knowing. They have no run of their own: the
first two are the exceptions the properties of `AccountRisk` and `Tags` name, and of the
others the documents leave room for what the code does.

* *Negative cash.* `record_account_equity` tests `cash` only for being finite
  (`common/account_risk_budget.py:24`) and stores it (`common/execution_state.py:1370`);
  replay reads it as a number that must not be negative (`:1070`, `:817`). A margin
  account (`common/account_domain.py:52`) that owes cash therefore makes its own journal
  unreadable with the first snapshot that says so, for every session and for good. The
  comment at `:1323` announces a validation of the numeric facts, and
  `tests/test_schwab_portfolio.py:253` expects a portfolio with a negative cash balance.
  `AccountRisk` contains such snapshots (`Cash`), and `OnlyDebtPoisons` says that nothing
  else poisons the journal. In its instance `JournalNeverPoisoned` is violated.
* *A write of the tag journal that is cut off.* `docs/cloud-run-tags.md:36` says that an
  interrupted in-place write can invalidate the journal and must stop allocation, and
  `operators/cloud_run_tags.py:3` that a reservation is exclusive. In the model two
  processes suffice for the contrary: operation 2 is handed a tag; the write for
  operation 1 stops after its record, where the old text has nothing left but its closing
  brackets; the journal is readable and holds operation 1 only; operation 4 is handed the
  tag of operation 2. Operation 2 is then not `Intact`: with `Operations` in its place,
  `IntactTagsExclusive` is violated in the instance of `Tags`. With real records of 248
  bytes and a write of 60 of them that stops at its first 8192 bytes, the text stayed
  readable whenever the new record sorted before that place (211 of 211 tries), and in
  207 of them a handed tag was free again.
* *A dispatch on an old valuation.* The comment at `common/execution_state.py:1699` says
  that only a read inside the writer guard may authorize the broker write. The reads
  inside (`DispatchLock`, `DispatchGuard`) repeat the certainty and breaker checks;
  expiry, valuation and reduction source are checked in `DispatchBegin`, before
  `dispatch` waits for its locks, and what is superseded or expires meanwhile is still
  submitted.
* *A torn outcome.* The docstring of `record_outcome` says that an already-recorded
  outcome returns False (`common/execution_state.py:215`). On local files False means
  that the file exists: `Create`, `Dies` and a `Start` of another recorder end in
  `Exists` on an empty file, and nothing was ever recorded.
* *A plan that outlives its recovery.* The transition plan carries neither an expiry nor
  a generation of the state it expects (`common/reconciliation_recovery.py:317`). In
  `ReconciliationRecovery`, `Evaluate` by two controllers, `Apply` of one, `Incident`
  and `Apply` of the other resume an account whose second recovery nobody confirmed, when
  the facts are the same. `docs/broker-reconciliation-continuity.zh-CN.md:99` asks for a
  human confirmation; whether the platform compares more is outside the repository.

## 4. What is proved

The proofs hold for every value of the constants that satisfies the named assumptions of
the module (`JournalAssumption` and `SubmissionAssumption`, `ConsumerAssumption`,
`ChainAssumption`, `MarkersAssumption`, `RecoveryAssumption`, `PromotionAssumption`,
`IncidentAssumption`, `TagAssumption`): any number of sessions, processes, orders,
commands, writers, tickets and faults, and both kinds of store. Sets that are counted or
summed over (the orders of an account among them) are assumed finite.

**`AccountSubmissionProofs!OrderIsSentOnce`** — `Spec => []OrderSentOnce`. Counting what
was sent says nothing about what may still be sent, so the invariant follows a grant
from its birth. `WritingOK`: between creating and writing a local file a session is
alone, so an event lands at the number the session read. `AttemptsOK`: attempts are
numbered within the journal, and no two have the same intent and order (replay refuses
the second). `ConfirmOK`: the attempt a session is about to confirm is in no memory and
was never sent. `GrantsOK`: grants of different sessions differ, and an unused grant was
never sent. `DispatchOK`: a dispatch works on a grant of its own, unused until the guard
is taken, and unsent when it calls `submit`. `AppendOK` ties the event in flight to what
the session will do when it is confirmed; `SentOK` bounds what was sent. `Shape` is the
part of the type invariant the argument needs. Each action has a lemma; the appends are
reduced to one lemma about publishing an event (`PublishKeepsInvariant`), and calls that
only start an append to another (`StartKeepsInvariant`). The proof does not use the
locks: a grant is consumed once even when mutual exclusion is lost.

**`AccountSubmissionProofs!OpenBarsEveryNewRisk`** and **`OpenWaitsForEveryOutcome`**. A
session that submits and a session that writes OPEN are both inside the guard
(`InGuard`: from the last read to the end of the append), and whoever is inside holds
the account mutex of its process and the file lock, or the mutex and its process's
ownership. Two sessions cannot both hold both, so they are the same session
(`OneInGuard`). `LockInv` states this for each place of a session; `BarOK` adds that a
session about to submit new risk saw the breaker closed and that it is still closed,
because only a session inside the guard opens it (`OpenerInGuard`). The lock lemmas say
once what taking, releasing and refusing leave to the other sessions (`OthersKeep`). The
proof needs that no session is named like a process, which `SubmissionAssumption` says:
`writer` holds a session on local files and a process on an object store.

**Decisions and replay** — the next part of `AccountSubmissionProofs` compares what
methods decide with what replay accepts.
`JobOK` types what a session remembers. `DecisionOK`: as long as nothing was appended
since the session read, replay would accept the event it is about to create, and a
prepared order is on the latest valuation; an event is created only in that case, which
is why decisions made without any lock are right when they are written. Each method has
a lemma that its guard makes its event acceptable (`ReserveDecides`, `EquityDecides`,
`ObservationDecides`, …); the last one rests on `StoredReport`, that whatever report the
broker returns is stored in a form replay accepts. `OwnerOK`: the attempt in dispatch is
still `PREPARED`, since only its owner observes it. `ReplayTyped` shows that an accepted
event of the right type keeps the journal's, fills within their orders included.
`AttemptSteps` then says what a step may do to an attempt, and the theorems read it off:
`TypeCorrect`, `OneIsPreparedAtATime`, `ObservationsAreFinal`, `OnlyTheOwnerResolves`,
`PreparedOnTheLatest`. `JournalIsNeverPoisoned` assumes `Harmless`, which has two parts:
`NoRiskWhileBinding`, no caller asks for new risk in a call that may bind the account,
and `NoDebt`, no snapshot reports negative cash. Without the first it is false by the run
`AccountOpenWhileBinding`, without the second by 3.3. `OnlyDebtPoisonsTheJournal`
drops `NoDebt`: under `NoRiskWhileBinding`, in the data the model keeps, replay refuses
snapshots with negative cash and nothing else.

**`AccountSubmissionProofs!ReductionStaysWithinPosition`** — `Spec =>
ReductionWithinPosition`. `CoverOK` says what a snapshot knows: it covers no more than
each attempt has filled, and its risk and its position are the sums of what it covers.
`ReductionOK`: while a reduction is prepared, every other attempt is final and the
reduction lies between zero and the position that *all* fills add up to; a late fill
cannot move the position under it, because nothing else can still fill. Both need
`Foreseen`: until something is appended, what a method established about its event
(`Sound`) still holds, so `ReductionSound` can pass from the recorded snapshot to the
position: all fills are covered (`FillsCovered`), hence the two sums have the same units
(`SameNet`). Each kind of event has its part in `CoverAfter` and `ReductionAfter`.

**`AccountSubmissionProofs!RiskIsNeverUndercounted`** — `Spec => []RiskNeverUndercounted`,
under `AccountAlwaysBound`. `UniqueOK`:
an order's reservation backs at most one attempt that is not a reduction. `HeldOK`: what
an order can still lose is at most what remains reserved for it, or that and what the
snapshot covers of its one attempt. The second alternative is for a reservation that was
reconciled: its fills have moved into a snapshot, and snapshots only cover more
(`Sound`). `ExposedIsAccounted` adds this up over the orders: attempts of different
orders are different, so the covered parts are distinct units of the snapshot's sum
(`TotalSplits`). `ExposedAfter` shows the limit: a new reservation is counted before it
is made, and nothing else adds exposure.

Its one hypothesis is `AccountAlwaysBound`, the account starts bound or each session has a
domain (as in the run `AccountRisk`), because without a domain the code reserves no
risk. A reconciliation looks a reservation up by the order of an attempt without asking
whether the attempt is a reduction (`common/execution_state.py:1503`), so the proof needs
that a reduction never buys with an order that has a reservation of its own:
`ReductionsAreSales`, because a snapshot with a negative position is not recorded, and
a reduction is proven on a snapshot's position.

**`AccountSubmissionProofs!AccountIsNeverShort`** — `Spec /\ []OpensByBuying => []LongOnly`,
about the position that all fills add up to, not the recorded one. `OpensByBuying` is a
condition on what callers do: nobody reserves risk for an order that sells. Every sale is then a reduction, proven on the position.
Reports still arrive in parts and late, and new buys are prepared while a sale is pending,
so that the position is not negative is not inductive. `SalesOK` is: one sale at most can
still fill, and the position covers its unfilled rest. An observation of that sale takes
from both sides the same (`PositionAfterFill`, with `TotalSplits` for the sums), one of
another attempt can only add to the position, because the other open attempts buy, and a
new reduction finds every attempt final (`Sound`) and a position at least its quantity.

**`AccountSubmissionProofs!JournalImplementsLedger`** — `Spec => ImplementsLedger`. The
invariants above give the guards of the abstract steps: an event becomes readable only on
the journal it was decided on, so replay's acceptance is the guard of `Prepare`, `Observe`
and `Open` (`LedgerPrepares`, `LedgerObserves`, `LedgerKeeps`); a session that calls
`submit` holds a grant that was never sent (`DispatchOK`), of an attempt still prepared
(`OwnerOK`), with the breaker still closed for new risk (`BarOK`), which is the guard of
`Send`. All other steps change neither the ledger nor what was sent. The proof assumes
nothing: that a poisoned journal stops being readable is a stutter of the ledger.

**`PaperCommandConsumerProofs!HistoriesStayLegal`** and **`QueueImplementsLifecycle`** —
`Spec => []HistoriesLegal` and `Spec => ImplementsLifecycle`. A worker decides on a
history and creates the event later; the decision is still right if the create succeeds,
because then the history has not grown. `WorkerOK` says so: while the end of the history
is where the worker read it, its last state is what the worker saw; a worker past its
claim is the claimant; a worker about to evaluate has not evaluated. Every change of the
store is then one step `Grows(c, s, b)`, an allowed event appended to one history, and
`OthersKeepWorker` shows once what such a step leaves true of the other workers. The
refinement maps a growth to `Claim` or `Advance`, an evaluation to `Evaluate`, `Enqueue`
to itself, and everything else to a stutter. `ConsumerTypeCorrect` is the type invariant.

**`PaperCommandConsumerProofs!SubmissionsApproved`** — `Spec => SubmittedAsApproved`, for
every content of commands, runtimes, reports and proposals. `AdmissionFacts` reads off the
admission what it means that it finds nothing that halts; `GatesApprove` adds the
preflight, the scope check and the gate, and concludes `Approved`, which speaks of the
receipt and the release and not of findings. `Cleared` carries this from the verdict to
the create: a worker about to append `submitted` holds a command that was approved for
it, whatever else happened to the store in between.

**`StrategyRiskChainProofs`** — `ChainStaysReadable`, `RefusedIsNotStored` and
`StoreIsOneHistory` (`Spec => ImplementsHistory`). `StoreOK` says that every object
stands at its predecessor's place, and that sessions order the stored transitions the
way the places link them: between a stored transition and its successor there is no
other. `WalkOK` says that what a writer has read is the history up to where it stopped,
so what it decides at the end of its walk is right when the create succeeds. A create is
one step of the list and everything else a stutter. `ReceiptsStayTrue` (`Spec =>
[]ReceiptsTrue`) counts: the place of a transition is the number of stored ones up to
it, a create adds one that comes after all others, so places never change. `ChainCounted`
says that a walk's length is the place of its end, `ReceiptOK` that a receipt names such
a place, or a predecessor that another transition follows for good.

**`ExecutionMarkersProofs`** — `OneExecutionPerSignal`, `OneOwnerPerAccount`,
`AcknowledgedOutcomeStays`. `ClaimOK` follows the claim from its create to the order:
the object is there, one run holds it, and that run has not submitted before.
`PathsOK` separates claimers from older callers, which may overwrite the claim but never
remove it. `FenceOK` says whose fence the runs are past; a handover happens only while
nothing runs. `WritersOK` says that one run writes a file, which is why a failing
recorder removes only its own.

**`ReconciliationRecoveryProofs`** — `PlansAreWitnessed`, `FactsReconciledTwice`,
`ResumesOnlyAsConfirmed`. `CandidatesOK` and `ConfirmationsOK` carry the reconciled
receipt a candidate was built on into the set the operator had seen; `PlanOK` says that
the evidence of a plan is later than everything in that set, hence another receipt.
`FactsReconciledTwice` is about v2 plans; the other two theorems are about every plan.

**`ResearchPromotionProofs`** — `CallbacksRunOnce`, `PeopleSeeAllEvidence`,
`RoundsAreCounted`, `ConfirmedDeliveryIsHeld`, `DecisionsStay`. `TicketOK` describes a
ticket on disk alone: a stage is only there when every earlier one is completed and
good, so a resumption in the middle starts from evidence. `CountOK` says that a callback
was not called before its save, `HolderOK` that the holder stands where its ticket says;
a crash forgets the holder and keeps the rest, which is why it preserves the invariant.

**`NotificationIncidentProofs`** — `IncidentTypeCorrect`, `TransitionIsSentOnce`,
`IncidentIsAnnounced`, `DeliveredWasAcked`, `DeliveryIsFinal`. `ReadOK`: a worker that
can still write has read the present version of the marker, hence the marker itself, so
the compare-and-set makes its decision current. `CountOK`: transition numbers and
workers that may still reserve one are together no more than the observations made,
which bounds the numbers. `OwnerOK`: a worker in the transport was told to send its
transition, and the marker does not say delivered for it yet; only that worker writes
its receipt, once. A write whose answer is lost is the case that needs care: the worker
sends nothing, and the transition number is spent.

**`TagReservationsProofs`** — `TagsTypeCorrect`, `NoTagTwice`, `OneTagEach` and
`HandedStays`, the last three for intact operations, those that sort before the first
difference of every two texts that were mixed. `LockOK`: one process writes. `FileOK`
holds of the file and of what is synced: no tag twice, and what an intact operation was
handed is in it. `WriterOK` says what a writer holds at each step, and that at the
return what is synced is what it wrote. The new part is a mixture of two journals that
both hold what was handed (`MixtureKeeps`): a record in front of the first difference
has the same slot in both (`SlotsAgree`), and slots ascend with the keys
(`SlotsAscend`), so it lies in front of the cut in one text, behind it in the other, or
in the slot of the cut, which is then the same record. `MixedFile` concludes that a
mixture is again a good file, for the operations it did not endanger.

**Only model-checked.** The liveness properties (`LocksReleased` and the settling
of commands), which need `ENABLED`; the violations of 3.3, which TLC shows on
an instance; and `RiskNeverUndercounted` on an account that is bound while sessions
without a domain work on it, which no theorem covers and no run reaches. Every other
property of a passing run is stated by a theorem.

## 5. Not modelled

* *Identities.* Digests, signatures and content addresses are the values they are taken
  of; a task of the research cycle, an account or a release has no identity that a call
  could get wrong. A polled diagnosis that answers with another task id is therefore
  outside `ResearchPromotion`.
* *Several scopes and copies.* `ResearchPromotion` has one scope of one directory and no
  copy at `output_path`; the cycle that saves nothing keeps no state to model.
* *The end of a walk.* `append` of the risk state chain walks while others extend it, with
  no bound (`common/strategy_risk_state.py:375`). In an instance with finitely many
  transitions every walk ends, whatever the code does, so no property is stated.
* *Dates.* A session date does not advance in `PaperCommandConsumer`, and the clocks of
  `ReconciliationRecovery` agree.
* *Pure code.* Metrics, sizing, catalogs and parsing compute on one caller's data. They
  have no interleaving, and their floating-point arithmetic is out of TLC's reach.
* *Adapters.* Brokers, transports, object stores and the QRT console are external: what
  they may answer is a choice, and what is assumed of them is said in section 2.
* *Composition.* The modelled parts share no state (1.11): each is a specification of
  its own, and no run composes two of them.
