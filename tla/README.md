# Sika Rail in TLA+

Sika Rail is a national instant-payment switch: a Node.js modular monolith over one PostgreSQL
database. This directory models what in it decides about money, and what those decisions are taken from: payments and their
recovery, reversals and receipts, settlement positions and cycles, the end of the day, transfers abroad, every overlay that
pays, disputes and fast-track reversals, and the services around them (registers, keys, fees, routes, limits, watchlists,
fraud, hash chains, reconciliation). Every definition is translated from the code under `src/`; `PROJECT.json` names the lines.

## 1. The system

### How the code executes

- Each HTTP request runs its handler; background workers (`transaction-recovery/worker.js`, and
  those of cross-border, mandates, bulk, fraud) poll with timers. Several server processes may run on one database.
- `core/db.js` gives a handler either `withTransaction` (BEGIN … COMMIT, ROLLBACK on a throw) or
  `withClient` (one statement at a time). PostgreSQL runs its default READ COMMITTED: a SELECT sees what is
  committed when it starts, an UPDATE or an upsert waits for the row's lock and then works on the newest
  version. `SELECT … FOR UPDATE` is rare: cycles, operating days, recovery's selection and decision, quotes, and
  the pickers of the mandate, bulk and escrow workers. Everything else reads unlocked.
- A service called from inside a transaction often opens a connection of its own. What it reads is then
  committed data, not the caller's; what it writes commits whatever becomes of the caller.
- Calls to participants (credit leg, reversal, status, freeze) are HTTP with a deadline and may be made in the
  middle of a database transaction. A missed deadline says nothing of what the participant does.

These four facts are where the hard behaviour comes from, and the models keep them: a transaction
is cut into steps exactly where another one can come in between.

### Components

| Component (`src/modules/…`) | State it keeps | Operations | What must hold |
|---|---|---|---|
| transactions, credit-leg, transaction-receipts | one row per payment with a state of nine; journals; receipts | process, ingest, kill switch, rerun of the credit leg | the rail says CONFIRMED only of what the participant did; one payment per envelope; books and receipts follow the state; final states stay |
| transaction-recovery | attempts, next attempt, probe history | select due rows, probe, count, decide, give up | bounded attempts, no guess before exhaustion, every pending payment ends |
| reversals | a second transaction row, the link to it | initiate | one reversal per payment |
| ledger | accounts, journals, postings, a hash chain per date | post a journal, verify a day | balanced entries, one chain, positions follow |
| settlement | position per participant and currency | upsert by hook, reset by a cycle, rebuild | the view equals the ledger |
| settlement-cycle | cycles, movements, RTGS files | create, run, close | money leaves once, the file says what moved |
| liquidity | limits, top-ups | configure, top up, canDebit | nobody owes more than the ceiling |
| eod | operating days, signed statements | open a day, cut over | a closed day stays closed; statements rest on a settlement |
| crossborder-tx, -fx, -rails, -travel-rule | quotes, legs, foreign instructions | coordinate, recover, compensate | a quote is used once; both legs or neither; compensated xor confirmed |
| overlays-escrow | holds | hold, sign, release, refund, timed release | each hold is paid out once |
| overlays-mandates | mandates, debits | present, pause, revoke, tick | caps hold; one debit per period; revoked stays revoked |
| overlays-bulk | runs and lines | upload, process batches | each line is paid once and says what happened; a started run ends |
| overlays-r2p, -qr, -cashout, -refunds, -split | one small state machine each | pay, reject, expire, complete | rows tell payments; one-time codes and refunds keep their limits |
| disputes, fast-track-reversal | cases, evidence, decisions, reserve, freezes | file, decide, settle, kill, invoke, confirm | the reserve is held, then released once; states move along declared edges |
| fees | schedules | publish, calculate | the newest schedule charges; fees are as scheduled |
| audit, ledger, dispute evidence | hash-chained rows | record, verify | a chain that was not forked verifies |
| reconciliation | runs and breaks | run, resolve | a break is where the two sides differ |
| aliases | aliases, challenges, port requests | register, verify, port, revoke | an alias belongs to the account it was moved to last |
| participants, participant-onboarding, crypto-keys | status, documents, certificates, keys | review, certify, transition, rotate, revoke | who is active was examined; one active key per owner |
| directory, name-enquiry | accounts | register, freeze, close, confirm a payee | closed stays closed; names are compared fairly |
| routing | rules, a cache per process | add, remove, reload, look up | the cache is the table; the first rule found is the best |
| authorization, sanctions | volumes, watchlists, a cache of a minute | check, screen | checks know what was committed before them |
| fraud, network-graph | rules, edges, alerts | propose, approve, score, scan | a second user approves; verdicts grow with the evidence; scans find rings |
| fraud-flags, adapters-*, envelope, consoles, USSD, simulator | little or none | convert, show | not modelled (section 6) |

How they interact: adapters build an envelope and call the orchestrator, which calls authorization, fees, routing
and the credit leg, posts a journal, and issues receipts. Every journal calls the position hook. Cycles read positions
and post journals, and so move positions themselves. The cutover runs a cycle per currency. Recovery, reversals, disputes,
fast track and every overlay end in the orchestrator, in the reversal service or in the ledger.

`PROJECT.json` lists each component with its status, and the hazards at the lines where they bite.

## 2. Modules

| Module | Models | Run |
|---|---|---|
| `TxStates` | `transactions/states.js`: states, edges, final states | |
| `InstantPayment` | the promise of a payment: settle after execution, book once, unwind once | `recovery` |
| `PaymentPort` | what an overlay sees of the orchestrator: an answer per idempotency key, and a later verdict it is not told | `recovery` |
| `Payments` | orchestrator, kill switch, credit leg, recovery workers, reversals, the participant | `calls`, `recovery` |
| `Settlement` | ledger postings, positions, top-ups, cycles, the RTGS file, the rebuild | `settlement`, `ceiling`, `direction` |
| `OperatingDay` | Settlement with the clock, operating days, cutover and statements | `settlement` |
| `CrossBorder` | quotes, the cross-border branch of the orchestrator, recovery ticks, the foreign rail | `transfers`, `abroad` |
| `FxBooks` | the amounts of the same: quotation, conversion, slippage, legs and compensations | `services`, `halves` |
| `Mandates`, `Escrow` | the two overlays with a scheduler and with money in the rail's hands | `overlays` |
| `OverlayCalls` | how an overlay's handler reads a row, pays and writes, on top of `PaymentPort` | `overlays` |
| `RequestToPay`, `QrPayments`, `CashOut`, `Refunds` | overlays built on `OverlayCalls` | `overlays` |
| `SplitPayment` | several legs paid one after the other, on `PaymentPort` | `overlays` |
| `BulkRun` | a bulk file, its lines and the calls that pay them, on `PaymentPort` | `bulk` |
| `Disputes`, `FastTrack` | cases and fast-track reversals of one payment, one reading the other | `disputes` |
| `DisputePortal` | the customers' window and its limit | `services` |
| `Aliases`, `Directory`, `Names` | registers and the comparison of names | `services` |
| `CryptoKeys`, `Onboarding`, `Receipts` | keys, and the two that extend them: participants, receipts of payments | `services` |
| `Fees`, `Routing` | published tables and what they yield | `services` |
| `Authorization`, `Screening` | what is asked before a payment goes on | `services` |
| `FraudRules`, `MuleRings` | the fraud engine and its rules; rings in the network graph | `services` |
| `HashChain`, `Reconciliation` | chains of the ledger, the audit log and evidence; breaks | `services` |
| `PaymentsProofs`, `SettlementProofs`, `OverlaysProofs`, `BulkProofs`, `CrossBorderProofs`, `DisputesProofs`, `ServicesProofs`, `Sums` | theorems and the lemmas about sums (section 4) | |
| `MC…` | instances for TLC; `calls`, `recovery`, `bulk` and `disputes` run `Payments`, `BulkRun` and `Disputes` as they are | |

Operators named after a function of the code stand for that function. An operator whose comment begins
with "Slip" or "Mutant" is a plausible mistake in the operator after it; none is used by a specification, and
`PROJECT.json` says which property each one breaks.

Most modules share one pattern, because most of the code does. A handler is a record in `call` (or `worker`, `session`, `writer`): an action reads rows
without a lock and keeps the copy, another one writes by the row's key whatever the row has become, and anything happens in between. A history
variable (`overwritten`, `overtaken`, `overlapped`, `doubled`) holds the rows that were written over something their writer had not read. The variables guard nothing; a property
named "…Unless…" says that what it states holds for every row outside of them, so that the only way to break it is the overlap it names.

### Payments

`tx` is the table `transactions`, one potential row per API call (every call draws a fresh id); `probes`, `posted`, `feeLegs`
and `receipts` are what recovery history, ledger and receipts say of it. `call` and `worker` are the positions of the callers and of
the recovery workers in their handlers, and `participant` is the beneficiary's own record. The orchestrator's transaction around
the credit leg is two actions: `ProcessSendsCreditLeg`, which takes the envelope's unique key and puts the instruction on the wire,
and one ending per outcome (`ProcessConfirms`, `ProcessRejects`, `ProcessLeavesPending`, `ProcessFails`). In between, the participant may
execute, refuse, or do nothing; the deadline is the freedom to end with PENDING at any time. Recovery is `PickBatch` (a transaction
that ends before the work begins), `probeOnce` (HTTP, no transaction), `bumpAttempts` (a connection of its own, so that the count survives), and
`Decide…` (the row is locked and its state looked at again). `PassFails` is an exception or a crash of the process at any point.

`InstantPayment` says the same without calls, workers, probes or transactions, and `Payments` is checked to
implement it under the mapping `Promise` (state to phase, executed instructions, journals). It is also checked to implement
`PaymentPort` under the mapping `Port`, which is what the models of the overlays assume of a payment: so the two levels compose.

### Settlement

One currency. `pos` is what is committed and `live` the newest version of each row, which its lock holder has written; `Writable`
is the wait for a lock, `Commit` and `Rollback` are the end of a transaction. Payments and top-ups are a journal whose hook
upserts one row per posting, in any order. A cycle locks its own row (`BeginCycle`), reads all positions through another connection
(`ReadPositions`), posts one journal per participant (`Drain`), sets the rows it drained to zero (`ResetPositions`),
writes the file (`WriteRtgs`) and commits. `rtgs` is the file as the code writes it: `buildRtgsCsv` turns each movement into a line with an absolute amount and a direction, which
is the code's own label for the sign. The rebuild reads a sum and writes it in a later statement. `Fail` ends any
transaction at any step; it covers exceptions, lost connections and the victims of database deadlocks, which the model reaches as
states where sessions wait for each other's rows.

`raced` and `paid` are history: the rows that a cycle or a rebuild overwrote after somebody had changed them since they were read, and
what was paid. `late` in a session is the same for a transaction still open. They guard nothing.

### OperatingDay

Extends `Settlement` with a clock, `operating_days`, statements and one cutover per day. The cutover is
a transaction that creates and runs its cycle through other connections: `CreateEodCycle` and the cycle commit on their own,
and `FailCutover` undoes the rest. An operator may run or close that cycle in between. Payments keep the date they were
created on, so a late confirmation posts on a past date.

### CrossBorder

`quote` is the table `fx_quotes`; `holder` is the transfer whose open transaction has updated a quote, which makes other writers of the row wait and
other readers see the old state. `orch` is the orchestrator's branch of each transfer: it reads the quote without a lock (`ReadsQuote`), asks the market
maker, then consumes the quote by its key (`verifyAndConsume`) and commits both legs with the cross-border row (`coordinateOnClient`). Every refusal is caught by the orchestrator and
committed together with what was written before it: `QuoteSpoiled` leaves a quote EXPIRED or slipped, `TravelRuleRefuses` a consumed one. `lock()` and the sweep of past quotes run next to that.

`tick` holds the runs of the recovery worker. They come from POST /recovery/tick only (the poll loop `start` is never called), so that two may overlap. A tick picks due rows in
a transaction that ends at once and then works from copies: `Instruct` or `AskStatus`, then one action per answer. A timeout may meet any fate of the instruction. `Bump` commits before `SetPending`, as `bumpAttemptOnSeparateConnection`
does. `rail` is what the foreign rail has received and decided, one entry per call of instruct. `transactionsService.markCrossborderConfirmed` does not exist, so `Parent` is the fallback UPDATE with its
condition on the state. The operator's kill switch on a cross-border parent has the effect of `ProcessDeclined`.

`inconclusive` and `overwritten` are history: answers that decided nothing, and the rows that were written by somebody who had read another state (for quotes: consumed or locked, the two
writes that can give a quote to a second transfer). They guard nothing but the bound.

### FxBooks

Each call of `CrossBorder` as one step, with its amounts. `quote` holds what the maker answered and what `Receives` made of it (`convertMinor`, which rounds down over any two numbers of
digits); `verifyAndConsume` compares the maker's answer of now (`slippageBps`, scales aligned); `balance` is moved by `Legs` and `Compensation`. The legs carry the amounts of the envelope (`Sent`), which nothing in the code
compares with the quote's, so the two are independent here too. `verifyAndConsume` skips the maker's answer when it finds no maker; makers are only ever inserted and stay active, so the maker of a quote is always found. `LegThrows` is a leg that the ledger refuses, after the first one was posted. `market` is history.

### Mandates and Escrow

Mandates share no row, so one is modelled, from its creation on. `mandate` is its row, `debit` holds the presentations with the row of `mandate_debits` that each leaves, and `payment` is
the phase of each debit's payment as `InstantPayment` has it. `presentDebit` is three steps with anything in between: `PreCheckPasses` or `PreCheckFails` (state and caps on an unlocked row; its
two reads are one step), `Pays` (the orchestrator's answer), and `BookSuccess` or `BookFailure` (one transaction: the log, the total, the schedule, EXHAUSTED). A refusal is logged on a
connection of its own. `PickDue` is the scheduler's pick, whose transaction ends before the presentation. `PresentFails` is an exception or a crash between two steps.
Revoke, pause and resume are `TestPasses` and `Writes`, since they test an unlocked copy and write by the key. All caps are present (in the code the daily and the total cap may be null), and the monthly cap is left out: it is checked like the daily one.

`hold` is the table `escrow_holds`, `paid` counts the journals out of the escrow account by hold and receiver. Every handler is a read (`Reads`, with the tests on the copy) and a
write (`releaseInternal`, `refundInternal`, `sign`), because the row is read without a lock; everything from the write to the commit is one step, since the write locks the row. `sign` writes HELD and decides on the row that its UPDATE
returns, which contains the other party's signature. A tick picks its rows in a transaction that ends; a session is one of its rows. INITIATED lasts no longer than the creating
transaction, so CANCELLED is never written.

### The other overlays

`PaymentPort` answers CONFIRMED, REJECTED, PENDING_RECONCILIATION or an error, and lets recovery decide a pending payment later without telling anybody. On it, `OverlayCalls` has the life of a handler:
`Reads`, the payment, the write of its outcome, and `Dies` in between; `unheard` is the payments whose row was not told. Requests to pay, QR codes, cash-outs and refunds add their
states, tests and keys. A split pays its legs in one call, one after the other; in the code nothing stops it after a leg that failed. In a split and in a bulk run, one catch serves the payment and the
store of its result: `StoreThrows` is the store that fails, after which the leg or line is stored as an error's, whatever became of its payment (`unheard`, `unstored`). A bulk run is paid in batches by calls that nothing keeps apart:
`Picks` marks lines PROCESSING and commits, each line is paid and stored in a transaction of its own, and the counts are computed from the lines and stored at the end. `Crash` kills a call anywhere.

### Disputes

`Disputes` has `kase`, `evidence`, `decision` and `reserve` for the cases on one payment, with `FastTrack` as the second actor on the same payment (`EXTENDS`): the automatic rule for frauds reads whether funds were frozen.
A worker is a transaction that has read a case (`Starts`, with the tests of `StartsIn` on its copy), reads it again in `transition`, and writes with its commit. Users are told apart, because makers and checkers are. The reversal
of a fast track is one step that commits on its own inside the open transaction of the fast track, which may then fail.

### Services

`Aliases`: challenges in their order with attempts, port requests with their consent, a timer and the cooling time. A port request is three steps of a handler that locks nothing: the alias is read (`initiate`), the cooling
period is looked at (`lastCompletedRequest`), and after the target account was looked up and a password sent the request is inserted (`insertRequest`); anything may be completed in between. `CryptoKeys` is extended by `Onboarding` (documents, suites and the gates of each status; a step to certified adds the
first key; `reviewed` and `passed` are history: the participants whose documents were all approved at one time, and those whose suites all passed at one time) and by `Receipts` (two signatures of one key inside the transaction that confirms a payment, the key being looked up outside of it). `Directory` has accounts under a participant that may be suspended meanwhile.
`Routing` has a table and one cache per process, replaced inside a transaction that may roll back; `Fees` schedules that two publishers replace at once, and the calculator. `Authorization` has the context that is read before the payment's
row is committed, in three reads with anything in between: duplicates, the volume of a day, the volume of thirty days; account status; and reversals, whose rows are inserted CONFIRMED for the party that pays back, are asked of nobody and count in its volumes; `Screening` the watchlists with their cache of a minute and the rows a screening leaves. `FraudRules` is the fifteen rules over a record of what they look at, the composite score, and
the change of a rule by two users; `MuleRings` the graph and a scan of it query by query. `HashChain` is three chains with one pattern: read the last row, link, insert. `Reconciliation` reads the rail and then the
participant, and stores where they differ. `Names` is Jaro-Winkler over words as sequences, with fractions for doubles.

## 3. Runs

| Run | Instance | Distinct states | Shows |
|---|---|---|---|
| `calls` | 3 calls, 2 envelopes, 1 worker, 1 rerun | 531 379 | phantom confirmations, wrong books or receipts, unsound declines, duplicates, double reversals, lost fees outside recovery and changes of final states do not happen |
| `recovery` | 2 calls, 1 envelope, 2 workers, 2 attempts, 1 fault | 445 877 | attempts stay within the policy but for races and failed passes, giving up takes the whole schedule, Payments implements InstantPayment and PaymentPort, and every pending payment ends |
| `settlement` | 3 sessions, 2 participants, 2 cycles, 2 journals, 1 rebuild; or 2 sessions at a time, 2 days, 2 cycles, 1 journal | 816 897 | money leaves once, files have the lines and amounts that moved, the view is exact but for raced rows, cycles are final; statements rest on a settlement, closed days stay closed, a repeated cutover pays nobody twice |
| `transfers` | 1 transfer with 2 ticks, 2 attempts, 2 instructions, 3 inconclusive answers; or 2 transfers for 1 quote with 1 tick; 1 fault | 1 010 030 | what is recorded at home was decided abroad, once; a quote pays for one transfer; a parent's final state stays |
| `overlays` | one of seven overlays: 3 debits, caps 2, 2 and 3, 2 days; 1 hold, 3 handlers; 3 calls or 2 payers on one request, code or cash-out; 3 refunds of 1 or 2 out of 3; 3 legs | 884 944 | totals are what was paid, caps and limits hold for calls that do not overlap, a hold is paid once, rows tell payments |
| `disputes` | 1 payment, 1 case, 1 fast track, 2 workers, 2 users, 2 reasons | 1 665 033 | the reserve is held before it is released, once, and not confirmed by the user who decided; a fraud is upheld where funds were frozen; states move along the edges |
| `services` | one of fifteen services, two overlapping callers each | 1 053 226 | registers, tables, caches, checks, chains, receipts and books, as in the list below |
| `bulk` | 2 lines, 2 calls, batches of 1, 1 crash | 148 774 | lines tell the payments but for those answered late or not stored, an ended run counts them, and a started run ends |
| `ceiling`, `direction`, `abroad`, `halves` | 1 session; 1 session and 1 cycle; 1 transfer; 2 transfers | violated | what a comment says and the code does not do (section 5) |

What `services` asks, property by property:

- `RegistersFollowTheirHistory`: 1 value of 2 types, 2 port requests, 1 attempt; 2 accounts. An alias belongs to the account of the last completed request; only a request that had been tested before a move, inserted by then or later, moves an alias within its cooling time. A closed account stays closed unless a freeze or an unfreeze had read it before.
- `OnlyExaminedTakePart`: 1 participant, 1 document, 1 suite, 3 keys. Certified has a key; a participant is in certification or beyond only if all of its documents were approved at one time, and active or suspended only if all of its suites passed at one time; one active key per owner, but for the overlaps.
- `TablesInUseAreThePublished`: 3 schedules of one pair over 3 instants, 2 rules in the caches of 2 processes. Besides, fees of 123 schedules and 13 amounts against what the schedule says; the first rule found in all tables of 4 rules against all that fit.
- `ChecksKnowWhatWasCommitted`: 2 payments of 1 or 2 under caps of 2 a day and 3 a month, or reversals beside them; a watchlist entry that comes and goes within 3 instants of a cache that lives for 1; 4 requests under a limit of 2.
- `FraudIsJudgedByTheRules`: 2 users, 2 weights; 192 contexts and 4 pairs of thresholds, where more evidence may not give a milder verdict; rings among 3 accounts, of which a scan has found, at each of its steps and unless a payment changed the graph since it began,
  all that go through an account it is done with.
- `TrailsAreTrue`: 4 rows in 4 chains by 2 writers; 1 run over 2 payments with 4 kinds of deviation; 2 payments confirmed by 2 transactions while keys rotate;
  the books of 2 transfers abroad, with legs that the ledger refuses and compensations.
- `PricesAndNamesAreFair`: 2 quotes, 3 answers of the maker that are 51 basis points apart (the cap is 50), amounts that end in a fee and in nothing; conversions between currencies of 0, 2 and 3 digits;
  names of one and two words out of 6, and of three, compared in both directions and in every order.

Why the bounds are enough. The hazards of Payments are between two parties over one row: two calls on one
envelope, a call and a worker, two workers, a worker and a reversal. Three calls give one payment, its
resubmission and its reversal, or two reversals of one payment; a third worker only repeats what the second does, except in the bound on attempts,
which is stated for any number of them. In Settlement, a stale read needs one reader and one
writer, a lost lock two writers, and a double drain two cycles; three sessions hold a cycle, another cycle or
the rebuild, and a payment at once. Two participants are the least that a payment has, and give the two lock orders that deadlock.
Amounts of 1 suffice, since the properties are about sums that must agree. Days: a cutover opens the next
day, so two show a day that is open already, closed already, and posted to late. The initial state of `settlement` chooses one of the
two instances: sessions that race on one day, or days that end, with two sessions at a time, one journal and no rebuild (`Few`). In CrossBorder, transfers share nothing but quotes, so one instance
has two of them and one quote, with a rail that is called once; and what two ticks do to each other happens on one row, so the other has one transfer, two attempts, and answers enough
for a tick to exhaust the schedule behind the other's back. `MaxAttempts` is 5 in the code; 2 is the least that has both a retry and an exhaustion.
Holds share nothing either, and what three handlers do to one hold contains a signature, the other signature and a refund. `MaxPayouts` cuts off only what comes after a hold
has been paid three times. Three debits under caps that admit one or two of them are a check, an overtaking booking and a refusal; two days give a midnight between a check and its booking;
two changes are a revocation and the pause or resume that races it. `MaxDay`, `MaxChanges`, `MaxFaults` and `MaxCrashes` bound only that. A row of the other overlays, of a register or of a chain is spoiled by two handlers that
overlap; a third one matters where a limit counts (attempts, refunds, hits, volumes), and there the instance has one more than the limit. Cases and fast tracks share a payment; a case needs two
workers to be written twice, and two users to be decided by one and checked by another.

Instances that share no row are put into one MC module whose initial state chooses one (`MCOverlays`, `MCServices`, `MCCrossBorder`): a behaviour is one of one component, so nothing is lost, and a property names the component it is about.
In `MCServices`, `service` is what `UInit` chose, `Steps` the step of the service that runs, and `OthersRest` says that the variables of the others keep their values. A variable or a constant that two services have is renamed for one of them.

Symmetry is used over calls, envelopes and workers, over sessions and cycles, over transfers, ticks, debits, handlers, users and values, in runs without liveness: the
specifications never compare them. Participants are ordered by code and are not permuted; lines of a bulk run are paid in order.

`CHECK_DEADLOCK FALSE` stands in every cfg because the instances are bounded: when all calls are used up, or all journals begun,
the system has nothing left to do.

Fairness. In `recovery`, `WF(PickBatch)` and `WF(runOnceForId)` for every worker: `worker.js` polls in a loop for as long as the process runs,
and each probe ends with its HTTP deadline. `WF(BackoffElapses)`: clocks advance. Nothing is assumed of callers, operators or
the participant, who may never answer. Failed passes are bounded by `MaxFaults`, which is an assumption: a
transaction whose decision fails every time is never decided, and the code has no limit for that. In `bulk`, `WF(RunnerStep)` for every call: a call that is not dead goes on, since each of its payments ends with a deadline. That a call begins
is not assumed, nor that a second one follows a crash; `StartedRunEnds` is about runs that no crash has disturbed.

## 4. Proofs

All theorems hold for any constants that satisfy the named assumptions: a `None` that is no member of the sets it is compared with, bounds that are naturals, amounts that
are positive, participants that are naturals, a finite set of workers (`WorkersAssumption`, since a bound on attempts counts them), and days that follow each other from 1
(`DaysFollowEachOther`, as `businessDate` adds one day). Where a sum is taken over cycles or debits, that the set of those that count is finite is part of the invariant, not an assumption.

**Payments** (`PaymentsProofs`). `IInv` is `TypeOK /\ LockInv /\ TruthInv`. `LockInv` says who owns what: a call in the middle of a credit leg has a row that no
other open call has, a row is named by a call that has begun, and a worker past its probe works on a payment row.
`TruthInv` has two parts that need each other. `RowTruth(t)`: what the row of `t` says (state, reason, journal, receipts) agrees with what the participant
did. `ProbeTruth(w)`: the answer a worker carries, read earlier and outside any transaction, is still true, because executing and refusing are final. Neither the
safety properties nor `RowTruth` alone are inductive: a deciding step copies a probe's answer into the row. The proof has a lemma per action and per conjunct, and gives

- `TypeCorrect`, `PhantomFree`, `BookedOnce`, `DeclineIsSound`, `OnePerEnvelope`, `BookingsFollow`, and the action property `FinalStays`: all that the run `calls` checks.
- `RetriesOnSchedule`, from a second invariant, `RetryInv`, on top of the first. The bound on attempts is not inductive as a property: `Tally` adds to what a row has counted the workers that have probed
  it and not counted yet, and to what a pending row may have counted the workers that are late. `Counted` says that what a worker has counted is not more than the row's count.
- `KeepsThePromise` and `ServesThePort`: `Payments` implements `InstantPayment` under `Promise` and `PaymentPort` under `Port`. Initial states map to initial states, and there is a lemma for each action of the
  orchestrator, of recovery and of the participant that names the abstract step or the stutter it is. `IInv` is needed to know that a decision maps to a decision which the abstract payment allows.

`BookedOnce` includes that the exhaustion branch which confirms without a journal is never taken: exhaustion is reached with inconclusive probes only.

**Settlement and OperatingDay** (`SettlementProofs`). `IInv` is `TypeOK`, `Stages` (what the phase of a transaction says of its fields), `RowOf` (for each session and row: who holds
the lock, what has been posted, and what the newest version of the row will agree with once it commits) and the property itself. The point of `RowOf` is
`late`: for a cycle or a rebuild, a row that is not late still has the value that was read, so the zero or the sum that overwrites it is right.

- `TypesAndLocks`: types, and a locked row belongs to an open transaction while an unlocked one shows what was committed.
- `ViewIsExactUnlessRaced`: the position equals the sum of the postings on every row that was not raced. The restriction is needed: the
  unrestricted claim, `ViewNeverLags`, does not hold (section 5).
- `RtgsIsWhatMoved` (lines and amounts of the file, and that payers and paid are kept apart; which of them is called the payer is the run `direction`) and `CyclesAreFinal` use a second invariant, `CycInv`: a cycle in the hands of a transaction is pending and in nobody else's hands, and a transaction
  that is about to commit it has written its file with what it read. They hold for any number of failed attempts.
- `LedgerIsExplained` uses a third, `BookInv`: an open cycle has posted the negation of what it read for exactly the rows it has drained, so that its commit adds to the ledger what it adds to `Moved`.
  `NobodyIsPaidTwice` follows from this and from the exact view.
- `DayRunsSettlement`: `DaySpec => Spec`. Every step of the operating day is a step of `Settlement` or leaves its variables alone, so the theorems above hold around cutovers.
- `StatementsAreSettled` and `ClosedDaysStay`, from `CutInv`: a cutover knows only cycles of its own day, and has issued statements, or left some behind, only when one of these has completed.

**Sums** (`Sums`). What `SumFunctionOnSet` of the community modules computes on a finite set, whichever element its fold picks first: it unfolds at any element, agrees on functions that agree, and
stays in `Nat` or `Int`. The induction is done without an induction theorem: a set of counterexamples, if there is one, has a smallest member, because strict subsets of a finite set are well-founded.

**Mandates** (`OverlaysProofs`). `MandateInv` is `TypeOK`, `ExhaustedWhenSpent`, `RevokedInv` (a revocation that nobody wrote over is still in the row) and `DebitInv` (a debit is logged only when it is done, and the answer CONFIRMED stays
true of its payment). The point is `WritesIInv`: no operation tests for a terminal state, so one that lands on such a state is an overwrite.

- `ExhaustedWithTheCap`, `RevokedIsSilent`: the properties of the same names in the run `overlays`, for any debits, caps and days. `OnlyResume` states `OnlyResumeActivates`, which no run checks because the theorem says all of it.
- `TotalIsTheLog`, from `SumInv`: the total is the sum of the SUCCESS rows, and none of them is of a day to come.
- `CapsHold`, from `CapInv`: a debit that has passed the check and was not overtaken still fits under both caps on the day it will be booked. Midnight only makes the sum of the day smaller.

**Escrow** (`OverlaysProofs`). `EscrowInv` adds to the properties what a handler may still rely on when it writes (`SessionInv`: its copy was HELD, and a condition does not change) and that a hold which does not exist has no history.

- `PaidOnce` and `TwoSignaturesRelease`, for any number of holds and handlers.

**CrossBorder** (`CrossBorderProofs`). The properties are about rows, and the ticks that write them work from copies. `TicksInv` says what a copy still means (it was taken in flight, and its counters are not ahead), `FreshInv` that nothing is recorded of a
transfer before its first commit, `HoldsInv` that the lock on a quote is the open transaction that consumes it, and `BackedInv` that a quote which nobody wrote over is consumed when it backs a transfer, and backs one.

- `AnswersAreTrue`, `DecidesOnce`, `QuoteBacksOne`, `ParentStays`: all properties of the run `transfers`, for any number of transfers, quotes, ticks and attempts.

**Disputes** (`DisputesProofs`). `IInv` relates the tables of a case (`RowOK`, `CheckedOK`, `FraudOK`, `PaidOK`), says what a worker may still rely on of what it has read (`WorkerOK`: when it settles, the case is as it was read, or has been settled
or denied since), and what a fast-track reversal says of the freeze (`FreezeOK`). A write is proved once for the worker that does it and its case (`Written`), and what it leaves to the other workers is one fact about all writes (`Wrote`, `OthersStay`).

- `HeldOnce`, `FraudWasFrozen`, and the action property `CasesMoveLegally`: all of the run `disputes`.

**The overlays on `PaymentPort`** (`OverlaysProofs`, which extends `MCOverlays` and so states the properties of the run itself; the cfg's numbers are constants there). Each has an invariant that joins three things: what the port has
of the payment, what the row says, and what a handler has been answered and not yet written. What a row may say wrongly is in `unheard` or overtaken, and nothing else is. Assumed are a finite set of calls (`CallsAreFinite`), since the overshoot of a limit
counts them, and limits that are naturals (`LimitsAssumption`).

- `RowsTell`: for requests to pay, QR codes, cash-outs, refunds and splits.
- `LimitsHold`: attempts of one-time passwords by counting the calls in flight; refunds by a sum over those that are `Live`, `Lost` or paid, which is what `AmountsOf` must stay under.

**BulkRun** (`BulkProofs`). `BulkInv` says that a line is in one pair of hands and unpaid before its turn (`BatchInv`), that an answer waits with the payment it speaks of, unless the line is in `unstored` (`AnswerInv`), and that an old count is a lower bound
(`CountsInv`), because nothing takes an ended line back. A state that ends the run needs counts which add up to all lines, and lower bounds that add up to all lines are exact: so a call that stores an old count cannot end a run wrongly.

- `BulkIsTrue`: the invariant of the run `bulk`, storing that fails included. `EndedLinesStay`: an ended line is never written again.

**Services** (`ServicesProofs`, which extends `MCServices`: its theorems are about the specification that the run `services` checks, for any participants, payments, callers, keys, rows, rules and runs). Assumed, by service, are names
that differ, bounds that are naturals, amounts that are positive, finite sets where something is counted or summed (callers of a challenge, payments, requests of the portal, accounts of the graph, rules, which a table holds and a query sorts), and the four kinds of
deviation there are. `ServicesInv` has a part per service; a step of one service leaves the parts of the others alone (`OthersRest`).

- `KeyInv`: the property of the keys, types, and that a handler acts for an owner. The case to prove is the new key: it is alone when what its handler saw active is all that was.
- `JoiningInv`: what each status of a participant deserves, and what a handler between its test and its write may rely on: a key is never taken back, nor that the documents were approved or the suites passed once (`Grows`), while documents, results and status may be. Whoever passes the tests now is in `reviewed` or `passed` (`Remembered`).
- `ReceiptsInv`: both signatures of an open confirmation are of the key that was looked up, and keys keep their owners, rotated or revoked.
- `AliasInv`: what a handler acts on exists, attempts stay within the limit for as many callers as are in flight, and the port completed last is still what the alias says unless an older reading overtook it. A request in the hands of a handler that has looked at the cooling period is in `early` if its alias was ported since.
- `DirectoryInv`: what a handler has read allows what it will write.
- `RoutesInv`: of a handler that was alone since it read (`AloneIsRight`), what it loaded and what it will leave in the cache is the table.
- `FeesInv`: schedules are numbered as they come, an active one has no end, and a publisher of a pair without overlap sees exactly the schedules that are active (`SeesTheActive`), so that it leaves one.
- `LimitsInv`: what a session knows (`SessionKnows`): unless another payment was committed since it read, the volumes in its context are not less than those of now, so that its own amount still fits when it is stored. Each of the three reads adds its own part of this, and a reversal counts as another payment. Volumes are sums (`Sums`).
- `WatchInv`: an answer, in a cache or in the hands of a screening, is that of the lists for every entry that has not changed within the life of the cache, unless the query that made it was late.
- `PortalInv`: of the requests in the window, those served are no more than the cap, because a request is served only while all that are recorded, itself among them, are no more.
- `FraudInv`: an approval on its way has tested the proposal of another user.
- `GraphInv`: a scan that no payment disturbed has read rows that are the graph's. What it has seen is closed under recent edges (`Followed`) up to its stack, so that an account with an empty stack has all its paths among the rows read, and the search in these
  rows finds the rings that it finds in the graph. The lemmas say that a path of the search is a path of recent edges, and the other way round. The property speaks of every step of a scan and not of its end only, because what has been found so far is what a step can keep.
- `ChainsInv`: the chain that each transaction sees (its own rows and the committed ones) verifies, the numbers it holds are free, and what it has read as the last row is still last unless the chain was written meanwhile.
- `ReconInv`: what a run has read of its two sides agrees but for what moved in between and what the participant's file feigns; it has one break per payment, so its counts are the sizes of the sets they speak of.
- `FxInv`: the four balances are the sums of what the transfers that stand have promised, a half-posted one with its first leg.

All but one of the invariants of the run follow: `OnlyExamined`, `RegistersFollow`, `TablesInUse`, `ChecksKnow`, `FraudIsJudged`, `TrailsTrue`. What they say of pure functions is proved for all inputs first:

- `FirstIsBestInGeneral`: for every finite table and every number, the first rule found fits, and is the best of those that fit. The order of a sort that ties leave open is one that exists (a finite set with an order has a sequence that respects it).
- `FeesAsScheduledInGeneral`: minimum, maximum, the growth of percentages and the coverage of tiers, for every valid schedule and every amount.
- `VerdictsInGeneral`: more evidence or another pack gives no milder verdict, for every context and every pair of thresholds; each of the rules is shown to be monotone, then the composite and the comparison with the strictest of the thresholds.

What the proofs changed in the models. Two operators, `BreakOf` in `Reconciliation` and `FinalState` in `BulkRun`, were CASE expressions with guards that overlap, which TLC takes in order and which mean any of the arms in TLA+; the code takes them in order, as
the IF expressions do now. `Routing` sorted with an operator that decided ties; the ORDER BY of the code does not (`Sorted` is now any order by priority and length). `Fees!Adjoining` let a tier end before it begins, and then an amount belongs to none. `MuleRings` stated its
property at the end of a scan only. Sums are `SumFunctionOnSet`, about which `Sums` has its lemmas.

Model-checked only:

- out of the prover's reach: `RecoveryTerminates` and `StartedRunEnds`, which are liveness under fairness;
- `PricesAndNamesAreFair`: the conversions and the slippage of `FxBooks` are about powers of ten, of which the solver knows nothing and whose laws would need an induction over exponents, and the comparison of `Names` is a fold over
  the letters of one name, of which each step depends on the pairs made before: an induction over data. Both are checked over bounded inputs. That a consumed quote was near the market is the same arithmetic again.

## 5. Where the code and its words differ

Four are runs that TLC finds violated; `PROJECT.json` quotes the line.

- `ceiling`: the liquidity check adds a debit to a position that debits make smaller.
- `direction`: the file that instructs the RTGS calls a participant whom the rail owes the payer (`rtgs-output.js:21`), where the cycle posts the movement as `cycle-runner.js:103-105` says, out of the rail's nostro.
  A test (`settlement-cycle/tests/cycle.test.js:247`) expects the label as it is, so one of the two conventions is misnamed; books and file disagree in every line.
- `abroad`: a transfer that is PENDING_FOREIGN after a timeout has no foreign id, is instructed again, and may be paid twice.
- `halves`: a coordination that fails is said to roll back, and the orchestrator catches the failure and commits what it had done: a refused
  transfer can keep a consumed quote, a reserved position and a leg.

The following claims are definitions of their modules too, each with the comment that quotes the line it comes from. The model violates
them, and the passing properties hold with the exception that the definition shows to be necessary. A reader who wants the trace states the name
as an invariant of the module's instance in its MC module (`DueOnceDebitedOnce` says something of instances where only the scheduler presents).

| definition | module | what is claimed | what happens |
|---|---|---|---|
| `ViewNeverLags` | Settlement | the position never lags the ledger (`positions/positions-service.js:5-8`) | a payment committed between a cycle's read and its reset is in the ledger and no longer in the view |
| `DueOnceDebitedOnce` | Mandates | a due mandate is picked by one worker (`overlays-mandates/model.js:81-82`) | the lock of the pick ends before the mandate is presented, so two workers debit it for one period |
| `BailsOnFirstFailure` | SplitPayment | the split stops at its first failure (`overlays-split/service.js:114-122`) | the loop notes the failure and goes on to the next leg |
| `DynamicPaidOnce` | QrPayments | a dynamic code is for one payment | two callers read it as unused and both pay |
| `EveryScreeningIsRecorded` | Screening | each screening leaves a row (`authorization/checks/sanctions.js:11-12`) | one that is answered from the cache leaves none |
| `IdenticalCaseIsRefused` | Disputes | a duplicate of an open case is refused | the validation looks at the newest filing only, and that is the case itself |
| `DeniedCanBeConfirmed` | Disputes | the reserve of a denied case goes back through its confirmation | a case that an operator killed has no decision to confirm |
| `CompletedWasReversed` | FastTrack | a completed request has its reversal | the request is completed whatever the reversal answers |
| `TerminatedIsFinal` | Onboarding | TERMINATED has no successor (`participant-onboarding/service.js:9-20`) | a step tested before the termination (an upload that moves to kyb) is written after it |
| `OneScheduleIsActive` | Fees | one schedule is active (`fees/service.js:9-12`) | two publications each expire the schedules that were committed, and none sees the other |
| `MirrorHasNoBreaks` | Reconciliation | the mirror feed agrees with the books (`feed-client.js:1-4`) | a payment that changes between the reading of the two sides is a break |
| `ClosedDaysVerify` | HashChain | the chain of a day verifies (`ledger/service.js:143-145`) | two journals read the same head and both name it as their predecessor |
| `ProposerDoesNotApprove` | FraudRules | the approver is not the proposer (`rules-service.js:138-144`) | a second proposal replaces the first between the reading and the writing of an approval |

`OnlyResumeActivates` of `Mandates` is the opposite case, a claim that is proved.

Seen while reading, most of it visible in a model and none of it the subject of a run:

- Payments: an error after the credit leg left rolls back envelope and transaction, the only record of an instruction that the participant carries out, where
  `transactions/orchestrator.js:233` speaks of rolling the whole flow back (`ProcessFails`); the catch-all writes REJECTED in the transaction that its rethrow rolls back
  (`transactions/orchestrator.js:379`); FAILED is meant for the reversal service to unwind (`transaction-recovery/service.js:152`), which takes CONFIRMED payments only;
  a payment confirmed by recovery loses the fee leg that its stamped fee announces (`transaction-recovery/service.js:267`), and leaves no edge in the network graph; two recovery
  workers take the same due row, since SKIP LOCKED protects the selecting transaction only (`transaction-recovery/model.js:16`).
- Settlement: a statement's closing position is the literal 0 (`eod/cutover.js:105`), which its credits and debits need not give, since
  positions and postings are separated by different dates.
- Abroad: a transfer that is given up keeps its legs, and its parent stays in CREDIT_LEG_PENDING; the parent can be rejected by a resubmission or the kill switch without
  its legs being given back; PENDING answers are never exhausted (`crossborder-tx/recovery-worker.js:152`); a parent confirmed by the recovery worker's fallback
  (`crossborder-tx/recovery-worker.js:122-138`: `markCrossborderConfirmed` does not exist) gets no receipts, although
  `transaction-receipts/service.js:46-52` says that there is no CONFIRMED transaction without; the amounts of the envelope are not compared with
  the quote; `money.js:118` says half-down and floors; the slippage is floored before it is compared, so a drift of up to one basis point above the cap passes.
- Overlays: a debit whose payment is confirmed by recovery is never counted in the totals of its mandate (`overlays-mandates/service.js:142`); a pause or resume
  that has been tested before a revocation is written after it and brings the mandate back; a signature that was read before a refund makes the hold HELD again, and it can be paid out a second time
  (`overlays-escrow/service.js:148`); a bulk line and a split leg of a CONFIRMED payment are FAILED for good when storing the result throws, since the catch that follows writes ORCH_ERROR over it
  (`overlays-bulk/service.js:276`, `overlays-split/service.js:168`): `LineTellsPayment` and `SplitTellsPayments` name these rows.
- Checks: a watchlist answer that should ask for a review (`sanctions.js:6-8`) never reaches the fraud context, and two of the rules have no input that
  makes them fire; the volume of the limits adds all currencies, a retry of a PENDING payment counts itself, and reversals take up volume of the party that pays back without being authorized (`reversals/service.js:125`); the routing cache keeps a rule
  whose insertion was rolled back.
- Fraud: `scanner.js` compares the amounts of a ring with its first one only, where it speaks of amounts within 5 % of each other; its totals are of all time and all currencies; a
  scan inserts again the alerts of the scan before; nothing starts the scanner's worker, and nothing calls `expireRolloff` of the flags.
- Registers: a revoked alias can still be verified, a HANDLE never can; two ports of one alias can be open within the cooling period, one of them inserted in it, since nothing is locked between the look at the cooling period and the insert (`portability-service.js:83`, `:121`); a write of EXPIRED is rolled back
  with the refusal that follows it; the comments of the reconciliation and the states its rail view reads disagree; `runner-worker.js:15` does not await its promise.

## 6. What is not modelled

- Foreign rails registry, their simulator and their clients: HTTP to other systems. What they answer is the environment of `CrossBorder`.
- The envelope (parsing and validation of one request), message adapters (formats only), the participant simulator (a test double; a participant is
  the environment of `Payments`), consoles, USSD, authentication, the web front ends and the scripts.
- Of the fraud engine: the flags, the model stub and the baselines. Their scores enter `FraudRules` as one of its inputs.
- Of the directory: the look-up and the masking of names. Their comparison is in `Names`, without the ties of floating point at the thresholds.
- Of the QR payments: the EMVCo codec. Of the disputes: the documents. Of the keys: the key material. Of the statements: signatures.
- Inactive ledger accounts, which make a posting fail at any of its places: `ProcessFails` and the failing deciding pass stand for it in `Payments`.
- Several currencies in `Payments` and `Settlement`: positions, cycles and journals of different currencies share no row. The nostro account and
  transfers inside one participant are left out of `Settlement`, as they move no position.
- The caps of the scanner: 5 rings and 200 edges a scan (`scanner.js:32`, `:80`), 200 edges a query (`edges-model.js:58`). The graphs of the instance stay below them, and `QuietScanFindsTheRings` is claimed of such graphs only.
- A COMMIT whose acknowledgment is lost: a transaction is committed or rolled back for its caller too.
- The size of the connection pool.

In `Payments`, authorization, fees and routing are one choice between refusing and going on, because a payment's safety may not
depend on them; each has a module of its own. Components without a module are in `PROJECT.json` with the reason.

## 7. Plan

What is left, in this order.

1. A pool module: sessions that need a second connection, for the deadlock at the pool's limit.
2. Inactive ledger accounts, as an input of `Payments` and `Settlement`.
