----------------------------- MODULE CrossBorder -----------------------------
(***************************************************************************)
(* Cross-border transfers: modules/crossborder-tx, the quotes of           *)
(* modules/crossborder-fx that they consume, and their branch of           *)
(* transactions/orchestrator.js.                                           *)
(*                                                                         *)
(* The orchestrator reads a quote without a lock, asks a market maker for  *)
(* today's rate, consumes the quote and commits both ledger legs with a    *)
(* FOREIGN_INSTRUCTING row.  Ticks of the recovery worker, each started by *)
(* POST /recovery/tick and nothing keeping two apart, then instruct the    *)
(* foreign rail, and confirm the transfer, compensate it, retry or give    *)
(* up.  A tick works from copies of the rows it has picked, and its writes *)
(* do not look at the state that they replace.                             *)
(*                                                                         *)
(* Steps are database transactions, or the parts between two of them that  *)
(* others can interleave with (READ COMMITTED).                            *)
(***************************************************************************)
EXTENDS Integers, Sequences, FiniteSets, FiniteSetsExt, TxStates

CONSTANTS Transfers,        \* XB_CRDT_TRF envelopes, each with its transaction
          Quotes,           \* rows of fx_quotes
          Ticks,            \* runs of the recovery worker that may overlap
          None,
          MaxAttempts,      \* RECOVERY_MAX_ATTEMPTS
          \* Bounds of the instance:
          MaxInstructions,  \* calls of the rail's instruct, in all
          MaxInconclusive,  \* timeouts and PENDING answers, in all
          MaxFaults         \* rolled back flows and lost ticks

ASSUME NoneAssumption == None \notin Transfers \cup Quotes
ASSUME KindsAssumption == Transfers \cap Quotes = {}
ASSUME BoundsAssumption ==
  /\ MaxAttempts \in Nat \ {0}
  /\ MaxInstructions \in Nat
  /\ MaxInconclusive \in Nat
  /\ MaxFaults \in Nat

VARIABLES
  tx,            \* state of the parent transaction
  quote,         \* committed row of each quote
  holder,        \* transfer whose open transaction has updated the quote
  orch,          \* the orchestrator transaction of each transfer
  lockRead,      \* quotes that a call of lock() has read as OPEN
  sweep,         \* quotes that a running expirePastDue has selected
  xb,            \* row of crossborder_transactions
  rail,          \* instructions the foreign rail has, with their fates
  tick,          \* recovery ticks
  inconclusive,  \* history: timeouts and PENDING answers
  overwritten,   \* history: rows decided, consumed or locked by one that had
                 \* read another state than the one it replaced
  faults

vars == <<tx, quote, holder, orch, lockRead, sweep, xb, rail, tick, inconclusive, overwritten, faults>>
quoting == <<quote, holder, orch, lockRead, sweep>>
foreign == <<xb, rail, tick, inconclusive>>

QUOTE_STATES == {"OPEN", "LOCKED", "CONSUMED", "EXPIRED", "REJECTED_SLIPPAGE"}

\* Mutant: a consumed quote is taken for a locked one.
UsableTwice == {"OPEN", "LOCKED", "CONSUMED"}

Usable == {"OPEN", "LOCKED"}

Quote == [state : QUOTE_STATES, by : Transfers \cup {None}, past : BOOLEAN]

InFlight == {"FOREIGN_INSTRUCTING", "PENDING_FOREIGN"}

XbRow == [quote         : Quotes \cup {None},
          state         : InFlight \cup {"ABSENT", "CONFIRMED", "REJECTED", "FAILED"},
          foreignTx     : Nat,      \* position in rail[t]; 0 is NULL
          attempts      : Nat,
          due           : BOOLEAN,
          compensations : Nat]

NoRow == [quote |-> None, state |-> "ABSENT", foreignTx |-> 0,
          attempts |-> 0, due |-> TRUE, compensations |-> 0]

Fates == {"OPEN", "ACCEPTED", "REJECTED"}

Orch == [pc : {"new", "read", "consumed", "done"}, on : Quotes \cup {None}, seen : Quote]

\* A tick: rows holds the copies that are left, on the row being handled,
\* about the instruction asked for, learned the foreign_tx_id to be stored.
TickWith(picked) == [pc      : {"idle", "asked", "bumped"},
                     rows    : [picked -> XbRow],
                     on      : Transfers \cup {None},
                     about   : Nat,
                     learned : Nat]

AreTicks(f) ==
  /\ f = [k \in Ticks |-> f[k]]
  /\ \A k \in Ticks : \E picked \in SUBSET Transfers : f[k] \in TickWith(picked)

Unread == [state |-> "OPEN", by |-> None, past |-> FALSE]
Resting(rows) == [pc |-> "idle", rows |-> rows, on |-> None, about |-> 0, learned |-> 0]

Without(rows, t) == [u \in DOMAIN rows \ {t} |-> rows[u]]

Init ==
  /\ tx = [t \in Transfers |-> "ABSENT"]
  /\ quote = [q \in Quotes |-> [state |-> "OPEN", by |-> None, past |-> FALSE]]
  /\ holder = [q \in Quotes |-> None]
  /\ orch = [t \in Transfers |-> [pc |-> "new", on |-> None, seen |-> Unread]]
  /\ lockRead = {}
  /\ sweep = {}
  /\ xb = [t \in Transfers |-> NoRow]
  /\ rail = [t \in Transfers |-> <<>>]
  /\ tick = [k \in Ticks |-> Resting(<<>>)]
  /\ inconclusive = [t \in Transfers |-> 0]
  /\ overwritten = {}
  /\ faults = 0

-----------------------------------------------------------------------------
(* Quotes: time, lock() and expirePastDue().                               *)

ExpiryPasses(q) ==
  /\ ~quote[q].past
  /\ quote' = [quote EXCEPT ![q].past = TRUE]
  /\ UNCHANGED <<tx, holder, orch, lockRead, sweep, foreign, overwritten, faults>>

\* An UPDATE by the row's key alone: had its author read what it replaces?
Notes(row, read, current) ==
  overwritten' = IF read = current THEN overwritten ELSE overwritten \cup {row}

\* Mutant: the columns swapped.
SetQuoteSwapped(q, state, by) ==
  /\ holder[q] = None
  /\ quote' = [quote EXCEPT ![q].state = by, ![q].by = state]

\* setQuoteState writes whatever the row holds, once nobody else has it.
SetQuote(q, state, by) ==
  /\ holder[q] = None
  /\ quote' = [quote EXCEPT ![q].state = state, ![q].by = by]

\* The pre-check of lock() marks a quote whose time is over, in any state.
LockExpires(q) ==
  /\ quote[q].past
  /\ SetQuote(q, "EXPIRED", quote[q].by)
  /\ UNCHANGED <<tx, holder, orch, lockRead, sweep, foreign, overwritten, faults>>

LockReads(q) ==
  /\ ~quote[q].past
  /\ quote[q].state = "OPEN"
  /\ lockRead' = lockRead \cup {q}
  /\ UNCHANGED <<tx, quote, holder, orch, sweep, foreign, overwritten, faults>>

LockWrites(q) ==
  /\ q \in lockRead
  /\ SetQuote(q, "LOCKED", quote[q].by)
  /\ lockRead' = lockRead \ {q}
  /\ Notes(q, "OPEN", quote[q].state)
  /\ UNCHANGED <<tx, holder, orch, sweep, foreign, faults>>

\* One UPDATE, whose subselect is not evaluated again for a row that it has
\* to wait for.
SweepSelects ==
  /\ sweep = {}
  /\ sweep' = {q \in Quotes : quote[q].state \in Usable /\ quote[q].past}
  /\ sweep' # {}
  /\ UNCHANGED <<tx, quote, holder, orch, lockRead, foreign, overwritten, faults>>

SweepUpdates ==
  /\ sweep # {}
  /\ \A q \in sweep : holder[q] = None
  /\ quote' = [q \in Quotes |-> IF q \in sweep THEN [quote[q] EXCEPT !.state = "EXPIRED"]
                                               ELSE quote[q]]
  /\ sweep' = {}
  /\ UNCHANGED <<tx, holder, orch, lockRead, foreign, overwritten, faults>>

-----------------------------------------------------------------------------
(* POST /crossborder/quote-and-instruct: the orchestrator's branch.        *)

Leaves(t) == orch' = [orch EXCEPT ![t] = [pc |-> "done", on |-> None, seen |-> Unread]]

\* Finalize: the parent row, if its state allows it.
Finalize(t, state) ==
  /\ tx[t] # "ABSENT" => canTransition(tx[t], state)
  /\ tx' = [tx EXCEPT ![t] = state]

\* Authorization, routing or the rail's register refuses.  A transfer whose
\* legs are committed is rejected the same way when its envelope is sent
\* again and now refused (the operator's kill switch does the same).
ProcessDeclined(t) ==
  /\ orch[t].pc \in {"new", "done"}
  /\ Finalize(t, "REJECTED")
  /\ Leaves(t)
  /\ UNCHANGED <<quote, holder, lockRead, sweep, foreign, overwritten, faults>>

\* findQuoteById, without a lock; the maker is asked next.
ReadsQuote(t, q) ==
  /\ orch[t].pc = "new"
  /\ orch' = [orch EXCEPT ![t] = [pc |-> "read", on |-> q, seen |-> quote[q]]]
  /\ UNCHANGED <<tx, quote, holder, lockRead, sweep, foreign, overwritten, faults>>

\* Another transfer has it, it has expired or it slipped before.
QuoteRefused(t) ==
  /\ orch[t].pc = "read"
  /\ orch[t].seen.state \notin Usable
  /\ Finalize(t, "REJECTED")
  /\ Leaves(t)
  /\ UNCHANGED <<quote, holder, lockRead, sweep, foreign, overwritten, faults>>

\* Too old, or the maker's rate drifted: noted on the quote, and the error
\* that is thrown is caught, so that the note is committed with REJECTED.
QuoteSpoiled(t) ==
  LET q == orch[t].on
      verdict == IF orch[t].seen.past THEN "EXPIRED" ELSE "REJECTED_SLIPPAGE"
  IN
  /\ orch[t].pc = "read"
  /\ orch[t].seen.state \in Usable
  /\ SetQuote(q, verdict, quote[q].by)
  /\ Finalize(t, "REJECTED")
  /\ Leaves(t)
  /\ UNCHANGED <<holder, lockRead, sweep, foreign, overwritten, faults>>

verifyAndConsume(t) ==
  LET q == orch[t].on IN
  /\ orch[t].pc = "read"
  /\ orch[t].seen.state \in Usable
  /\ ~orch[t].seen.past
  /\ holder[q] = None
  /\ holder' = [holder EXCEPT ![q] = t]
  /\ orch' = [orch EXCEPT ![t].pc = "consumed"]
  /\ Notes(q, orch[t].seen.state, quote[q].state)
  /\ UNCHANGED <<tx, quote, lockRead, sweep, foreign, faults>>

\* The commit makes the consumed quote visible and frees its row.
CommitConsumed(t) ==
  LET q == orch[t].on IN
  /\ orch[t].pc = "consumed"
  /\ quote' = [quote EXCEPT ![q].state = "CONSUMED", ![q].by = t]
  /\ holder' = [holder EXCEPT ![q] = None]
  /\ Leaves(t)

\* The travel rule refuses: REJECTED, and the quote stays consumed.
TravelRuleRefuses(t) ==
  /\ CommitConsumed(t)
  /\ Finalize(t, "REJECTED")
  /\ UNCHANGED <<lockRead, sweep, foreign, overwritten, faults>>

\* Both legs, the cross-border row and CREDIT_LEG_PENDING in one commit.
coordinateOnClient(t) ==
  /\ CommitConsumed(t)
  /\ tx' = [tx EXCEPT ![t] = "CREDIT_LEG_PENDING"]
  /\ xb' = [xb EXCEPT ![t] = [NoRow EXCEPT !.quote = orch[t].on,
                                            !.state = "FOREIGN_INSTRUCTING"]]
  /\ UNCHANGED <<lockRead, sweep, rail, tick, inconclusive, overwritten, faults>>

\* A database error or a crash: everything rolled back, the caller may retry.
ProcessFails(t) ==
  LET q == orch[t].on IN
  /\ orch[t].pc \in {"read", "consumed"}
  /\ faults < MaxFaults
  /\ faults' = faults + 1
  /\ holder' = IF orch[t].pc = "consumed" THEN [holder EXCEPT ![q] = None] ELSE holder
  /\ orch' = [orch EXCEPT ![t] = [pc |-> "new", on |-> None, seen |-> Unread]]
  /\ UNCHANGED <<tx, quote, lockRead, sweep, foreign, overwritten>>

-----------------------------------------------------------------------------
(* The recovery worker: tick, and handleOne for each row.                  *)

\* Mutant: the selection looks at the time only.
DueRowsOfAnyState == {t \in Transfers : xb[t].state # "ABSENT" /\ xb[t].due}

DueRows == {t \in Transfers : xb[t].state \in InFlight /\ xb[t].due}

\* The SKIP LOCKED selection commits before the first row is handled.
PickBatch(k) ==
  /\ tick[k].pc = "idle"
  /\ DOMAIN tick[k].rows = {}
  /\ DueRows # {}
  /\ tick' = [tick EXCEPT ![k] = Resting([t \in DueRows |-> xb[t]])]
  /\ UNCHANGED <<tx, quoting, xb, rail, inconclusive, overwritten, faults>>

KnowsForeignTx(row) == row.state = "PENDING_FOREIGN" /\ row.foreignTx # 0

Asks(k, t, i) ==
  tick' = [tick EXCEPT ![k] = [pc |-> "asked", rows |-> tick[k].rows, on |-> t,
                               about |-> i, learned |-> 0]]

\* For the bounds of the instance.
InstructionsSent == MapThenSumSet(LAMBDA t : Len(rail[t]), Transfers)
InconclusiveAnswers == MapThenSumSet(LAMBDA t : inconclusive[t], Transfers)

\* A new instruction for the rail, unless an answer has named one before.
Instruct(k, t) ==
  /\ tick[k].pc = "idle"
  /\ t \in DOMAIN tick[k].rows
  /\ ~KnowsForeignTx(tick[k].rows[t])
  /\ InstructionsSent < MaxInstructions
  /\ rail' = [rail EXCEPT ![t] = Append(@, "OPEN")]
  /\ Asks(k, t, Len(rail[t]) + 1)
  /\ UNCHANGED <<tx, quoting, xb, inconclusive, overwritten, faults>>

AskStatus(k, t) ==
  /\ tick[k].pc = "idle"
  /\ t \in DOMAIN tick[k].rows
  /\ KnowsForeignTx(tick[k].rows[t])
  /\ Asks(k, t, tick[k].rows[t].foreignTx)
  /\ UNCHANGED <<tx, quoting, xb, rail, inconclusive, overwritten, faults>>

\* Mutant: an instruction that is still open counts as decided.
AnsweredOrOpen(k, fate) ==
  /\ tick[k].pc = "asked"
  /\ rail[tick[k].on][tick[k].about] \in {fate, "OPEN"}

Answered(k, fate) ==
  /\ tick[k].pc = "asked"
  /\ rail[tick[k].on][tick[k].about] = fate

\* Done with the row.
NextRow(k) == tick' = [tick EXCEPT ![k] = Resting(Without(tick[k].rows, tick[k].on))]

\* The row's state is set, whatever it was.
SetsState(k) == Notes(tick[k].on, tick[k].rows[tick[k].on].state, xb[tick[k].on].state)

\* Mutant: the UPDATE of the parent has no condition on its state.
ParentUnguarded(t, state) == tx' = [tx EXCEPT ![t] = state]

\* The parent changes only where the guard of the UPDATE finds it open.
Parent(t, state) == tx' = [tx EXCEPT ![t] = IF isTerminal(@) THEN @ ELSE state]

HandleAccepted(k) ==
  LET t == tick[k].on IN
  /\ Answered(k, "ACCEPTED")
  /\ xb' = [xb EXCEPT ![t].state = "CONFIRMED", ![t].foreignTx = tick[k].about]
  /\ Parent(t, "CONFIRMED")
  /\ NextRow(k)
  /\ SetsState(k)
  /\ UNCHANGED <<quoting, rail, inconclusive, faults>>

\* postCompensation, the row and the parent in one transaction.
HandleRejected(k) ==
  LET t == tick[k].on IN
  /\ Answered(k, "REJECTED")
  /\ xb' = [xb EXCEPT ![t].state = "REJECTED", ![t].compensations = @ + 1]
  /\ Parent(t, "REJECTED")
  /\ NextRow(k)
  /\ SetsState(k)
  /\ UNCHANGED <<quoting, rail, inconclusive, faults>>

Inconclusive(k) ==
  LET t == tick[k].on IN
  /\ tick[k].pc = "asked"
  /\ InconclusiveAnswers < MaxInconclusive
  /\ inconclusive' = [inconclusive EXCEPT ![t] = @ + 1]

\* Mutants: one attempt too few; the legs given back when nothing is known.
HandleExhaustedEarly(k) ==
  LET t == tick[k].on
      attempts == tick[k].rows[t].attempts + 1
  IN
  /\ Inconclusive(k)
  /\ attempts >= MaxAttempts - 1
  /\ xb' = [xb EXCEPT ![t].state = "FAILED", ![t].attempts = attempts, ![t].due = TRUE]
  /\ NextRow(k)
  /\ SetsState(k)
  /\ UNCHANGED <<tx, quoting, rail, faults>>

HandleExhaustedCompensates(k) ==
  LET t == tick[k].on IN
  /\ Inconclusive(k)
  /\ tick[k].rows[t].attempts + 1 >= MaxAttempts
  /\ xb' = [xb EXCEPT ![t].state = "FAILED", ![t].attempts = tick[k].rows[t].attempts + 1,
                      ![t].compensations = @ + 1]
  /\ NextRow(k)
  /\ SetsState(k)
  /\ UNCHANGED <<tx, quoting, rail, faults>>

\* The counter of the copy decides; the deadline may strike at any moment.
HandleExhausted(k) ==
  LET t == tick[k].on
      attempts == tick[k].rows[t].attempts + 1
  IN
  /\ Inconclusive(k)
  /\ attempts >= MaxAttempts
  /\ xb' = [xb EXCEPT ![t].state = "FAILED", ![t].attempts = attempts, ![t].due = TRUE]
  /\ NextRow(k)
  /\ SetsState(k)
  /\ UNCHANGED <<tx, quoting, rail, faults>>

\* bumpAttempt on a connection of its own, before the row's state is set.
Bump(k, learned) ==
  LET t == tick[k].on IN
  /\ xb' = [xb EXCEPT ![t].attempts = @ + 1, ![t].due = FALSE]
  /\ tick' = [tick EXCEPT ![k].pc = "bumped", ![k].learned = learned]

HandleTimeout(k) ==
  /\ Inconclusive(k)
  /\ tick[k].rows[tick[k].on].attempts + 1 < MaxAttempts
  /\ Bump(k, 0)
  /\ UNCHANGED <<tx, quoting, rail, overwritten, faults>>

\* PENDING names the foreign transaction, and is never given up.
HandlePending(k) ==
  /\ Inconclusive(k)
  /\ Answered(k, "OPEN")
  /\ Bump(k, tick[k].about)
  /\ UNCHANGED <<tx, quoting, rail, overwritten, faults>>

SetPending(k) ==
  LET t == tick[k].on IN
  /\ tick[k].pc = "bumped"
  /\ xb' = [xb EXCEPT ![t].state = "PENDING_FOREIGN",
                      ![t].foreignTx = IF tick[k].learned = 0 THEN @ ELSE tick[k].learned]
  /\ NextRow(k)
  /\ SetsState(k)
  /\ UNCHANGED <<tx, quoting, rail, inconclusive, faults>>

\* A network error, an answer that is no JSON or that says something else:
\* the row is left as it is, due at once.
HandleUnknown(k) ==
  /\ tick[k].pc = "asked"
  /\ NextRow(k)
  /\ UNCHANGED <<tx, quoting, xb, rail, inconclusive, overwritten, faults>>

\* The process dies in the middle of a tick.
TickDies(k) ==
  /\ tick[k].pc # "idle" \/ DOMAIN tick[k].rows # {}
  /\ faults < MaxFaults
  /\ faults' = faults + 1
  /\ tick' = [tick EXCEPT ![k] = Resting(<<>>)]
  /\ UNCHANGED <<tx, quoting, xb, rail, inconclusive, overwritten>>

BackoffElapses(t) ==
  /\ xb[t].state \in InFlight
  /\ ~xb[t].due
  /\ xb' = [xb EXCEPT ![t].due = TRUE]
  /\ UNCHANGED <<tx, quoting, rail, tick, inconclusive, overwritten, faults>>

\* The foreign rail decides an instruction at its own pace, and for good.
RailDecides(t, i) ==
  /\ i \in DOMAIN rail[t]
  /\ rail[t][i] = "OPEN"
  /\ \E fate \in {"ACCEPTED", "REJECTED"} : rail' = [rail EXCEPT ![t][i] = fate]
  /\ UNCHANGED <<tx, quoting, xb, tick, inconclusive, overwritten, faults>>

-----------------------------------------------------------------------------

QuoteStep(q) ==
  ExpiryPasses(q) \/ LockExpires(q) \/ LockReads(q) \/ LockWrites(q)

Process(t) ==
  \/ ProcessDeclined(t)
  \/ \E q \in Quotes : ReadsQuote(t, q)
  \/ QuoteRefused(t)
  \/ QuoteSpoiled(t)
  \/ verifyAndConsume(t)
  \/ TravelRuleRefuses(t)
  \/ coordinateOnClient(t)
  \/ ProcessFails(t)

handleOne(k) ==
  \/ \E t \in Transfers : Instruct(k, t) \/ AskStatus(k, t)
  \/ HandleAccepted(k)
  \/ HandleRejected(k)
  \/ HandleExhausted(k)
  \/ HandleTimeout(k)
  \/ HandlePending(k)
  \/ SetPending(k)
  \/ HandleUnknown(k)

Next ==
  \/ \E q \in Quotes : QuoteStep(q)
  \/ SweepSelects
  \/ SweepUpdates
  \/ \E t \in Transfers : \/ Process(t)
                          \/ BackoffElapses(t)
                          \/ \E i \in 1 .. MaxInstructions : RailDecides(t, i)
  \/ \E k \in Ticks : PickBatch(k) \/ handleOne(k) \/ TickDies(k)

Spec == Init /\ [][Next]_vars

-----------------------------------------------------------------------------

TypeOK ==
  /\ tx \in [Transfers -> STATES \cup {"ABSENT"}]
  /\ quote \in [Quotes -> Quote]
  /\ holder \in [Quotes -> Transfers \cup {None}]
  /\ orch \in [Transfers -> Orch]
  /\ lockRead \subseteq Quotes
  /\ sweep \subseteq Quotes
  /\ xb \in [Transfers -> XbRow]
  /\ rail \in [Transfers -> Seq(Fates)]
  /\ AreTicks(tick)
  /\ inconclusive \in [Transfers -> Nat]
  /\ overwritten \subseteq Transfers \cup Quotes
  /\ faults \in Nat

Got(t, fate) == \E i \in DOMAIN rail[t] : rail[t][i] = fate

\* Success at home means that the foreign rail accepted an instruction:
\* timeouts, overlapping ticks and stale copies never confirm anything.
ConfirmedWasAccepted ==
  \A t \in Transfers :
    "CONFIRMED" \in {tx[t], xb[t].state} => Got(t, "ACCEPTED")

\* The legs are given back only for a transfer that the rail refused, and a
\* row that says REJECTED has given them back.
CompensatedWasRefused ==
  \A t \in Transfers :
    /\ xb[t].compensations > 0 => Got(t, "REJECTED")
    /\ xb[t].state = "REJECTED" => xb[t].compensations > 0

\* A transfer is given up (FAILED) after at least MaxAttempts answers that
\* decided nothing, whichever ticks got them: the counter, bumped apart from
\* the state and overwritten from copies, never runs ahead of the answers.
GivesUpAfterFullSchedule ==
  \A t \in Transfers :
    /\ xb[t].attempts <= inconclusive[t]
    /\ xb[t].state = "FAILED" => xb[t].attempts >= MaxAttempts

\* A transfer ends by what the foreign rail has answered: confirmed if it
\* accepted, compensated if it refused, given up after a full schedule.
AnswersDecide ==
  /\ TypeOK
  /\ ConfirmedWasAccepted
  /\ CompensatedWasRefused
  /\ GivesUpAfterFullSchedule

\* Confirmed or compensated, and compensated once: as long as no tick sets
\* the state of a row that has changed since it was picked.
DecidedOnceUnlessOverwritten ==
  \A t \in Transfers \ overwritten :
    xb[t].compensations = IF xb[t].state = "REJECTED" THEN 1 ELSE 0

Backed(q) == {t \in Transfers : xb[t].quote = q}

\* A quote pays for one transfer, as long as nobody consumes or locks it on
\* the strength of a state that it no longer has.
QuoteBacksOneUnlessOverwritten ==
  \A q \in Quotes \ overwritten : Cardinality(Backed(q)) <= 1

\* The parent's final state stays, whatever is resubmitted, and whatever a
\* late tick learns.
ParentIsFinal ==
  [][\A t \in Transfers : isTerminal(tx[t]) => tx'[t] = tx[t]]_vars

-----------------------------------------------------------------------------
(* What a comment of the code says and the code does not do.               *)

\* recovery-worker.js: "For PENDING_FOREIGN: call status."  A transfer whose
\* instruction got no answer in time is not instructed, and paid, again.
PendingIsStatusChecked ==
  [][\A t \in Transfers :
       xb[t].state = "PENDING_FOREIGN" => Len(rail'[t]) = Len(rail[t])]_vars

=============================================================================
