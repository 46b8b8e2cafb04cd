------------------------------ MODULE Payments ------------------------------
(***************************************************************************)
(* Domestic payments, from the API call to the final state:                *)
(*   - the orchestrator (modules/transactions/orchestrator.js), one        *)
(*     database transaction per envelope around one HTTP credit leg;       *)
(*   - the operator's kill switch (modules/transactions/service.js);       *)
(*   - the recovery workers (modules/transaction-recovery), which probe    *)
(*     the beneficiary outside any database transaction and decide inside  *)
(*     one;                                                                *)
(*   - reversals (modules/reversals), one database transaction around one  *)
(*     HTTP reversal call;                                                 *)
(*   - the beneficiary participant, outside the rail: an instruction may   *)
(*     be lost, carried out late, refused, or answered after the deadline. *)
(*                                                                         *)
(* PostgreSQL runs READ COMMITTED.  A database transaction that makes no   *)
(* HTTP call is one action here.  One that waits for an answer is a        *)
(* starting action (nothing of it is visible to the others but the locks   *)
(* it holds) and one ending action per outcome, which commits or rolls     *)
(* back.  A row is named by the API call that would insert it, since every *)
(* call draws a fresh uuid.                                                *)
(***************************************************************************)
EXTENDS Naturals, FiniteSets, TLC, TxStates

CONSTANTS
  Requests,     \* calls of the API: process, ingest or reverse; each is used once
  Envelopes,    \* payment messages, by (originator, idempotency key)
  Workers,      \* recovery workers, one per running process
  None,         \* no request
  MaxAttempts,  \* probes before a worker gives up (policy.js)
  MaxFaults,    \* bound: failed or crashed recovery passes
  MaxReruns     \* bound: operator reruns of a credit leg

ASSUME NoneAssumption == None \notin Requests
ASSUME WorkersAssumption == IsFiniteSet(Workers)
ASSUME BoundsAssumption ==
  /\ MaxAttempts \in Nat \ {0}
  /\ MaxFaults \in Nat
  /\ MaxReruns \in Nat

VARIABLES
  tx,           \* the transactions table; ABSENT marks an id not inserted
  probes,       \* outcomes in each transaction's recovery history
  posted,       \* TRANSACTION_CONFIRMED journals per transaction
  feeLegs,      \* transactions whose journal has the fee leg
  receipts,     \* transactions with both receipts
  call,         \* progress of each API call
  worker,       \* progress of each recovery worker
  participant,  \* each instruction, as the beneficiary sees it
  faults,       \* recovery passes that failed so far
  reruns        \* transactions whose credit leg an operator ran again

rail == <<tx, probes, posted, feeLegs, receipts>>
vars == <<rail, call, worker, participant, faults, reruns>>

-----------------------------------------------------------------------------
(* Types and state predicates.                                             *)

Outcomes == {"CREDITED", "NOT_CREDITED", "PENDING", "NOT_FOUND", "ERROR"}

Reasons == {"NONE", "SUCCESS", "DECLINED", "REFUSED", "NOT_CREDITED",
            "AMBIGUOUS", "TIMEOUT", "EXHAUSTED", "KILLED", "REVERSED", "TECH"}

Row == [state    : STATES \cup {"ABSENT"},
        envelope : Envelopes \cup {None},
        original : Requests \cup {None},
        link     : Requests \cup {None},
        reason   : Reasons,
        fee      : BOOLEAN,
        attempts : Nat,
        due      : BOOLEAN]

NoRow == [state |-> "ABSENT", envelope |-> None, original |-> None,
          link |-> None, reason |-> "NONE", fee |-> FALSE,
          attempts |-> 0, due |-> TRUE]

Call == [pc : {"new", "crediting", "reversing", "failed", "done"},
         on : Requests \cup {None},
         envelope : Envelopes \cup {None},
         fee : BOOLEAN]

Worker == [pc      : {"idle", "probed", "deciding"},
           batch   : SUBSET Requests,
           on      : Requests \cup {None},
           outcome : Outcomes,
           attempt : Nat]

ParticipantView == {"unknown", "received", "executed", "refused"}

TypeOK ==
  /\ tx \in [Requests -> Row]
  /\ probes \in [Requests -> SUBSET Outcomes]
  /\ posted \in [Requests -> Nat]
  /\ feeLegs \subseteq Requests
  /\ receipts \subseteq Requests
  /\ call \in [Requests -> Call]
  /\ worker \in [Workers -> Worker]
  /\ participant \in [Requests -> ParticipantView]
  /\ faults \in Nat
  /\ reruns \subseteq Requests

Present(t) == tx[t].state # "ABSENT"
IsPayment(t) == Present(t) /\ tx[t].original = None

\* The payment row of an envelope (at most one: transactions_envelope_uniq).
RowsOf(e) == {t \in Requests : IsPayment(t) /\ tx[t].envelope = e}

\* The row call r works on: the one the envelope has, else the one it inserts.
RowFor(e, r) == IF RowsOf(e) = {} THEN {r} ELSE RowsOf(e)

Stored(t, e) == IF Present(t) THEN tx[t]
                ELSE [NoRow EXCEPT !.state = "RECEIVED", !.envelope = e]

\* Mutant: no unique index, so that calls on one envelope do not wait.
LockedByNobody(e) == FALSE

\* An open orchestrator transaction holds the unique key of its envelope, or
\* the lock of the row it has updated: other calls on the envelope wait.
Locked(e) == \E r \in Requests : call[r].pc = "crediting" /\ call[r].envelope = e

CallAt(pc, on, e, withFee) ==
  [pc |-> pc, on |-> on, envelope |-> e, fee |-> withFee]

Returns(r) == call' = [call EXCEPT ![r] = CallAt("done", None, None, FALSE)]
Throws(r) ==
  call' = [call EXCEPT ![r] = CallAt("failed", call[r].on, call[r].envelope, FALSE)]

\* A worker between two transactions of its batch.
Resting(batch) ==
  [pc |-> "idle", batch |-> batch, on |-> None, outcome |-> "ERROR", attempt |-> 0]

Init ==
  /\ tx = [t \in Requests |-> NoRow]
  /\ probes = [t \in Requests |-> {}]
  /\ posted = [t \in Requests |-> 0]
  /\ feeLegs = {}
  /\ receipts = {}
  /\ call = [r \in Requests |-> CallAt("new", None, None, FALSE)]
  /\ worker = [w \in Workers |-> Resting({})]
  /\ participant = [t \in Requests |-> "unknown"]
  /\ faults = 0
  /\ reruns = {}

\* Mutant: the two arguments swapped by a caller.
FinalizeSwapped(row, state, reason) == [row EXCEPT !.state = reason, !.reason = state]

Finalize(row, state, reason) == [row EXCEPT !.state = state, !.reason = reason]

\* The row as the orchestrator ends it, with the fee stamped at AUTHORIZED.
Ended(row, state, reason, withFee) ==
  [row EXCEPT !.state = state, !.reason = reason, !.fee = withFee]

Bumped(row) == [row EXCEPT !.attempts = @ + 1, !.due = TRUE]

\* Mutant: the journal has two legs, whatever the fee.
BookConfirmedWithoutFee(t, withFee) ==
  /\ posted' = [posted EXCEPT ![t] = @ + 1]
  /\ receipts' = receipts \cup {t}
  /\ UNCHANGED feeLegs

\* State, then journal, then receipts, all in one database transaction.
BookConfirmed(t, withFee) ==
  /\ posted' = [posted EXCEPT ![t] = @ + 1]
  /\ feeLegs' = IF withFee THEN feeLegs \cup {t} ELSE feeLegs
  /\ receipts' = receipts \cup {t}

\* An instruction leaves for the participant, which knows a transaction id
\* it has executed already.  It may be lost on the way.
Send(t) ==
  \/ participant' = [participant EXCEPT ![t] = IF @ = "executed" THEN @ ELSE "received"]
  \/ UNCHANGED participant

-----------------------------------------------------------------------------
(* POST /transactions/ingest: a RECEIVED row and nothing more.             *)

Ingest(r, e) ==
  /\ call[r].pc = "new"
  /\ ~Locked(e)
  /\ \E t \in RowFor(e, r) : tx' = [tx EXCEPT ![t] = Stored(t, e)]
  /\ Returns(r)
  /\ UNCHANGED <<probes, posted, feeLegs, receipts, worker, participant, faults, reruns>>

-----------------------------------------------------------------------------
(* POST /transactions/process.                                             *)

\* The envelope was processed before: its terminal row is the answer.
ProcessDeduped(r, e) ==
  /\ call[r].pc = "new"
  /\ ~Locked(e)
  /\ \E t \in RowsOf(e) : isTerminal(tx[t].state)
  /\ Returns(r)
  /\ UNCHANGED <<rail, worker, participant, faults, reruns>>

\* Authorization or routing refuses.  A row another call left in
\* PENDING_RECONCILIATION is rejected just as a new one is.
ProcessDeclined(r, e) ==
  /\ call[r].pc = "new"
  /\ ~Locked(e)
  /\ \E t \in RowFor(e, r) :
       /\ canTransition(Stored(t, e).state, "REJECTED")
       /\ tx' = [tx EXCEPT ![t] = Finalize(Stored(t, e), "REJECTED", "DECLINED")]
  /\ Returns(r)
  /\ UNCHANGED <<probes, posted, feeLegs, receipts, worker, participant, faults, reruns>>

\* Authorized, but the row is past RECEIVED, or moved while this call waited
\* for it: the transition throws, and the catch-all's REJECTED is rolled back
\* with everything else.
ProcessRefused(r, e) ==
  /\ call[r].pc = "new"
  /\ ~Locked(e)
  /\ \E t \in RowsOf(e) :
       /\ ~canTransition(tx[t].state, "AUTHORIZED")
       /\ call' = [call EXCEPT ![r] = CallAt("failed", t, e, FALSE)]
  /\ UNCHANGED <<rail, worker, participant, faults, reruns>>

\* Authorized and routed: the credit leg leaves while the transaction is open.
ProcessSendsCreditLeg(r, e) ==
  /\ call[r].pc = "new"
  /\ ~Locked(e)
  /\ \E t \in RowFor(e, r), withFee \in BOOLEAN :
       /\ canTransition(Stored(t, e).state, "AUTHORIZED")
       /\ call' = [call EXCEPT ![r] = CallAt("crediting", t, e, withFee)]
       /\ Send(t)
  /\ UNCHANGED <<rail, worker, faults, reruns>>

\* TERMINAL_SUCCESS: the participant's ACSC arrived in time.
ProcessConfirms(r) ==
  LET t == call[r].on IN
  /\ call[r].pc = "crediting"
  /\ participant[t] = "executed"
  /\ tx' = [tx EXCEPT ![t] = Ended(Stored(t, call[r].envelope), "CONFIRMED", "SUCCESS", call[r].fee)]
  /\ BookConfirmed(t, call[r].fee)
  /\ Returns(r)
  /\ UNCHANGED <<probes, worker, participant, faults, reruns>>

\* TERMINAL_FAIL: the participant refused with a final reason code.
ProcessRejects(r) ==
  LET t == call[r].on IN
  /\ call[r].pc = "crediting"
  /\ participant[t] = "refused"
  /\ tx' = [tx EXCEPT ![t] = Ended(Stored(t, call[r].envelope), "REJECTED", "REFUSED", call[r].fee)]
  /\ Returns(r)
  /\ UNCHANGED <<probes, posted, feeLegs, receipts, worker, participant, faults, reruns>>

\* AMBIGUOUS or RETRYABLE_FAIL: deadline, network error or an answer that
\* says neither; at any moment, whatever the participant has done.
ProcessLeavesPending(r) ==
  LET t == call[r].on IN
  /\ call[r].pc = "crediting"
  /\ tx' = [tx EXCEPT ![t] =
       Ended(Stored(t, call[r].envelope), "PENDING_RECONCILIATION", "AMBIGUOUS", call[r].fee)]
  /\ Returns(r)
  /\ UNCHANGED <<probes, posted, feeLegs, receipts, worker, participant, faults, reruns>>

\* An error after the credit leg left (ledger, receipts, keys, connection):
\* forced to REJECTED, rethrown, rolled back.
ProcessFails(r) ==
  /\ call[r].pc = "crediting"
  /\ Throws(r)
  /\ UNCHANGED <<rail, worker, participant, faults, reruns>>

-----------------------------------------------------------------------------
(* Operators.                                                              *)

\* The kill switch compares and swaps the state it has read; a row whose
\* orchestrator transaction is open waits, and the swap then fails.
operatorKillSwitch(t) ==
  /\ IsPayment(t)
  /\ ~isTerminal(tx[t].state)
  /\ ~Locked(tx[t].envelope)
  /\ tx' = [tx EXCEPT ![t] = Finalize(@, "REJECTED", "KILLED")]
  /\ UNCHANGED <<probes, posted, feeLegs, receipts, call, worker, participant, faults, reruns>>

\* POST /credit-leg/run/:id sends the credit leg of any transaction again,
\* whatever its state, and stores nothing.
runById(t) ==
  /\ IsPayment(t)
  /\ t \notin reruns
  /\ Cardinality(reruns) < MaxReruns
  /\ Send(t)
  /\ reruns' = reruns \cup {t}
  /\ UNCHANGED <<rail, call, worker, faults>>

-----------------------------------------------------------------------------
(* Reversals: an operator, a dispute or a fast-track case asks.            *)

ReversalRow(r, o, state, reason) ==
  [NoRow EXCEPT !.state = state, !.envelope = tx[o].envelope,
                !.original = o, !.reason = reason]

Unwound(row, r) == [row EXCEPT !.state = "REVERSED", !.reason = "REVERSED", !.link = r]

MayBeReversed(o) ==
  /\ tx[o].state = "CONFIRMED"
  /\ tx[o].original = None
  /\ tx[o].link = None

\* The original is read without a lock, then the reversal call leaves.
ReversalStarts(r, o) ==
  /\ call[r].pc = "new"
  /\ MayBeReversed(o)
  /\ call' = [call EXCEPT ![r] = CallAt("reversing", o, None, FALSE)]
  /\ Send(r)
  /\ UNCHANGED <<rail, worker, faults, reruns>>

\* Mutant: the original's state is not looked at again after the call.
ReversalConfirmsUnchecked(r) ==
  LET o == call[r].on IN
  /\ call[r].pc = "reversing"
  /\ participant[r] = "executed"
  /\ tx' = [tx EXCEPT ![r] = ReversalRow(r, o, "CONFIRMED", "SUCCESS"),
                      ![o] = Unwound(@, r)]
  /\ Returns(r)
  /\ UNCHANGED <<probes, posted, feeLegs, receipts, worker, participant, faults, reruns>>

\* The participant gave the money back; the original must still be CONFIRMED
\* when its row is updated.
ReversalConfirms(r) ==
  LET o == call[r].on IN
  /\ call[r].pc = "reversing"
  /\ participant[r] = "executed"
  /\ canTransition(tx[o].state, "REVERSED")
  /\ tx' = [tx EXCEPT ![r] = ReversalRow(r, o, "CONFIRMED", "SUCCESS"),
                      ![o] = Unwound(@, r)]
  /\ Returns(r)
  /\ UNCHANGED <<probes, posted, feeLegs, receipts, worker, participant, faults, reruns>>

\* A refusal, a deadline or a network error: the reversal is REJECTED and
\* the original stays CONFIRMED.
ReversalRejected(r) ==
  LET o == call[r].on IN
  /\ call[r].pc = "reversing"
  /\ tx' = [tx EXCEPT ![r] = ReversalRow(r, o, "REJECTED", "TECH")]
  /\ Returns(r)
  /\ UNCHANGED <<probes, posted, feeLegs, receipts, worker, participant, faults, reruns>>

\* The original changed meanwhile, or the call failed: rolled back.
ReversalFails(r) ==
  /\ call[r].pc = "reversing"
  /\ Throws(r)
  /\ UNCHANGED <<rail, worker, participant, faults, reruns>>

-----------------------------------------------------------------------------
(* Recovery workers: runBatch, and runOnceForId for each id of the batch.  *)

\* Mutant: the selection leaves out rows that have used up their attempts.
DueUnlessSpent ==
  {t \in Requests : /\ tx[t].state = "PENDING_RECONCILIATION"
                    /\ tx[t].due
                    /\ tx[t].attempts < MaxAttempts}

Due == {t \in Requests : tx[t].state = "PENDING_RECONCILIATION" /\ tx[t].due}

\* The SKIP LOCKED selection commits before the first id is worked on.
PickBatch(w) ==
  /\ worker[w].pc = "idle"
  /\ worker[w].batch = {}
  /\ Due # {}
  /\ worker' = [worker EXCEPT ![w] = Resting(Due)]
  /\ UNCHANGED <<rail, call, participant, faults, reruns>>

SkipMoved(w, t) ==
  /\ worker[w].pc = "idle"
  /\ t \in worker[w].batch
  /\ tx[t].state # "PENDING_RECONCILIATION"
  /\ worker' = [worker EXCEPT ![w] = Resting(worker[w].batch \ {t})]
  /\ UNCHANGED <<rail, call, participant, faults, reruns>>

\* Mutants: ACCP read as final acceptance; "not found" read as a refusal.
StatusOfOptimist(view) ==
  {"ERROR"} \cup CASE view \in {"executed", "received"} -> {"CREDITED"}
                   [] view = "refused" -> {"NOT_CREDITED"}
                   [] view = "unknown" -> {"NOT_FOUND"}

StatusOfPessimist(view) ==
  {"ERROR"} \cup CASE view = "executed" -> {"CREDITED"}
                   [] view = "received" -> {"PENDING", "NOT_CREDITED"}
                   [] view \in {"refused", "unknown"} -> {"NOT_CREDITED"}

\* What the participant's status endpoint may say of an instruction.
StatusOf(view) ==
  {"ERROR"} \cup CASE view = "executed" -> {"CREDITED"}
                   [] view = "refused"  -> {"NOT_CREDITED"}
                   [] view = "received" -> {"PENDING", "NOT_FOUND"}
                   [] view = "unknown"  -> {"NOT_FOUND"}

probeOnce(w, t) ==
  /\ worker[w].pc = "idle"
  /\ t \in worker[w].batch
  /\ tx[t].state = "PENDING_RECONCILIATION"
  /\ \E outcome \in StatusOf(participant[t]) :
       worker' = [worker EXCEPT ![w] = [pc |-> "probed", batch |-> worker[w].batch \ {t},
                                        on |-> t, outcome |-> outcome, attempt |-> 0]]
  /\ UNCHANGED <<rail, call, participant, faults, reruns>>

\* On a connection of its own: counted whatever happens next, even when the
\* transaction is final by now, and due again at once.
bumpAttempts(w) ==
  LET t == worker[w].on IN
  /\ worker[w].pc = "probed"
  /\ tx' = [tx EXCEPT ![t] = Bumped(@)]
  /\ worker' = [worker EXCEPT ![w] = [pc |-> "deciding", batch |-> worker[w].batch,
                                      on |-> t, outcome |-> worker[w].outcome,
                                      attempt |-> tx[t].attempts + 1]]
  /\ UNCHANGED <<probes, posted, feeLegs, receipts, call, participant, faults, reruns>>

PassEnds(w) == worker' = [worker EXCEPT ![w] = Resting(worker[w].batch)]

\* Mutant: the row is locked, and its state not looked at again.
DecidingUnchecked(w) == worker[w].pc = "deciding" /\ PassEnds(w)

\* The deciding transaction has the row lock and sees the row still pending.
Deciding(w) ==
  /\ worker[w].pc = "deciding"
  /\ tx[worker[w].on].state = "PENDING_RECONCILIATION"
  /\ PassEnds(w)

\* Mutants: one probe too many; one too few.
isExhaustedLate(attempts) == attempts > MaxAttempts
isExhaustedEarly(attempts) == attempts >= MaxAttempts - 1

isExhausted(attempts) == attempts >= MaxAttempts

DecideSkips(w) ==
  /\ worker[w].pc = "deciding"
  /\ tx[worker[w].on].state # "PENDING_RECONCILIATION"
  /\ PassEnds(w)
  /\ UNCHANGED <<rail, call, participant, faults, reruns>>

\* Two legs: the fee stamped on the row is not posted.
DecideCredited(w) ==
  LET t == worker[w].on IN
  /\ Deciding(w)
  /\ worker[w].outcome = "CREDITED"
  /\ tx' = [tx EXCEPT ![t] = Finalize(@, "CONFIRMED", "SUCCESS")]
  /\ BookConfirmed(t, FALSE)
  /\ probes' = [probes EXCEPT ![t] = @ \cup {"CREDITED"}]
  /\ UNCHANGED <<call, participant, faults, reruns>>

DecideNotCredited(w) ==
  LET t == worker[w].on IN
  /\ Deciding(w)
  /\ worker[w].outcome = "NOT_CREDITED"
  /\ tx' = [tx EXCEPT ![t] = Finalize(@, "REJECTED", "NOT_CREDITED")]
  /\ probes' = [probes EXCEPT ![t] = @ \cup {"NOT_CREDITED"}]
  /\ UNCHANGED <<posted, feeLegs, receipts, call, participant, faults, reruns>>

\* Mutant: exhaustion is tested before the conclusive outcomes.
InconclusiveOrNot(outcome) == outcome \in Outcomes

Inconclusive(outcome) == outcome \in {"PENDING", "NOT_FOUND", "ERROR"}

decideTerminalAtExhaust(outcomes) ==
  CASE "CREDITED" \in outcomes -> [state |-> "CONFIRMED", reason |-> "SUCCESS"]
    [] "CREDITED" \notin outcomes /\ "NOT_CREDITED" \in outcomes
         -> [state |-> "REJECTED", reason |-> "NOT_CREDITED"]
    [] outcomes \cap {"CREDITED", "NOT_CREDITED"} = {} /\ "PENDING" \in outcomes
         -> [state |-> "REJECTED", reason |-> "TIMEOUT"]
    [] OTHER -> [state |-> "FAILED", reason |-> "EXHAUSTED"]

\* Every probe so far decides; no journal and no receipts here.
DecideExhausted(w) ==
  LET t == worker[w].on
      outcomes == probes[t] \cup {worker[w].outcome}
      decision == decideTerminalAtExhaust(outcomes)
  IN
  /\ Deciding(w)
  /\ Inconclusive(worker[w].outcome)
  /\ isExhausted(worker[w].attempt)
  /\ tx' = [tx EXCEPT ![t] = Finalize(@, decision.state, decision.reason)]
  /\ probes' = [probes EXCEPT ![t] = outcomes]
  /\ UNCHANGED <<posted, feeLegs, receipts, call, participant, faults, reruns>>

DecideReschedules(w) ==
  LET t == worker[w].on IN
  /\ Deciding(w)
  /\ Inconclusive(worker[w].outcome)
  /\ ~isExhausted(worker[w].attempt)
  /\ tx' = [tx EXCEPT ![t].due = FALSE]
  /\ probes' = [probes EXCEPT ![t] = @ \cup {worker[w].outcome}]
  /\ UNCHANGED <<posted, feeLegs, receipts, call, participant, faults, reruns>>

\* The deciding transaction throws and is rolled back (the batch goes on),
\* or the process dies and the worker starts anew.
PassFails(w) ==
  /\ faults < MaxFaults
  /\ faults' = faults + 1
  /\ \/ worker[w].pc = "deciding" /\ PassEnds(w)
     \/ /\ worker[w].pc # "idle" \/ worker[w].batch # {}
        /\ worker' = [worker EXCEPT ![w] = Resting({})]
  /\ UNCHANGED <<rail, call, participant, reruns>>

\* next_attempt_at comes.
BackoffElapses(t) ==
  /\ tx[t].state = "PENDING_RECONCILIATION"
  /\ ~tx[t].due
  /\ tx' = [tx EXCEPT ![t].due = TRUE]
  /\ UNCHANGED <<probes, posted, feeLegs, receipts, call, worker, participant, faults, reruns>>

-----------------------------------------------------------------------------
(* The beneficiary, at its own pace.                                       *)

ParticipantExecutes(t) ==
  /\ participant[t] = "received"
  /\ participant' = [participant EXCEPT ![t] = "executed"]
  /\ UNCHANGED <<rail, call, worker, faults, reruns>>

ParticipantRefuses(t) ==
  /\ participant[t] = "received"
  /\ participant' = [participant EXCEPT ![t] = "refused"]
  /\ UNCHANGED <<rail, call, worker, faults, reruns>>

-----------------------------------------------------------------------------

Process(r) ==
  \/ \E e \in Envelopes : \/ ProcessDeduped(r, e)
                          \/ ProcessDeclined(r, e)
                          \/ ProcessRefused(r, e)
                          \/ ProcessSendsCreditLeg(r, e)
  \/ ProcessConfirms(r)
  \/ ProcessRejects(r)
  \/ ProcessLeavesPending(r)
  \/ ProcessFails(r)

Reversal(r) ==
  \/ \E o \in Requests : ReversalStarts(r, o)
  \/ ReversalConfirms(r)
  \/ ReversalRejected(r)
  \/ ReversalFails(r)

Decide(w) ==
  \/ DecideSkips(w)
  \/ DecideCredited(w)
  \/ DecideNotCredited(w)
  \/ DecideExhausted(w)
  \/ DecideReschedules(w)

runOnceForId(w) ==
  \/ \E t \in Requests : SkipMoved(w, t) \/ probeOnce(w, t)
  \/ bumpAttempts(w)
  \/ Decide(w)

Next ==
  \/ \E r \in Requests, e \in Envelopes : Ingest(r, e)
  \/ \E r \in Requests : Process(r) \/ Reversal(r)
  \/ \E t \in Requests : \/ operatorKillSwitch(t)
                         \/ runById(t)
                         \/ BackoffElapses(t)
                         \/ ParticipantExecutes(t)
                         \/ ParticipantRefuses(t)
  \/ \E w \in Workers : PickBatch(w) \/ runOnceForId(w) \/ PassFails(w)

Spec == Init /\ [][Next]_vars

(***************************************************************************)
(* The poll loop of worker.js runs while the server runs, each pass is     *)
(* bounded by the HTTP deadline, and clocks advance.  Callers, operators   *)
(* and the participant owe nothing.                                        *)
(***************************************************************************)
Fairness ==
  /\ \A w \in Workers : WF_vars(PickBatch(w)) /\ WF_vars(runOnceForId(w))
  /\ \A t \in Requests : WF_vars(BackoffElapses(t))

FairSpec == Spec /\ Fairness

-----------------------------------------------------------------------------
(* Safety.                                                                 *)

\* The rail says CONFIRMED (or REVERSED) only of an instruction its
\* participant has carried out: no deadline, stale probe or second worker
\* turns silence into success.
NoPhantomConfirmation ==
  \A t \in Requests :
    tx[t].state \in {"CONFIRMED", "REVERSED"} => participant[t] = "executed"

WasConfirmed(t) == IsPayment(t) /\ tx[t].state \in {"CONFIRMED", "REVERSED"}

\* Whoever confirms a payment, the orchestrator or a recovery worker, the
\* ledger has exactly one journal for it and both receipts exist; nothing
\* else is booked.  (The exhaustion branch that confirms without booking is
\* never taken.)
ConfirmedIsBookedOnce ==
  \A t \in Requests :
    /\ posted[t] = IF WasConfirmed(t) THEN 1 ELSE 0
    /\ t \in receipts <=> WasConfirmed(t)

\* The fee stamped at AUTHORIZED is the third leg of the journal for payments
\* that the orchestrator confirms, and for those only: a payment confirmed by
\* recovery keeps the stamp and loses the leg.
FeeIsPostedUnlessRecovered ==
  feeLegs = {t \in Requests : /\ WasConfirmed(t)
                              /\ tx[t].fee
                              /\ "CREDITED" \notin probes[t]}

\* A payment rejected on the participant's word, in the answer to the credit
\* leg or to a probe, has not been credited, unless an operator ran its
\* credit leg again.
DeclinedWasNotCredited ==
  \A t \in Requests \ reruns :
    tx[t].reason \in {"REFUSED", "NOT_CREDITED"} => participant[t] # "executed"

\* However often and however concurrently an envelope is submitted, it has
\* one payment row, and one open orchestrator transaction at most.
OnePaymentPerEnvelope ==
  \A e \in Envelopes :
    /\ Cardinality(RowsOf(e)) <= 1
    /\ \A r, s \in Requests :
         (call[r].pc = "crediting" /\ call[r].envelope = e /\
          call[s].pc = "crediting" /\ call[s].envelope = e) => r = s

\* Two operators reversing the same payment: one confirmed reversal, which
\* the original names, and an original that is CONFIRMED has none.
OneReversalPerPayment ==
  \A o \in Requests :
    {r \in Requests : tx[r].original = o /\ tx[r].state = "CONFIRMED"}
      = IF tx[o].state = "REVERSED" THEN {tx[o].link} ELSE {}

\* What is booked beside a payment, its fee and its reversal, follows it.
BookingsFollowPayments == FeeIsPostedUnlessRecovered /\ OneReversalPerPayment

\* Workers that race over one transaction, and passes whose decision is
\* rolled back, overshoot the retry policy by no more than their number.
AttemptsBounded ==
  \A t \in Requests :
    tx[t].attempts <= MaxAttempts + Cardinality(Workers) - 1 + faults

\* Giving up (FAILED, or REJECTED for a participant that keeps answering
\* pending) takes a full schedule of probes, none of them conclusive.
GivesUpOnlyWhenExhausted ==
  \A t \in Requests :
    tx[t].reason \in {"EXHAUSTED", "TIMEOUT"} =>
      /\ tx[t].attempts >= MaxAttempts
      /\ probes[t] \cap {"CREDITED", "NOT_CREDITED"} = {}
      /\ probes[t] # {}

\* Recovery tries as often as its schedule says, and then gives up.
RetriesFollowThePolicy == AttemptsBounded /\ GivesUpOnlyWhenExhausted

\* A final state stays, except that a confirmed payment may be reversed; the
\* kill switch, late workers and resubmissions respect it.
TerminalIsFinal ==
  [][\A t \in Requests :
       isTerminal(tx[t].state) =>
         \/ tx'[t].state = tx[t].state
         \/ tx[t].state = "CONFIRMED" /\ tx'[t].state = "REVERSED" /\ tx'[t].link # None]_vars

-----------------------------------------------------------------------------
(* Liveness.                                                               *)

\* Recovery ends: no payment stays in PENDING_RECONCILIATION, whatever the
\* participant answers or does not answer.
RecoveryTerminates ==
  \A t \in Requests :
    tx[t].state = "PENDING_RECONCILIATION" ~> isTerminal(tx[t].state)

-----------------------------------------------------------------------------
(* The detailed specification implements InstantPayment and PaymentPort.   *)

PhaseOf(state) ==
  CASE state = "ABSENT"    -> "absent"
    [] state = "CONFIRMED" -> "settled"
    [] state = "REVERSED"  -> "unwound"
    [] state \in {"REJECTED", "FAILED"} -> "declined"
    [] OTHER               -> "open"

Promise == INSTANCE InstantPayment WITH
  Instructions <- Requests,
  phase        <- [t \in Requests |-> PhaseOf(tx[t].state)],
  executed     <- {t \in Requests : participant[t] = "executed"},
  booked       <- posted

\* What the callers of the orchestrator rely on: a key's transaction, which is
\* none to them while it is only ingested, and which they do not see reversed.
AsSeen(state) ==
  CASE state \in {"CONFIRMED", "REVERSED"} -> "CONFIRMED"
    [] state \in {"REJECTED", "FAILED"}    -> "REJECTED"
    [] state = "PENDING_RECONCILIATION"    -> state
    [] OTHER                               -> "NONE"

Port == INSTANCE PaymentPort WITH
  Keys <- Envelopes,
  tx   <- [e \in Envelopes |-> IF RowsOf(e) = {} THEN "NONE"
                               ELSE AsSeen(tx[CHOOSE t \in RowsOf(e) : TRUE].state)]

\* Every behaviour of the orchestrator, the workers, the kill switch and
\* reversals is a behaviour of the promise, and one that the overlays, which
\* are modelled on top of the port, have been told to expect.
ImplementsItsPromises == Promise!Spec /\ Port!PortSpec

\* For TLC: calls, envelopes and workers are interchangeable.
Symmetry == Permutations(Requests) \cup Permutations(Envelopes) \cup Permutations(Workers)

=============================================================================
