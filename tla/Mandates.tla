------------------------------ MODULE Mandates ------------------------------
(***************************************************************************)
(* One mandate of modules/overlays-mandates: a payer lets a payee, or the  *)
(* scheduler, debit an account under caps, until the mandate is paused,    *)
(* revoked or exhausted.                                                   *)
(*                                                                         *)
(* A debit is three database transactions with other people's work in      *)
(* between: the caps are checked on a row that nobody locks, the           *)
(* orchestrator pays, and the debit is booked.  Revoking, pausing and      *)
(* resuming read the row, look at its state and then write another one.    *)
(*                                                                         *)
(* Mandates share no row, so one of them is modelled.  The payment of a    *)
(* debit has the phases that InstantPayment promises.                      *)
(***************************************************************************)
EXTENDS Integers, FiniteSets, Functions

CONSTANTS Debits,       \* calls of presentDebit
          Amounts,      \* amounts that the payee may present
          PerDebitCap, DailyCap, TotalCap,
          TimeBased,    \* the frequency is not AS_PRESENTED
          \* Bounds of the instance:
          MaxDay,
          MaxChanges,   \* writes by revoke, pause and resume
          MaxFaults

ASSUME CapsAssumption ==
  /\ Amounts \subseteq Nat \ {0}
  /\ {PerDebitCap, DailyCap, TotalCap} \subseteq Nat \ {0}
  /\ TimeBased \in BOOLEAN

ASSUME BoundsAssumption == {MaxDay, MaxChanges, MaxFaults} \subseteq Nat

VARIABLES
  mandate,      \* the row of mandates
  day,          \* the UTC date
  debit,        \* presentations: where they are, what they saw and logged
  payment,      \* phase of each debit's payment
  passed,       \* operations whose test of the state has passed
  changes, faults,
  overtaken,    \* history: debits that others have booked behind
  overwritten,  \* history: a state was written over another than the one read
  revoked       \* history: revoke() has committed

vars == <<mandate, day, debit, payment, passed, changes, faults, overtaken, overwritten, revoked>>
world == <<day, payment, passed, changes, faults, overwritten, revoked>>

STATES == {"ACTIVE", "PAUSED", "REVOKED", "EXHAUSTED"}
TERMINAL_STATES == {"REVOKED", "EXHAUSTED"}

Never == MaxDay + 2     \* next_scheduled_at is NULL

Results == {"NONE", "SUCCESS", "CAP_BREACH", "PAUSED", "OTHER"}

Phases == {"NONE", "REJECTED", "PENDING", "CONFIRMED"}

Debit == [pc     : {"idle", "picked", "passed", "answered", "done"},
          amount : Amounts \cup {0, PerDebitCap},
          answer : Phases,      \* of the orchestrator
          result : Results,     \* of its row in mandate_debits
          day    : 0 .. MaxDay] \* of the same row

Init ==
  /\ mandate = [state |-> "ACTIVE", total |-> 0, next |-> IF TimeBased THEN 1 ELSE Never]
  /\ day = 0
  /\ debit = [d \in Debits |-> [pc |-> "idle", amount |-> 0, answer |-> "NONE",
                                result |-> "NONE", day |-> 0]]
  /\ payment = [d \in Debits |-> "NONE"]
  /\ passed = {}
  /\ changes = 0
  /\ faults = 0
  /\ overtaken = {}
  /\ overwritten = FALSE
  /\ revoked = FALSE

-----------------------------------------------------------------------------
(* presentDebit                                                            *)

\* The scheduler's pick ends before the row is worked on.
PickDue(d) ==
  /\ debit[d].pc = "idle"
  /\ mandate.state = "ACTIVE"
  /\ mandate.next <= day
  /\ debit' = [debit EXCEPT ![d].pc = "picked", ![d].amount = PerDebitCap]
  /\ UNCHANGED <<mandate, world, overtaken>>

Successes == {d \in Debits : debit[d].result = "SUCCESS"}

\* SUM(amount_minor) over rows of mandate_debits.
AmountsOf(debits) == SumFunctionOnSet([d \in Debits |-> debit[d].amount], debits)

\* The amounts of the SUCCESS rows of a date.
Debited(date) == AmountsOf({d \in Successes : debit[d].day = date})

\* Mutant: the sums are compared without the amount presented.
checkCapsLate(amount) ==
  /\ amount <= PerDebitCap
  /\ Debited(day) < DailyCap
  /\ mandate.total < TotalCap

checkCaps(amount) ==
  /\ amount <= PerDebitCap
  /\ Debited(day) + amount <= DailyCap
  /\ mandate.total + amount <= TotalCap

\* Mutant: only the states of the scheduler's own making end a mandate.
MayDebitUnlessExhausted == mandate.state \notin {"EXHAUSTED", "PAUSED"}

MayDebit == mandate.state \notin TERMINAL_STATES \cup {"PAUSED"}

Presents(d, amount) ==
  \/ debit[d].pc = "idle" /\ amount \in Amounts
  \/ debit[d].pc = "picked" /\ amount = debit[d].amount

PreCheckPasses(d, amount) ==
  /\ Presents(d, amount)
  /\ MayDebit
  /\ checkCaps(amount)
  /\ debit' = [debit EXCEPT ![d].pc = "passed", ![d].amount = amount]
  /\ UNCHANGED <<mandate, world, overtaken>>

\* A refusal is logged on a connection of its own.
PreCheckFails(d, amount) ==
  LET result == CASE mandate.state \in TERMINAL_STATES -> "OTHER"
                  [] mandate.state = "PAUSED" -> "PAUSED"
                  [] OTHER -> "CAP_BREACH"
  IN
  /\ Presents(d, amount)
  /\ ~(MayDebit /\ checkCaps(amount))
  /\ debit' = [debit EXCEPT ![d] = [pc |-> "done", amount |-> amount, answer |-> "NONE",
                                    result |-> result, day |-> day]]
  /\ UNCHANGED <<mandate, world, overtaken>>

\* The orchestrator's answer: final, or a payment left to recovery.
Pays(d) ==
  /\ debit[d].pc = "passed"
  /\ \E answer \in Phases \ {"NONE"} :
       /\ payment' = [payment EXCEPT ![d] = answer]
       /\ debit' = [debit EXCEPT ![d].pc = "answered", ![d].answer = answer]
  /\ UNCHANGED <<mandate, day, passed, changes, faults, overtaken, overwritten, revoked>>

\* Recovery decides, and tells nobody here.
PaymentEnds(d) ==
  /\ payment[d] = "PENDING"
  /\ \E outcome \in {"CONFIRMED", "REJECTED"} :
       payment' = [payment EXCEPT ![d] = outcome]
  /\ UNCHANGED <<mandate, day, debit, passed, changes, faults, overtaken, overwritten, revoked>>

Logged(d, result) ==
  debit' = [debit EXCEPT ![d].pc = "done", ![d].result = result, ![d].day = day]

\* Mutant: the state that was checked is written back.
BooksActive(d) ==
  LET total == mandate.total + debit[d].amount
      spent == total >= TotalCap
  IN mandate' = [state |-> IF spent THEN "EXHAUSTED" ELSE "ACTIVE",
                 total |-> total,
                 next  |-> IF spent THEN Never ELSE IF TimeBased THEN day + 1 ELSE mandate.next]

\* Mutants: EXHAUSTED one unit late; the schedule counted on from its own
\* last date, which may be NULL.
BooksPastTheCap(d) ==
  LET total == mandate.total + debit[d].amount
      spent == total > TotalCap
  IN mandate' = [state |-> IF spent THEN "EXHAUSTED" ELSE mandate.state,
                 total |-> total,
                 next  |-> IF spent THEN Never ELSE IF TimeBased THEN day + 1 ELSE mandate.next]

BooksNextPeriod(d) ==
  LET total == mandate.total + debit[d].amount
      spent == total >= TotalCap
  IN mandate' = [state |-> IF spent THEN "EXHAUSTED" ELSE mandate.state,
                 total |-> total,
                 next  |-> IF spent THEN Never ELSE mandate.next + 1]

\* applyDebitTotals locks the row and adds to it; the schedule and EXHAUSTED
\* follow in the same transaction.
Books(d) ==
  LET total == mandate.total + debit[d].amount
      spent == total >= TotalCap
  IN mandate' = [state |-> IF spent THEN "EXHAUSTED" ELSE mandate.state,
                 total |-> total,
                 next  |-> IF spent THEN Never ELSE IF TimeBased THEN day + 1 ELSE mandate.next]

\* Mutant: a payment that is not rejected counts as made.
SucceededUnlessRejected(d) == debit[d].answer # "REJECTED"

Succeeded(d) == debit[d].answer = "CONFIRMED"

BookSuccess(d) ==
  /\ debit[d].pc = "answered"
  /\ Succeeded(d)
  /\ Logged(d, "SUCCESS")
  /\ Books(d)
  /\ overtaken' = overtaken \cup {e \in Debits \ {d} : debit[e].pc \in {"passed", "answered"}}
  /\ UNCHANGED world

BookFailure(d) ==
  /\ debit[d].pc = "answered"
  /\ ~Succeeded(d)
  /\ Logged(d, "OTHER")
  /\ UNCHANGED <<mandate, world, overtaken>>

\* A crash or an error: nothing is logged, whatever has been paid.
PresentFails(d) ==
  /\ debit[d].pc \in {"picked", "passed", "answered"}
  /\ faults < MaxFaults
  /\ faults' = faults + 1
  /\ debit' = [debit EXCEPT ![d].pc = "done"]
  /\ UNCHANGED <<mandate, day, payment, passed, changes, overtaken, overwritten, revoked>>

-----------------------------------------------------------------------------
(* revoke, pause and resume: a test, then a write by key.                  *)

Operations == {"revoke", "pause", "resume"}

From(op) == CASE op = "revoke" -> STATES \ TERMINAL_STATES
              [] op = "pause"  -> {"ACTIVE"}
              [] op = "resume" -> {"PAUSED"}

To(op) == CASE op = "revoke" -> "REVOKED"
            [] op = "pause"  -> "PAUSED"
            [] op = "resume" -> "ACTIVE"

TestPasses(op) ==
  /\ mandate.state \in From(op)
  /\ passed' = passed \cup {op}
  /\ UNCHANGED <<mandate, day, debit, payment, changes, faults, overtaken, overwritten, revoked>>

Writes(op) ==
  /\ op \in passed
  /\ changes < MaxChanges
  /\ changes' = changes + 1
  /\ passed' = passed \ {op}
  /\ mandate' = [mandate EXCEPT !.state = To(op),
                                !.next = IF op = "revoke" THEN Never ELSE @]
  /\ overwritten' = (overwritten \/ mandate.state \notin From(op))
  /\ revoked' = (revoked \/ op = "revoke")
  /\ UNCHANGED <<day, debit, payment, faults, overtaken>>

NextDay ==
  /\ day < MaxDay
  /\ day' = day + 1
  /\ UNCHANGED <<mandate, debit, payment, passed, changes, faults, overtaken, overwritten, revoked>>

-----------------------------------------------------------------------------

presentDebit(d) ==
  \/ \E amount \in Amounts \cup {PerDebitCap} : PreCheckPasses(d, amount) \/ PreCheckFails(d, amount)
  \/ Pays(d)
  \/ BookSuccess(d)
  \/ BookFailure(d)
  \/ PresentFails(d)

Next ==
  \/ \E d \in Debits : PickDue(d) \/ presentDebit(d) \/ PaymentEnds(d)
  \/ \E op \in Operations : TestPasses(op) \/ Writes(op)
  \/ NextDay

Spec == Init /\ [][Next]_vars

-----------------------------------------------------------------------------

TypeOK ==
  /\ mandate \in [state : STATES, total : Nat, next : 0 .. Never]
  /\ day \in 0 .. MaxDay
  /\ debit \in [Debits -> Debit]
  /\ payment \in [Debits -> Phases]
  /\ passed \subseteq Operations
  /\ changes \in 0 .. MaxChanges
  /\ faults \in 0 .. MaxFaults
  /\ overtaken \subseteq Debits
  /\ overwritten \in BOOLEAN
  /\ revoked \in BOOLEAN

\* The counter on the mandate, the log of debits and the payments agree:
\* whatever overlaps or fails, the total is the sum of the SUCCESS rows, and
\* each of these has been paid.
TotalIsWhatWasPaid ==
  /\ mandate.total = AmountsOf(Successes)
  /\ \A d \in Successes : payment[d] = "CONFIRMED"

\* The daily and the total cap hold, over midnight too, as long as no debit
\* is booked between the check and the booking of another.
CapsHoldUnlessOvertaken ==
  Successes \cap overtaken = {} =>
    /\ mandate.total <= TotalCap
    /\ \A date \in 0 .. MaxDay : Debited(date) <= DailyCap

\* The mandate is EXHAUSTED when, and not before, its total cap is used up,
\* unless an operator writes over the state.
ExhaustedWhenSpent ==
  /\ mandate.state = "EXHAUSTED" => mandate.total >= TotalCap
  /\ mandate.total >= TotalCap /\ ~overwritten => mandate.state \in TERMINAL_STATES

\* After a revocation no debit passes the check, as long as no pause, resume
\* or revocation lands on another state than the one it has tested.
RevokedIsSilentUnlessOverwritten ==
  [][revoked /\ ~overwritten =>
       \A d \in Debits : debit[d].pc # "passed" => debit'[d].pc # "passed"]_vars

\* Only resume() makes a mandate ACTIVE: a debit that is booked late leaves a
\* pause or a revocation in place.
OnlyResumeActivates ==
  [][mandate.state # "ACTIVE" /\ mandate'.state = "ACTIVE" => "resume" \in passed]_vars

-----------------------------------------------------------------------------
(* What a comment of the code says and the code does not do.               *)

\* model.js: "SELECT FOR UPDATE SKIP LOCKED so multiple worker shards don't
\* double-process."  (For instances where only the scheduler presents.)
DueOnceDebitedOnce ==
  \A d, e \in Successes : debit[d].day = debit[e].day => d = e

=============================================================================
