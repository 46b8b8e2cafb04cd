------------------------------- MODULE Refunds -------------------------------
(***************************************************************************)
(* Refunds of one payment (modules/overlays-refunds): the bank that        *)
(* received it pays all or some of it back.  The amounts of the refunds    *)
(* that are COMPLETED are added up before the new one has a row.           *)
(***************************************************************************)
EXTENDS OverlayCalls, Naturals, Functions

CONSTANTS Amounts,      \* that may be asked for
          Original      \* the amount of the payment

\* Every refund pays with a key of its own: Keys = Rows.

REFUND_STATES == {"ABSENT", "PROCESSING", "COMPLETED", "FAILED"}

Refund == [state : REFUND_STATES, amount : Amounts \cup {0}]

Init == CallsInit([state |-> "ABSENT", amount |-> 0])

AmountsOf(refunds) == SumFunctionOnSet([r \in Rows |-> row[r].amount], refunds)

sumCompletedForOriginal == AmountsOf({r \in Rows : row[r].state = "COMPLETED"})

\* Mutant: the amount asked for is left out.
WithinOriginalSoFar(amount) == sumCompletedForOriginal < Original

WithinOriginal(amount) == sumCompletedForOriginal + amount <= Original

\* Refunds that this sum does not see and that may still be paid.
Unseen(c) ==
  \/ \E d \in Calls \ {c} : call[d].step # "idle"
  \/ \E r \in Rows : row[r].state = "PROCESSING" \/ tx[r] = "PENDING_RECONCILIATION"

\* The test, then the row.  The amount is part of the call: it is noted in
\* the row, which counts from PROCESSING on.
initiate(c, r, amount) ==
  /\ row[r] = [state |-> "ABSENT", amount |-> 0]
  /\ WithinOriginal(amount)
  /\ call[c].step = "idle"
  /\ call' = [call EXCEPT ![c] = [Idle EXCEPT !.op = "initiate", !.on = r, !.key = r,
                                              !.step = "read"]]
  /\ row' = [row EXCEPT ![r].amount = amount]
  /\ overtaken' = IF Unseen(c) THEN overtaken \cup {r} ELSE overtaken
  /\ UNCHANGED <<tx, unheard>>

insert(c) ==
  /\ call[c].step = "read"
  /\ row' = [row EXCEPT ![call[c].on].state = "PROCESSING"]
  /\ call' = [call EXCEPT ![c].step = "paying", ![c].seen = "PROCESSING"]
  /\ UNCHANGED <<tx, overtaken, unheard>>

\* Mutant: what recovery has in hand counts as paid.
OutcomeIfNotRefused(answer) == IF answer = "REJECTED" THEN "FAILED" ELSE "COMPLETED"

Outcome(answer) == IF answer = "CONFIRMED" THEN "COMPLETED" ELSE "FAILED"

Concludes(c) ==
  LET r == call[c].on IN
  /\ call[c].step = "answered"
  /\ Writes(c, r, [row[r] EXCEPT !.state = Outcome(call[c].answer)])
  /\ Hears(c)
  /\ Ends(c)
  /\ UNCHANGED tx

Next ==
  \/ \E r \in Rows : RecoversUnheard(r)
  \/ \E c \in Calls, r \in Rows, amount \in Amounts : initiate(c, r, amount)
  \/ \E c \in Calls : insert(c) \/ Pays(c) \/ Concludes(c) \/ Dies(c)

-----------------------------------------------------------------------------

TypeOK == CallsTypeOK(Refund, {"initiate"}, REFUND_STATES)

\* A refund is COMPLETED exactly if it was paid, unless its row has not been
\* told.
RefundTellsPayment ==
  \A r \in Rows \ unheard : row[r].state = "COMPLETED" <=> tx[r] = "CONFIRMED"

\* The refunds of a payment that were paid do not exceed it, as long as none
\* was asked for while another was open, in recovery or lost.
RefundedWithinOriginal ==
  overtaken \cup unheard = {} =>
    AmountsOf({r \in Rows : tx[r] = "CONFIRMED"}) <= Original

=============================================================================
