---------------------------- MODULE RequestToPay ----------------------------
(***************************************************************************)
(* Requests to pay (modules/overlays-r2p): a payee asks, the payer         *)
(* authorizes, which pays, or rejects, and what is not answered expires.   *)
(***************************************************************************)
EXTENDS OverlayCalls

\* The key of a request's payment is made from the request: Keys = Rows.

STATES == {"ABSENT", "PENDING", "PAID", "REJECTED", "EXPIRED"}
TERMINAL_STATES == {"PAID", "REJECTED", "EXPIRED"}

Request == [state : STATES, past : BOOLEAN]     \* expires_at has passed

Operations == {"authorize", "reject", "expire", "expirePending"}

Init == CallsInit([state |-> "ABSENT", past |-> FALSE])

isTerminal(state) == state \in TERMINAL_STATES

\* A second call with the idempotency key finds the request.
create(r) ==
  /\ row[r].state = "ABSENT"
  /\ row' = [row EXCEPT ![r].state = "PENDING"]
  /\ UNCHANGED <<tx, call, overtaken, unheard>>

ExpiryPasses(r) ==
  /\ row[r].state # "ABSENT" /\ ~row[r].past
  /\ row' = [row EXCEPT ![r].past = TRUE]
  /\ UNCHANGED <<tx, call, overtaken, unheard>>

IsOpen(r) == row[r].state # "ABSENT" /\ ~isTerminal(row[r].state)

\* An open request that is past its time is not paid but expired.
authorize(c, r) ==
  /\ IsOpen(r)
  /\ IF row[r].past THEN Reads(c, "expire", r, r, "read")
                    ELSE Reads(c, "authorize", r, r, "paying")

reject(c, r) == IsOpen(r) /\ Reads(c, "reject", r, r, "read")

\* One statement; if it has to wait for a row, it does not look at the state
\* of the row again.
expirePending(c, r) ==
  /\ row[r].state = "PENDING" /\ row[r].past
  /\ Reads(c, "expirePending", r, r, "read")

\* Mutant: what recovery has in hand counts as paid.
OutcomeIfNotRefused(answer) == IF answer = "REJECTED" THEN "REJECTED" ELSE "PAID"

\* PENDING goes to PAID through AUTHORIZED, in one transaction.  What is
\* not confirmed is REJECTED, for good, even if recovery has it in hand.
Outcome(answer) == IF answer = "CONFIRMED" THEN "PAID" ELSE "REJECTED"

Concludes(c) ==
  LET r == call[c].on IN
  /\ call[c].step = "answered"
  /\ Writes(c, r, [row[r] EXCEPT !.state = Outcome(call[c].answer)])
  /\ Hears(c)
  /\ Ends(c)
  /\ UNCHANGED tx

WritesUnpaid(c) ==
  LET r == call[c].on
      state == IF call[c].op = "reject" THEN "REJECTED" ELSE "EXPIRED" IN
  /\ call[c].step = "read"
  /\ Writes(c, r, [row[r] EXCEPT !.state = state])
  /\ Ends(c)
  /\ UNCHANGED <<tx, unheard>>

Next ==
  \/ \E r \in Rows : create(r) \/ ExpiryPasses(r) \/ RecoversUnheard(r)
  \/ \E c \in Calls, r \in Rows : authorize(c, r) \/ reject(c, r) \/ expirePending(c, r)
  \/ \E c \in Calls : Pays(c) \/ Concludes(c) \/ WritesUnpaid(c) \/ Dies(c)

-----------------------------------------------------------------------------

TypeOK == CallsTypeOK(Request, Operations, STATES)

\* A request is PAID exactly if its payment was confirmed, whatever calls
\* overlapped, unless one wrote over a state it had not read or the request
\* has not been told of its payment.
RequestTellsPayment ==
  \A r \in Rows \ (overtaken \cup unheard) : row[r].state = "PAID" <=> tx[r] = "CONFIRMED"

=============================================================================
