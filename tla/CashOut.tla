------------------------------- MODULE CashOut -------------------------------
(***************************************************************************)
(* Cash-out at an agent (modules/overlays-cashout): the customer asks and  *)
(* authorizes, the agent enters the customer's one-time password, and the  *)
(* customer's account pays the agent's float.                              *)
(***************************************************************************)
EXTENDS OverlayCalls, Naturals, FiniteSets

CONSTANT cashoutOtpMaxAttempts

\* The key of a cash-out's payment is made from the request: Keys = Rows.

STATES == {"ABSENT", "INITIATED", "AUTHORIZED", "COMPLETED", "CANCELLED", "EXPIRED"}
TERMINAL_STATES == {"COMPLETED", "CANCELLED", "EXPIRED"}

CashRequest ==
  [state    : STATES,
   past     : BOOLEAN,          \* expires_at has passed
   attempts : 0 .. cashoutOtpMaxAttempts + Cardinality(Calls)]

Operations == {"authorize", "guess", "complete", "cancel", "expire", "expirePast"}

Init == CallsInit([state |-> "ABSENT", past |-> FALSE, attempts |-> 0])

initiate(r) ==
  /\ row[r].state = "ABSENT"
  /\ row' = [row EXCEPT ![r].state = "INITIATED"]
  /\ UNCHANGED <<tx, call, overtaken, unheard>>

ExpiryPasses(r) ==
  /\ row[r].state # "ABSENT" /\ ~row[r].past
  /\ row' = [row EXCEPT ![r].past = TRUE]
  /\ UNCHANGED <<tx, call, overtaken, unheard>>

\* A request that is past its time is refused; EXPIRED, written in the same
\* transaction, is rolled back by the refusal.
authorize(c, r) ==
  /\ row[r].state = "INITIATED" /\ ~row[r].past
  /\ Reads(c, "authorize", r, r, "read")

\* Mutant: a completed request may be cancelled.
MayCancelAny(r) == row[r].state \notin {"ABSENT", "EXPIRED", "CANCELLED"}

MayCancel(r) == row[r].state \notin TERMINAL_STATES \cup {"ABSENT"}

cancel(c, r) == MayCancel(r) /\ Reads(c, "cancel", r, r, "read")

expirePast(c, r) ==
  /\ row[r].state \in {"INITIATED", "AUTHORIZED"} /\ row[r].past
  /\ Reads(c, "expirePast", r, r, "read")

\* Mutant: one attempt more.
ExhaustedLate(attempts) == attempts > cashoutOtpMaxAttempts

Exhausted(attempts) == attempts >= cashoutOtpMaxAttempts

\* The tests on the copy, each with a transaction of its own for its verdict.
complete(c, r) ==
  /\ row[r].state = "AUTHORIZED"
  /\ CASE row[r].past -> Reads(c, "expire", r, r, "read")
       [] Exhausted(row[r].attempts) /\ ~row[r].past -> Reads(c, "cancel", r, r, "read")
       [] OTHER -> Reads(c, "guess", r, r, "read")

\* Counted on a connection of its own, before the password is compared with
\* that of the copy, and after the limit was.
bumpOtpAttempt(c) ==
  LET r == call[c].on IN
  /\ call[c].op = "guess" /\ call[c].step = "read"
  /\ row' = [row EXCEPT ![r].attempts = @ + 1]
  /\ \/ Ends(c)
     \/ call' = [call EXCEPT ![c].op = "complete", ![c].step = "paying"]
  /\ UNCHANGED <<tx, overtaken, unheard>>

\* A cash-out that is not confirmed stays as it is, and may be tried again.
Concludes(c) ==
  LET r == call[c].on IN
  /\ call[c].step = "answered"
  /\ IF call[c].answer = "CONFIRMED"
       THEN Writes(c, r, [row[r] EXCEPT !.state = "COMPLETED"])
       ELSE UNCHANGED <<row, overtaken>>
  /\ Hears(c)
  /\ Ends(c)
  /\ UNCHANGED tx

StateAfter(op) ==
  CASE op = "authorize" -> "AUTHORIZED"
    [] op = "cancel" -> "CANCELLED"
    [] op \in {"expire", "expirePast"} -> "EXPIRED"

WritesUnpaid(c) ==
  LET r == call[c].on IN
  /\ call[c].step = "read" /\ call[c].op # "guess"
  /\ Writes(c, r, [row[r] EXCEPT !.state = StateAfter(call[c].op)])
  /\ Ends(c)
  /\ UNCHANGED <<tx, unheard>>

Next ==
  \/ \E r \in Rows : initiate(r) \/ ExpiryPasses(r) \/ RecoversUnheard(r)
  \/ \E c \in Calls, r \in Rows :
       authorize(c, r) \/ complete(c, r) \/ cancel(c, r) \/ expirePast(c, r)
  \/ \E c \in Calls :
       bumpOtpAttempt(c) \/ Pays(c) \/ Concludes(c) \/ WritesUnpaid(c) \/ Dies(c)

-----------------------------------------------------------------------------

TypeOK == CallsTypeOK(CashRequest, Operations, STATES)

\* A cash-out is COMPLETED exactly if its payment was confirmed, unless a
\* call wrote over a state it had not read or the request has not been told.
CashTellsPayment ==
  \A r \in Rows \ (overtaken \cup unheard) : row[r].state = "COMPLETED" <=> tx[r] = "CONFIRMED"

\* Calls that overlap may try more passwords than the limit allows, but no
\* more than one for each other call in flight.
OnlyOverlapExceedsAttempts ==
  \A r \in Rows :
    LET guessing == {c \in Calls : call[c].on = r /\ call[c].op = "guess"} IN
    row[r].attempts + Cardinality(guessing) < cashoutOtpMaxAttempts + Cardinality(Calls)

=============================================================================
