----------------------------- MODULE QrPayments -----------------------------
(***************************************************************************)
(* QR codes of merchants (modules/overlays-qr).  A dynamic code carries an *)
(* amount and is meant to be paid once; a static one is paid as often as   *)
(* it is shown, until it is revoked.                                       *)
(*                                                                         *)
(* pay() is one transaction around a payment that commits its own: the row *)
(* is read without a lock, and CONSUMED is written after the payment.      *)
(***************************************************************************)
EXTENDS OverlayCalls, Naturals, FiniteSets

CONSTANTS Payers        \* participants of the payers

\* The key of a payment is made from the code and its reference, and is one
\* of the payer's participant: Keys = Payers \X Rows.

STATES == {"ABSENT", "ACTIVE", "CONSUMED", "REVOKED"}
QR_TYPES == {"STATIC", "DYNAMIC"}

Code == [state : STATES, type : QR_TYPES, past : BOOLEAN]       \* expires_at has passed

Operations == {"pay", "payStatic", "revoke"}

Init == CallsInit([state |-> "ABSENT", type |-> "STATIC", past |-> FALSE])

Creates(q, type) ==
  /\ row[q].state = "ABSENT"
  /\ row' = [row EXCEPT ![q].state = "ACTIVE", ![q].type = type]
  /\ UNCHANGED <<tx, call, overtaken, unheard>>

createStatic(q) == Creates(q, "STATIC")
createDynamic(q) == Creates(q, "DYNAMIC")

ExpiryPasses(q) ==
  /\ row[q].type = "DYNAMIC" /\ ~row[q].past
  /\ row' = [row EXCEPT ![q].past = TRUE]
  /\ UNCHANGED <<tx, call, overtaken, unheard>>

\* Mutant: a consumed code may be paid.
MayPayUnlessRevoked(q) == row[q].state \in {"ACTIVE", "CONSUMED"} /\ ~row[q].past

\* EXPIRED, written just before the refusal, is rolled back by it.
MayPay(q) == row[q].state = "ACTIVE" /\ ~row[q].past

pay(c, q, payer) ==
  /\ row[q].type = "DYNAMIC"
  /\ MayPay(q)
  /\ Reads(c, "pay", q, <<payer, q>>, "paying")

\* A static code's payment has a key of its own, and leaves the code alone.
payStatic(c, q) ==
  /\ row[q].type = "STATIC"
  /\ MayPay(q)
  /\ Reads(c, "payStatic", q, None, "read")

Consumes(c) ==
  LET q == call[c].on IN
  /\ call[c].step = "answered"
  /\ IF call[c].answer = "CONFIRMED"
       THEN Writes(c, q, [row[q] EXCEPT !.state = "CONSUMED"])
       ELSE UNCHANGED <<row, overtaken>>
  /\ Hears(c)
  /\ Ends(c)
  /\ UNCHANGED tx

revoke(c, q) ==
  /\ row[q].type = "STATIC" /\ row[q].state = "ACTIVE"
  /\ Reads(c, "revoke", q, None, "read")

Revokes(c) ==
  LET q == call[c].on IN
  /\ call[c].op = "revoke"
  /\ Writes(c, q, [row[q] EXCEPT !.state = "REVOKED"])
  /\ Ends(c)
  /\ UNCHANGED <<tx, unheard>>

StaticPaid(c) ==
  /\ call[c].op = "payStatic"
  /\ Ends(c)
  /\ UNCHANGED <<tx, row, overtaken, unheard>>

Next ==
  \/ \E q \in Rows : createStatic(q) \/ createDynamic(q) \/ ExpiryPasses(q)
  \/ \E q \in Rows, payer \in Payers : RecoversUnheard(<<payer, q>>)
  \/ \E c \in Calls, q \in Rows :
       payStatic(c, q) \/ revoke(c, q) \/ \E payer \in Payers : pay(c, q, payer)
  \/ \E c \in Calls : Pays(c) \/ Consumes(c) \/ Revokes(c) \/ StaticPaid(c) \/ Dies(c)

-----------------------------------------------------------------------------

TypeOK == CallsTypeOK(Code, Operations, STATES)

PaidBy(q) == {payer \in Payers : tx[<<payer, q>>] = "CONFIRMED"}

\* A dynamic code that no two calls have consumed and that has been told of
\* its payments was paid by one payer if it is CONSUMED, and by none if not.
CodeTellsPayment ==
  \A q \in Rows \ overtaken :
    unheard \cap (Payers \X {q}) = {} => Cardinality(PaidBy(q)) = IF row[q].state = "CONSUMED" THEN 1 ELSE 0

\* The comment on pay(): the outer transaction prevents that two concurrent
\* payers consume one dynamic code.
DynamicPaidOnce == \A q \in Rows : Cardinality(PaidBy(q)) <= 1

=============================================================================
