----------------------------- MODULE PaymentPort -----------------------------
(***************************************************************************)
(* What an overlay sees of the orchestrator: it is handed an envelope with *)
(* an idempotency key and answers with the transaction of that key.        *)
(* Payments models what happens inside; here a call is one step, because   *)
(* calls with one key wait for one another at the envelope's unique index. *)
(* A transaction that recovery has given up (FAILED) is one that was not   *)
(* paid, and is called REJECTED here.  Reversals are left out.             *)
(***************************************************************************)
CONSTANT Keys           \* idempotency keys

VARIABLE tx             \* transactions by idempotency key

TxStates == {"NONE", "CONFIRMED", "REJECTED", "PENDING_RECONCILIATION"}

\* What a call may be answered: a state, or an error.
Answers == (TxStates \ {"NONE"}) \cup {"ERROR"}

PortInit == tx = [k \in Keys |-> "NONE"]

\* The first call decides or leaves the payment to recovery.  A later one is
\* told what was decided; a payment that recovery has in hand is declined by
\* an authorization that fails now, and otherwise the call throws.  A call
\* that throws has stored nothing.
process(k, answer) ==
  \/ /\ tx[k] = "NONE"
     /\ answer \in TxStates \ {"NONE"}
     /\ tx' = [tx EXCEPT ![k] = answer]
  \/ /\ tx[k] \in {"CONFIRMED", "REJECTED"}
     /\ answer = tx[k]
     /\ UNCHANGED tx
  \/ /\ tx[k] = "PENDING_RECONCILIATION"
     /\ answer = "REJECTED"
     /\ tx' = [tx EXCEPT ![k] = "REJECTED"]
  \/ /\ answer = "ERROR"
     /\ tx[k] \in {"NONE", "PENDING_RECONCILIATION"}
     /\ UNCHANGED tx

\* Recovery decides, and tells no overlay.
Recovers(k) ==
  /\ tx[k] = "PENDING_RECONCILIATION"
  /\ \E decided \in {"CONFIRMED", "REJECTED"} : tx' = [tx EXCEPT ![k] = decided]

PortNext == \E k \in Keys : (\E answer \in Answers : process(k, answer)) \/ Recovers(k)
PortSpec == PortInit /\ [][PortNext]_tx

PortTypeOK == tx \in [Keys -> TxStates]

=============================================================================
