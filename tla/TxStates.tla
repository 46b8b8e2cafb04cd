------------------------------ MODULE TxStates ------------------------------
(***************************************************************************)
(* The transaction state machine of modules/transactions/states.js: the    *)
(* states, the edges between them, and canTransition, which every state    *)
(* change of every module goes through.                                    *)
(***************************************************************************)

STATES == {"RECEIVED", "AUTHORIZED", "ROUTED", "CREDIT_LEG_PENDING",
           "CONFIRMED", "REJECTED", "PENDING_RECONCILIATION", "FAILED",
           "REVERSED"}

TERMINAL_STATES == {"CONFIRMED", "REJECTED", "REVERSED", "FAILED"}

isTerminal(s) == s \in TERMINAL_STATES

VALID_TRANSITIONS ==
  [RECEIVED               |-> {"AUTHORIZED", "REJECTED"},
   AUTHORIZED             |-> {"ROUTED", "REJECTED"},
   ROUTED                 |-> {"CREDIT_LEG_PENDING", "REJECTED"},
   CREDIT_LEG_PENDING     |-> {"CONFIRMED", "REJECTED", "PENDING_RECONCILIATION"},
   PENDING_RECONCILIATION |-> {"CONFIRMED", "REJECTED", "FAILED"},
   CONFIRMED              |-> {"REVERSED"},
   REJECTED               |-> {},
   REVERSED               |-> {},
   FAILED                 |-> {}]

\* The kill switch may reject from any state that is not terminal; every
\* other change follows an edge.
canTransition(from, to) ==
  \/ to = "REJECTED" /\ ~isTerminal(from)
  \/ to \in VALID_TRANSITIONS[from]

=============================================================================
