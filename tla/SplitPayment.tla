---------------------------- MODULE SplitPayment ----------------------------
(***************************************************************************)
(* One split payment (modules/overlays-split): a payer pays several        *)
(* beneficiaries, one payment for each leg, one after the other in one     *)
(* call, and the split is COMPLETED if every leg was confirmed.            *)
(***************************************************************************)
EXTENDS PaymentPort, Naturals

CONSTANT LegCount

Legs == 1 .. LegCount   \* and the keys of their payments: Keys = Legs

VARIABLES
  split,        \* the row of split_instructions
  leg,          \* result of each row of split_legs
  dispatch,     \* the call
  unheard       \* history: legs that were not told of their payment

svars == <<tx, split, leg, dispatch, unheard>>

SPLIT_STATES == {"ABSENT", "INITIATED", "COMPLETED", "FAILED"}
Results == {"NONE", "SUCCESS", "FAILED"}

Dispatch == [at     : {"idle", "paying", "answered", "done"},
             leg    : 1 .. LegCount + 1,
             answer : Answers,
             failed : BOOLEAN]          \* firstFailure

NoCall == [at |-> "idle", leg |-> 1, answer |-> "ERROR", failed |-> FALSE]

Init ==
  /\ PortInit
  /\ split = "ABSENT"
  /\ leg = [l \in Legs |-> "NONE"]
  /\ dispatch = NoCall
  /\ unheard = {}

Starts ==
  /\ split = "ABSENT"
  /\ split' = "INITIATED"
  /\ dispatch' = [NoCall EXCEPT !.at = "paying"]
  /\ UNCHANGED <<tx, leg, unheard>>

\* The legs are paid in their order, whatever became of those before.
PaysLeg ==
  /\ dispatch.at = "paying" /\ dispatch.leg \in Legs
  /\ \E answer \in Answers :
       /\ process(dispatch.leg, answer)
       /\ dispatch' = [dispatch EXCEPT !.at = "answered", !.answer = answer]
       /\ unheard' = IF answer = "CONFIRMED" THEN unheard \cup {dispatch.leg} ELSE unheard
  /\ UNCHANGED <<split, leg>>

\* Mutant: only an error and a refusal are failures.
IsPaidUnlessRefused(answer) == answer \in {"CONFIRMED", "PENDING_RECONCILIATION"}

IsPaid(answer) == answer = "CONFIRMED"

setLegResult ==
  LET ok == IsPaid(dispatch.answer) IN
  /\ dispatch.at = "answered"
  /\ leg' = [leg EXCEPT ![dispatch.leg] = IF ok THEN "SUCCESS" ELSE "FAILED"]
  /\ dispatch' = [dispatch EXCEPT !.at = "paying", !.leg = @ + 1, !.failed = @ \/ ~ok]
  /\ unheard' = IF ok THEN unheard \ {dispatch.leg} ELSE unheard
  /\ UNCHANGED <<tx, split>>

\* Storing the result throws: the catch around the payment and the store takes
\* it for an error of the payment, and the leg is to be FAILED.  A payment
\* that was confirmed stays, and its leg is not told.
StoreThrows ==
  /\ dispatch.at = "answered" /\ dispatch.answer # "ERROR"
  /\ dispatch' = [dispatch EXCEPT !.answer = "ERROR"]
  /\ UNCHANGED <<tx, split, leg, unheard>>

setSplitState ==
  /\ dispatch.at = "paying" /\ dispatch.leg \notin Legs
  /\ split' = IF dispatch.failed THEN "FAILED" ELSE "COMPLETED"
  /\ dispatch' = [NoCall EXCEPT !.at = "done"]
  /\ UNCHANGED <<tx, leg, unheard>>

Dies ==
  /\ dispatch.at \in {"paying", "answered"}
  /\ dispatch' = [NoCall EXCEPT !.at = "done"]
  /\ UNCHANGED <<tx, split, leg, unheard>>

RecoversLeg(l) ==
  /\ Recovers(l)
  /\ unheard' = IF tx'[l] = "CONFIRMED" THEN unheard \cup {l} ELSE unheard
  /\ UNCHANGED <<split, leg, dispatch>>

Next ==
  \/ Starts
  \/ PaysLeg
  \/ setLegResult
  \/ StoreThrows
  \/ setSplitState
  \/ Dies
  \/ \E l \in Legs : RecoversLeg(l)

-----------------------------------------------------------------------------

TypeOK ==
  /\ PortTypeOK
  /\ split \in SPLIT_STATES
  /\ leg \in [Legs -> Results]
  /\ dispatch \in Dispatch
  /\ unheard \subseteq Legs

\* What a split and its legs say of their payments: COMPLETED if all were
\* confirmed and FAILED if not, but for legs that were not told, because the
\* call died, recovery decided, or what they were told could not be stored.
SplitTellsPayments ==
  /\ \A l \in Legs \ unheard : leg[l] = "SUCCESS" <=> tx[l] = "CONFIRMED"
  /\ split = "COMPLETED" => \A l \in Legs : tx[l] = "CONFIRMED"
  /\ split = "FAILED" => \E l \in Legs : leg[l] = "FAILED"

\* The comment on the loop: legs are dispatched serially and the first
\* failure ends it.  No leg is paid after one that has failed.
BailsOnFirstFailure ==
  \A l, k \in Legs : leg[l] = "FAILED" /\ l < k => tx[k] = "NONE"

=============================================================================
