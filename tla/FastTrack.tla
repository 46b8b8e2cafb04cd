------------------------------ MODULE FastTrack ------------------------------
(***************************************************************************)
(* Fast-track reversal (modules/fast-track-reversal): the victim's bank    *)
(* asks the receiving bank to freeze the money of a confirmed payment, and *)
(* an operator later hands the payment to the reversals service.           *)
(*                                                                         *)
(* invoke() is one transaction around a call to the receiving bank, with   *)
(* one more call after a timeout.  confirmReversal() is one transaction    *)
(* around a reversal that opens and commits its own.                       *)
(*                                                                         *)
(* A reversal is one step here: it is a component of its own (Payments).   *)
(***************************************************************************)
EXTENDS Naturals, FiniteSets

CONSTANTS Payments, FastTracks, None,
          Quota       \* fastTrackInvokeMonthlyQuota, of the one victim here

ASSUME NoPayment == None \notin Payments
ASSUME QuotaAssumption == Quota \in Nat

VARIABLES
  payment,      \* state of the rows of transactions
  fastTrack,    \* rows of fast_track_reversals
  handler,      \* the open transaction on a row
  frozen        \* payments whose money the receiving bank has frozen

fvars == <<payment, fastTrack, handler, frozen>>

STATES == {"invoked", "frozen", "completed", "rejected", "expired"}

PaymentStates == {"CONFIRMED", "REVERSED"}

FastTrackRow == [state : STATES \cup {"absent"}, of : Payments \cup {None}]

\* What an open transaction has come to.  "timeout" is a first call without
\* an answer, "expired", "rejected" and "frozen" are what it will write.
Handler == [at : {"idle", "calling", "timeout", "frozen", "expired", "rejected",
                  "confirming", "handedOff"},
            of : Payments \cup {None}]

NoRow == [state |-> "absent", of |-> None]
Idle == [at |-> "idle", of |-> None]

FInit ==
  /\ payment = [p \in Payments |-> "CONFIRMED"]
  /\ fastTrack = [f \in FastTracks |-> NoRow]
  /\ handler = [f \in FastTracks |-> Idle]
  /\ frozen = {}

-----------------------------------------------------------------------------

\* reversalsService.initiate(): refused unless the payment is CONFIRMED, and
\* if it is not refused it may still end without reversing anything.
MayReverse(p) == payment[p] = "CONFIRMED"
Reverses(p, ok) == payment' = IF ok THEN [payment EXCEPT ![p] = "REVERSED"] ELSE payment

countInvocationsThisMonth == Cardinality({f \in FastTracks : fastTrack[f].state # "absent"})

Goes(f, at) == handler' = [handler EXCEPT ![f].at = at]

\* The tests and the row, which nobody sees before the commit.
invoke(f, p) ==
  /\ fastTrack[f].state = "absent" /\ handler[f].at = "idle"
  /\ payment[p] = "CONFIRMED"
  /\ countInvocationsThisMonth < Quota
  /\ handler' = [handler EXCEPT ![f] = [at |-> "calling", of |-> p]]
  /\ UNCHANGED <<payment, fastTrack, frozen>>

\* A bank that does not answer, or whose answer is lost, may have frozen.
callFreeze(f) ==
  /\ handler[f].at \in {"calling", "timeout"}
  /\ \/ frozen' = frozen \cup {handler[f].of} /\ Goes(f, "frozen")
     \/ frozen' = frozen /\ Goes(f, "rejected")
     \/ /\ frozen' \in {frozen, frozen \cup {handler[f].of}}
        /\ \/ Goes(f, "rejected")
           \/ Goes(f, IF handler[f].at = "calling" THEN "timeout" ELSE "expired")
  /\ UNCHANGED <<payment, fastTrack>>

FreezeAnswered(f) ==
  /\ handler[f].at \in {"frozen", "expired", "rejected"}
  /\ fastTrack' = [fastTrack EXCEPT ![f] = [state |-> handler[f].at, of |-> handler[f].of]]
  /\ handler' = [handler EXCEPT ![f] = Idle]
  /\ UNCHANGED <<payment, frozen>>

\* Of two confirmations of one row the second is refused by the reversal, so
\* that one at a time is enough.
confirmReversal(f) ==
  /\ fastTrack[f].state = "frozen" /\ handler[f].at = "idle"
  /\ handler' = [handler EXCEPT ![f] = [at |-> "confirming", of |-> fastTrack[f].of]]
  /\ UNCHANGED <<payment, fastTrack, frozen>>

\* The reversal commits; it is handed back whether or not it reversed.
HandsOff(f) ==
  /\ handler[f].at = "confirming"
  /\ MayReverse(handler[f].of)
  /\ \E ok \in BOOLEAN : Reverses(handler[f].of, ok)
  /\ Goes(f, "handedOff")
  /\ UNCHANGED <<fastTrack, frozen>>

Completes(f) ==
  /\ handler[f].at = "handedOff"
  /\ fastTrack' = [fastTrack EXCEPT ![f].state = "completed"]
  /\ handler' = [handler EXCEPT ![f] = Idle]
  /\ UNCHANGED <<payment, frozen>>

\* An error or a crash before the commit: what the bank has frozen stays
\* frozen, and what was reversed stays reversed.
HandlerFails(f) ==
  /\ handler[f].at # "idle"
  /\ handler' = [handler EXCEPT ![f] = Idle]
  /\ UNCHANGED <<payment, fastTrack, frozen>>

FNext ==
  \E f \in FastTracks :
    \/ \E p \in Payments : invoke(f, p)
    \/ callFreeze(f)
    \/ FreezeAnswered(f)
    \/ confirmReversal(f)
    \/ HandsOff(f)
    \/ Completes(f)
    \/ HandlerFails(f)

-----------------------------------------------------------------------------

FTypeOK ==
  /\ payment \in [Payments -> PaymentStates]
  /\ fastTrack \in [FastTracks -> FastTrackRow]
  /\ handler \in [FastTracks -> Handler]
  /\ frozen \subseteq Payments

\* The text of the service and its test: confirming walks the reversal, and
\* the completed row stands for a payment that was unwound to REVERSED.
CompletedWasReversed ==
  \A f \in FastTracks :
    fastTrack[f].state = "completed" => payment[fastTrack[f].of] = "REVERSED"

=============================================================================
