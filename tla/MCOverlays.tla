----------------------------- MODULE MCOverlays -----------------------------
(***************************************************************************)
(* The overlays for TLC.  They share no row, and each pays with keys of    *)
(* its own, so that a behaviour is one of one overlay: the initial state   *)
(* chooses which.                                                          *)
(***************************************************************************)
EXTENDS Mandates, Escrow, TLC

CONSTANTS Requests, Refunded, Payers, Calls, RefundCalls, Original, LegCount,
          cashoutOtpMaxAttempts

ASSUME CallsAreFinite == IsFiniteSet(Calls)
ASSUME LimitsAssumption ==
  /\ cashoutOtpMaxAttempts \in Nat \ {0}
  /\ {Original, LegCount} \subseteq Nat

VARIABLES overlay, tx, row, call, overtakenRows, unheard, split, leg, dispatch

ownCalls == <<row, call, overtakenRows>>
ownSplit == <<split, leg, dispatch>>
shared == <<tx, unheard>>
uvars == <<overlay, vars, evars, ownCalls, ownSplit, shared>>

R2P == INSTANCE RequestToPay WITH Keys <- Requests, Rows <- Requests, overtaken <- overtakenRows
QR == INSTANCE QrPayments WITH Keys <- Payers \X Requests, Rows <- Requests, overtaken <- overtakenRows
Cash == INSTANCE CashOut WITH Keys <- Requests, Rows <- Requests, overtaken <- overtakenRows
Refund == INSTANCE Refunds WITH Keys <- Refunded, Rows <- Refunded, Calls <- RefundCalls,
            overtaken <- overtakenRows
Split == INSTANCE SplitPayment WITH Keys <- 1 .. LegCount

NoSplit == split = "ABSENT" /\ leg = << >> /\ dispatch = << >>
NoCalls == row = << >> /\ call = << >> /\ overtakenRows = {}

UInit ==
  /\ Init /\ EInit
  /\ \/ overlay \in {"mandates", "escrow", "r2p"} /\ R2P!Init /\ NoSplit
     \/ overlay = "qr" /\ QR!Init /\ NoSplit
     \/ overlay = "cashout" /\ Cash!Init /\ NoSplit
     \/ overlay = "refunds" /\ Refund!Init /\ NoSplit
     \/ overlay = "split" /\ Split!Init /\ NoCalls

UNext ==
  \/ overlay = "mandates" /\ Next /\ UNCHANGED <<overlay, evars, ownCalls, ownSplit, shared>>
  \/ overlay = "escrow" /\ ENext /\ UNCHANGED <<overlay, vars, ownCalls, ownSplit, shared>>
  \/ overlay = "r2p" /\ R2P!Next /\ UNCHANGED <<overlay, vars, evars, ownSplit>>
  \/ overlay = "qr" /\ QR!Next /\ UNCHANGED <<overlay, vars, evars, ownSplit>>
  \/ overlay = "cashout" /\ Cash!Next /\ UNCHANGED <<overlay, vars, evars, ownSplit>>
  \/ overlay = "refunds" /\ Refund!Next /\ UNCHANGED <<overlay, vars, evars, ownSplit>>
  \/ overlay = "split" /\ Split!Next /\ UNCHANGED <<overlay, vars, evars, ownCalls>>

USpec == UInit /\ [][UNext]_uvars

\* Who is who does not matter.  Debits, sessions, calls and refunds have the
\* same names, so that one permutation renames them all.
Symmetry == Permutations(Debits)

TypesOK ==
  /\ TypeOK /\ ETypeOK
  /\ overlay \in {"mandates", "escrow", "r2p"} => R2P!TypeOK
  /\ overlay = "qr" => QR!TypeOK
  /\ overlay = "cashout" => Cash!TypeOK
  /\ overlay = "refunds" => Refund!TypeOK
  /\ overlay = "split" => Split!TypeOK

\* What the row of an overlay says of its payment is so, however its calls
\* overlap, fail and are answered late: each overlay's own statement.
RowsTellPayments ==
  /\ TypesOK
  /\ overlay = "r2p" => R2P!RequestTellsPayment
  /\ overlay = "qr" => QR!CodeTellsPayment
  /\ overlay = "cashout" => Cash!CashTellsPayment
  /\ overlay = "refunds" => Refund!RefundTellsPayment
  /\ overlay = "split" => Split!SplitTellsPayments

\* One-time passwords of cash-outs are tried no more often than the limit
\* allows, but for one by each other call in flight.
\* Refunds do not exceed the payment, as long as none is asked for while
\* another is open, in recovery or lost.
LimitsHoldButForOverlap ==
  /\ overlay = "cashout" => Cash!OnlyOverlapExceedsAttempts
  /\ overlay = "refunds" => Refund!RefundedWithinOriginal

=============================================================================
