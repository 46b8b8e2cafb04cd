--------------------------- MODULE OverlaysProofs ---------------------------
(***************************************************************************)
(* Theorems about the overlays: Escrow, for any holds and sessions,        *)
(* Mandates, for any debits, caps and days, and those that pay through     *)
(* PaymentPort, for any rows and calls.                                    *)
(***************************************************************************)
EXTENDS MCOverlays, Sums

-----------------------------------------------------------------------------
(* Escrow.  The inductive invariant says, next to the properties, what a   *)
(* handler may still rely on when it writes: that its copy was HELD, and   *)
(* that the condition of a hold does not change.                           *)

\* A hold that does not exist yet has no history.
AbsentInv ==
  \A h \in Holds :
    hold[h].state = "ABSENT" =>
      /\ hold[h].signed = {}
      /\ paid[h] = [p \in Parties |-> 0]

\* What a busy session has read of its hold.
SessionInv ==
  \A s \in Sessions :
    session[s].op # "none" =>
      LET h == session[s].on IN
      /\ h \in Holds
      /\ hold[h].state # "ABSENT"
      /\ session[s].seen.state = "HELD"
      /\ session[s].op = "sign" => hold[h].condition = "BOTH_SIGNATURES"
      /\ session[s].op \in {"payerRelease", "arbiterRelease", "tick"}
           => hold[h].condition # "BOTH_SIGNATURES"

EscrowInv ==
  /\ ETypeOK
  /\ AbsentInv
  /\ SessionInv
  /\ PaidOnceUnlessOverwritten
  /\ BothSignaturesRelease

LEMMA EscrowInitInv == EInit => EscrowInv
  BY DEF EInit, EscrowInv, ETypeOK, AbsentInv, SessionInv, PaidOnceUnlessOverwritten,
         BothSignaturesRelease, NoHold, Resting, Hold, Session, HOLD_STATES,
         RELEASE_CONDITIONS, Parties, HoldOperations

LEMMA CreateEscrowInv ==
  ASSUME EscrowInv, NEW h \in Holds, create(h)
  PROVE  EscrowInv'
<1>0. PICK condition \in RELEASE_CONDITIONS :
        /\ hold[h].state = "ABSENT"
        /\ hold' = [hold EXCEPT ![h] = [hold[h] EXCEPT !.state = "HELD", !.condition = condition]]
        /\ UNCHANGED <<paid, session, clobbered>>
  BY DEF create
<1>1. ETypeOK'
  <2>1. [hold[h] EXCEPT !.state = "HELD", !.condition = condition] \in Hold
    <3>1. hold[h] \in Hold
      BY DEF EscrowInv, ETypeOK
    <3> QED BY <3>1 DEF Hold, HOLD_STATES
  <2> QED BY <1>0, <2>1 DEF EscrowInv, ETypeOK
<1>2. AbsentInv'
  BY <1>0 DEF EscrowInv, ETypeOK, AbsentInv, Hold
<1>3. SessionInv'
  BY <1>0 DEF EscrowInv, ETypeOK, SessionInv, Hold
<1>4. PaidOnceUnlessOverwritten'
  BY <1>0 DEF EscrowInv, ETypeOK, PaidOnceUnlessOverwritten, Hold
<1>5. BothSignaturesRelease'
  <2>1. hold[h].signed = {} /\ paid[h]["PAYEE"] = 0
    BY <1>0 DEF EscrowInv, AbsentInv, Parties
  <2>2. hold'[h].signed = {} /\ paid' = paid /\ Parties # {}
    BY <1>0, <2>1 DEF EscrowInv, ETypeOK, Hold, Parties
  <2>3. \A g \in Holds \ {h} : hold'[g] = hold[g]
    BY <1>0 DEF EscrowInv, ETypeOK
  <2> QED BY <2>1, <2>2, <2>3 DEF EscrowInv, BothSignaturesRelease
<1> QED BY <1>1, <1>2, <1>3, <1>4, <1>5 DEF EscrowInv

LEMMA DeadlineEscrowInv ==
  ASSUME EscrowInv, NEW h \in Holds, DeadlinePasses(h)
  PROVE  EscrowInv'
<1>1. /\ hold' = [hold EXCEPT ![h] = [hold[h] EXCEPT !.past = TRUE]]
      /\ UNCHANGED <<paid, session, clobbered>>
      /\ hold[h] \in Hold
  BY DEF DeadlinePasses, EscrowInv, ETypeOK
<1>2. ETypeOK'
  <2>1. [hold[h] EXCEPT !.past = TRUE] \in Hold
    BY <1>1 DEF Hold
  <2> QED BY <1>1, <2>1 DEF EscrowInv, ETypeOK
<1>3. \A g \in Holds :
        /\ hold'[g].state = hold[g].state
        /\ hold'[g].condition = hold[g].condition
        /\ hold'[g].signed = hold[g].signed
  BY <1>1 DEF EscrowInv, ETypeOK, Hold
<1>4. AbsentInv'
  BY <1>1, <1>3 DEF EscrowInv, AbsentInv
<1>5. SessionInv'
  BY <1>1, <1>3 DEF EscrowInv, SessionInv
<1>6. PaidOnceUnlessOverwritten'
  BY <1>1, <1>3 DEF EscrowInv, PaidOnceUnlessOverwritten
<1>7. BothSignaturesRelease'
  BY <1>1, <1>3 DEF EscrowInv, BothSignaturesRelease
<1> QED BY <1>2, <1>4, <1>5, <1>6, <1>7 DEF EscrowInv

LEMMA ReadsEscrowInv ==
  ASSUME EscrowInv, NEW s \in Sessions, NEW h \in Holds, NEW op \in HoldOperations, Reads(s, h, op)
  PROVE  EscrowInv'
<1>1. ETypeOK'
  BY DEF EscrowInv, ETypeOK, Reads, Session
<1>2. SessionInv'
  BY DEF EscrowInv, ETypeOK, SessionInv, Reads, MayAct, Session, HoldOperations
<1>3. AbsentInv' /\ PaidOnceUnlessOverwritten' /\ BothSignaturesRelease'
  BY DEF EscrowInv, AbsentInv, PaidOnceUnlessOverwritten, BothSignaturesRelease, Reads
<1> QED BY <1>1, <1>2, <1>3 DEF EscrowInv

LEMMA RestingIsSession == Resting \in Session /\ Resting.op = "none"
  BY DEF Resting, Session, NoHold, Hold, HOLD_STATES, RELEASE_CONDITIONS, Parties, HoldOperations

LEMMA FailsEscrowInv ==
  ASSUME EscrowInv, NEW s \in Sessions, Fails(s)
  PROVE  EscrowInv'
  BY RestingIsSession
  DEF EscrowInv, ETypeOK, AbsentInv, SessionInv, PaidOnceUnlessOverwritten,
      BothSignaturesRelease, Fails, Leaves

\* A journal out of escrow by a session that is no signature.
LEMMA PaysOutEscrowInv ==
  ASSUME EscrowInv, NEW s \in Sessions,
         \/ releaseInternal(s)
         \/ refundInternal(s)
  PROVE  EscrowInv'
<1> DEFINE h == session[s].on
<1>0. /\ h \in Holds
      /\ hold[h].state # "ABSENT"
      /\ session[s].seen.state = "HELD"
      /\ releaseInternal(s) => hold[h].condition # "BOTH_SIGNATURES"
  BY DEF EscrowInv, SessionInv, releaseInternal, refundInternal
<1>1. PICK state \in {"RELEASED", "REFUNDED"}, party \in Parties :
        /\ PaysOut(s, state, party)
        /\ state = "RELEASED" <=> party = "PAYEE"
        /\ party = "PAYEE" => hold[h].condition # "BOTH_SIGNATURES"
        /\ Notes(s)
        /\ Leaves(s)
  BY <1>0 DEF releaseInternal, refundInternal, Parties
<1>2. /\ hold' = [hold EXCEPT ![h].state = state]
      /\ paid' = [paid EXCEPT ![h][party] = @ + 1]
      /\ session' = [session EXCEPT ![s] = Resting]
      /\ clobbered' = IF hold[h].state = "HELD" THEN clobbered ELSE clobbered \cup {h}
  BY <1>0, <1>1 DEF PaysOut, Notes, Leaves
<1> HIDE DEF h
<1>3. ETypeOK'
  <2>1. hold[h] \in Hold /\ paid[h] \in [Parties -> Nat]
    BY <1>0 DEF EscrowInv, ETypeOK
  <2>2. [hold[h] EXCEPT !.state = state] \in Hold
    BY <2>1 DEF Hold, HOLD_STATES
  <2>3. [paid[h] EXCEPT ![party] = @ + 1] \in [Parties -> Nat]
    BY <2>1
  <2> QED BY <1>0, <1>2, <2>2, <2>3, RestingIsSession DEF EscrowInv, ETypeOK
<1>4. AbsentInv'
  BY <1>0, <1>2 DEF EscrowInv, ETypeOK, AbsentInv, Hold
<1>5. SessionInv'
  BY <1>0, <1>2, RestingIsSession DEF EscrowInv, ETypeOK, SessionInv, Hold
<1>6. PaidOnceUnlessOverwritten'
  <2> SUFFICES ASSUME NEW g \in Holds, g \notin clobbered'
               PROVE  /\ paid'[g]["PAYEE"] = IF hold'[g].state = "RELEASED" THEN 1 ELSE 0
                      /\ paid'[g]["PAYER"] = IF hold'[g].state = "REFUNDED" THEN 1 ELSE 0
    BY DEF PaidOnceUnlessOverwritten
  <2>1. CASE g = h
    <3>1. hold[h].state = "HELD" /\ h \notin clobbered
      BY <1>2, <2>1
    <3>2. paid[h]["PAYEE"] = 0 /\ paid[h]["PAYER"] = 0
      BY <1>0, <3>1 DEF EscrowInv, PaidOnceUnlessOverwritten
    <3>3. hold'[h].state = state
      BY <1>0, <1>2 DEF EscrowInv, ETypeOK, Hold
    <3>4. \A p \in Parties : paid'[h][p] = IF p = party THEN paid[h][p] + 1 ELSE paid[h][p]
      BY <1>0, <1>2 DEF EscrowInv, ETypeOK
    <3>5. CASE party = "PAYEE"
      BY <1>1, <2>1, <3>2, <3>3, <3>4, <3>5 DEF Parties
    <3>6. CASE party = "PAYER"
      BY <1>1, <2>1, <3>2, <3>3, <3>4, <3>6 DEF Parties
    <3> QED BY <3>5, <3>6 DEF Parties
  <2>2. CASE g # h
    BY <1>0, <1>2, <2>2 DEF EscrowInv, ETypeOK, PaidOnceUnlessOverwritten
  <2> QED BY <2>1, <2>2
<1>7. BothSignaturesRelease'
  <2> SUFFICES ASSUME NEW g \in Holds, hold'[g].condition = "BOTH_SIGNATURES"
               PROVE  /\ hold'[g].signed = Parties <=> paid'[g]["PAYEE"] > 0
                      /\ hold'[g].state = "HELD" => hold'[g].signed # Parties
    BY DEF BothSignaturesRelease
  <2>1. /\ hold'[g].condition = hold[g].condition
        /\ hold'[g].signed = hold[g].signed
        /\ hold'[g].state = "HELD" => hold[g].state = "HELD"
    BY <1>0, <1>2 DEF EscrowInv, ETypeOK, Hold
  <2>2. paid'[g]["PAYEE"] = paid[g]["PAYEE"]
    BY <1>0, <1>1, <1>2, <2>1 DEF EscrowInv, ETypeOK, Parties, h
  <2> QED BY <2>1, <2>2 DEF EscrowInv, BothSignaturesRelease
<1> QED BY <1>3, <1>4, <1>5, <1>6, <1>7 DEF EscrowInv

LEMMA SignEscrowInv ==
  ASSUME EscrowInv, NEW s \in Sessions, sign(s)
  PROVE  EscrowInv'
<1> DEFINE h == session[s].on
           signed == hold[h].signed \cup {session[s].by}
<1>0. /\ h \in Holds
      /\ hold[h].state # "ABSENT"
      /\ session[s].seen.state = "HELD"
      /\ hold[h].condition = "BOTH_SIGNATURES"
      /\ session[s].by \in Parties
      /\ signed \in SUBSET Parties
  BY DEF EscrowInv, ETypeOK, SessionInv, sign, Session, Hold
<1>1. /\ session' = [session EXCEPT ![s] = Resting]
      /\ clobbered' = IF hold[h].state = "HELD" THEN clobbered ELSE clobbered \cup {h}
  BY <1>0 DEF sign, Notes, Leaves
<1>2. PICK state \in {"RELEASED", "HELD"} :
        /\ state = "RELEASED" <=> signed = Parties
        /\ hold' = [hold EXCEPT ![h] = [hold[h] EXCEPT !.state = state, !.signed = signed]]
        /\ paid' = IF signed = Parties THEN [paid EXCEPT ![h]["PAYEE"] = @ + 1] ELSE paid
  <2>1. CASE signed = Parties
    <3>1. /\ hold' = [hold EXCEPT ![h] = [hold[h] EXCEPT !.state = "RELEASED", !.signed = signed]]
          /\ paid' = [paid EXCEPT ![h]["PAYEE"] = @ + 1]
      BY <2>1 DEF sign, Signatures
    <3> QED BY <2>1, <3>1
  <2>2. CASE signed # Parties
    <3>1. /\ hold' = [hold EXCEPT ![h] = [hold[h] EXCEPT !.state = "HELD", !.signed = signed]]
          /\ paid' = paid
      BY <2>2 DEF sign, Signatures
    <3> QED BY <2>2, <3>1
  <2> QED BY <2>1, <2>2
<1> HIDE DEF h, signed
<1>3. hold[h] \in Hold /\ paid[h] \in [Parties -> Nat] /\ hold \in [Holds -> Hold]
      /\ paid \in [Holds -> [Parties -> Nat]]
  BY <1>0 DEF EscrowInv, ETypeOK
<1>4. /\ hold'[h].state = state
      /\ hold'[h].signed = signed
      /\ hold'[h].condition = hold[h].condition
      /\ paid'[h]["PAYEE"] = IF signed = Parties THEN paid[h]["PAYEE"] + 1 ELSE paid[h]["PAYEE"]
      /\ paid'[h]["PAYER"] = paid[h]["PAYER"]
      /\ paid[h]["PAYEE"] \in Nat
  <2>1. hold'[h] = [hold[h] EXCEPT !.state = state, !.signed = signed]
    BY <1>0, <1>2, <1>3
  <2>2. paid'[h] = IF signed = Parties THEN [paid[h] EXCEPT !["PAYEE"] = @ + 1] ELSE paid[h]
    BY <1>0, <1>2, <1>3
  <2>3. /\ hold'[h].state = state
        /\ hold'[h].signed = signed
        /\ hold'[h].condition = hold[h].condition
    BY <1>3, <2>1 DEF Hold
  <2> QED BY <1>3, <2>2, <2>3 DEF Parties
<1>5. \A g \in Holds \ {h} : hold'[g] = hold[g] /\ paid'[g] = paid[g]
  BY <1>0, <1>2, <1>3
<1>6. ETypeOK'
  <2>1. [hold[h] EXCEPT !.state = state, !.signed = signed] \in Hold
    BY <1>0, <1>3 DEF Hold, HOLD_STATES
  <2>2. hold' \in [Holds -> Hold]
    BY <1>2, <1>3, <2>1
  <2>3. paid' \in [Holds -> [Parties -> Nat]]
    BY <1>0, <1>2, <1>3 DEF Parties
  <2> QED BY <1>0, <1>1, <2>2, <2>3, RestingIsSession DEF EscrowInv, ETypeOK
<1>7. AbsentInv'
  BY <1>0, <1>4, <1>5 DEF EscrowInv, AbsentInv
<1>8. SessionInv'
  BY <1>0, <1>1, <1>4, <1>5, RestingIsSession DEF EscrowInv, ETypeOK, SessionInv
<1>9. PaidOnceUnlessOverwritten'
  <2> SUFFICES ASSUME NEW g \in Holds, g \notin clobbered'
               PROVE  /\ paid'[g]["PAYEE"] = IF hold'[g].state = "RELEASED" THEN 1 ELSE 0
                      /\ paid'[g]["PAYER"] = IF hold'[g].state = "REFUNDED" THEN 1 ELSE 0
    BY DEF PaidOnceUnlessOverwritten
  <2>1. CASE g = h
    <3>1. hold[h].state = "HELD" /\ h \notin clobbered
      BY <1>1, <2>1
    <3>2. paid[h]["PAYEE"] = 0 /\ paid[h]["PAYER"] = 0
      BY <1>0, <3>1 DEF EscrowInv, PaidOnceUnlessOverwritten
    <3> QED BY <1>2, <1>4, <2>1, <3>2
  <2>2. CASE g # h
    BY <1>1, <1>5, <2>2 DEF EscrowInv, PaidOnceUnlessOverwritten
  <2> QED BY <2>1, <2>2
<1>10. BothSignaturesRelease'
  <2> SUFFICES ASSUME NEW g \in Holds, hold'[g].condition = "BOTH_SIGNATURES"
               PROVE  /\ hold'[g].signed = Parties <=> paid'[g]["PAYEE"] > 0
                      /\ hold'[g].state = "HELD" => hold'[g].signed # Parties
    BY DEF BothSignaturesRelease
  <2>1. CASE g # h
    BY <1>5, <2>1 DEF EscrowInv, BothSignaturesRelease
  <2>2. CASE g = h /\ signed = Parties
    BY <1>2, <1>4, <2>2
  <2>3. CASE g = h /\ signed # Parties
    <3>1. hold[h].signed # Parties
      BY <1>0, <2>3 DEF signed
    <3>2. ~(paid[h]["PAYEE"] > 0)
      BY <1>0, <3>1 DEF EscrowInv, BothSignaturesRelease
    <3> QED BY <1>2, <1>4, <2>3, <3>2
  <2> QED BY <2>1, <2>2, <2>3
<1> QED BY <1>6, <1>7, <1>8, <1>9, <1>10 DEF EscrowInv

LEMMA EscrowStepInv == EscrowInv /\ [ENext]_evars => EscrowInv'
<1> SUFFICES ASSUME EscrowInv, [ENext]_evars PROVE EscrowInv'
  OBVIOUS
<1>1. CASE UNCHANGED evars
  BY <1>1 DEF EscrowInv, ETypeOK, AbsentInv, SessionInv, PaidOnceUnlessOverwritten,
              BothSignaturesRelease, evars
<1>2. ASSUME NEW h \in Holds, create(h) \/ DeadlinePasses(h) PROVE EscrowInv'
  BY <1>2, CreateEscrowInv, DeadlineEscrowInv
<1>3. ASSUME NEW s \in Sessions, Handler(s) PROVE EscrowInv'
  BY <1>3, ReadsEscrowInv, PaysOutEscrowInv, SignEscrowInv, FailsEscrowInv DEF Handler
<1> QED BY <1>1, <1>2, <1>3 DEF ENext

\* Every reachable state satisfies the inductive invariant.
THEOREM EscrowInductive == ESpec => []EscrowInv
  BY EscrowInitInv, EscrowStepInv, PTL DEF ESpec

\* The types of rows, journals and handlers (overlays-escrow/model.js).
THEOREM EscrowTypes == ESpec => []ETypeOK
<1>1. EscrowInv => ETypeOK
  BY DEF EscrowInv
<1> QED BY <1>1, EscrowInductive, PTL

\* A hold is paid out once, to the party that its state names, unless a
\* handler of service.js writes over a state that it has not read.
THEOREM PaidOnce == ESpec => []PaidOnceUnlessOverwritten
<1>1. EscrowInv => PaidOnceUnlessOverwritten
  BY DEF EscrowInv
<1> QED BY <1>1, EscrowInductive, PTL

\* Two signatures release a hold and one does not, even where states are
\* written over: sign() decides on the row that its UPDATE returns.
THEOREM TwoSignaturesRelease == ESpec => []BothSignaturesRelease
<1>1. EscrowInv => BothSignaturesRelease
  BY DEF EscrowInv
<1> QED BY <1>1, EscrowInductive, PTL

-----------------------------------------------------------------------------
(* Mandates: one mandate and its debits.                                   *)

\* A revocation stands, unless it is written over.
RevokedInv == revoked /\ ~overwritten => mandate.state \in TERMINAL_STATES

\* A debit is logged when it is done, and an answer that the payment is
\* CONFIRMED stays true.
DebitInv ==
  \A d \in Debits :
    /\ debit[d].result # "NONE" => debit[d].pc = "done"
    /\ debit[d].pc = "answered" /\ debit[d].answer = "CONFIRMED" => payment[d] = "CONFIRMED"

\* The part of TotalIsWhatWasPaid that is about single debits.
SuccessIsPaid == \A d \in Successes : payment[d] = "CONFIRMED"

MandateInv ==
  /\ TypeOK
  /\ ExhaustedWhenSpent
  /\ RevokedInv
  /\ DebitInv
  /\ SuccessIsPaid

\* Days and caps are natural numbers, and the row may hold any of the days.
LEMMA Numbers ==
  /\ MaxDay \in Nat /\ MaxChanges \in Nat /\ MaxFaults \in Nat
  /\ TotalCap \in Nat \ {0}
  /\ PerDebitCap \in Nat
  /\ Amounts \subseteq Nat
  /\ Never \in 0 .. Never
  /\ \A n \in 0 .. MaxDay : n + 1 \in 0 .. Never
  BY CapsAssumption, BoundsAssumption DEF Never

\* What the bookkeeping of a debit leaves of its type.
LEMMA LoggedIsDebit ==
  ASSUME TypeOK, NEW d \in Debits, NEW result \in Results, Logged(d, result)
  PROVE  debit' \in [Debits -> Debit]
<1>1. debit[d] \in Debit /\ day \in 0 .. MaxDay
  BY DEF TypeOK
<1>2. [debit[d] EXCEPT !.pc = "done", !.result = result, !.day = day] \in Debit
  BY <1>1 DEF Debit
<1>3. debit' = [debit EXCEPT ![d] = [debit[d] EXCEPT !.pc = "done", !.result = result, !.day = day]]
  BY DEF Logged
<1> QED BY <1>2, <1>3 DEF TypeOK

\* What the handlers of debits that book nothing leave alone.
LEMMA RowUntouched ==
  ASSUME MandateInv, UNCHANGED <<mandate, overwritten, revoked>>
  PROVE  ExhaustedWhenSpent' /\ RevokedInv'
  BY DEF MandateInv, ExhaustedWhenSpent, RevokedInv

LEMMA MandateInitInv == Init => MandateInv
<1> SUFFICES ASSUME Init PROVE MandateInv
  OBVIOUS
<1>1. 1 \in 0 .. Never /\ Never \in 0 .. Never /\ 0 \in 0 .. MaxDay
  BY Numbers
<1>2. TypeOK
  <2>1. mandate \in [state : STATES, total : Nat, next : 0 .. Never]
    BY <1>1 DEF Init, STATES
  <2>2. debit \in [Debits -> Debit] /\ payment \in [Debits -> Phases]
    BY <1>1 DEF Init, Debit, Phases, Results
  <2>3. changes \in 0 .. MaxChanges /\ faults \in 0 .. MaxFaults
    BY Numbers DEF Init
  <2>4. overwritten \in BOOLEAN /\ revoked \in BOOLEAN
    BY DEF Init
  <2> QED BY <1>1, <2>1, <2>2, <2>3, <2>4 DEF Init, TypeOK
<1>3. ExhaustedWhenSpent /\ RevokedInv
  BY Numbers DEF Init, ExhaustedWhenSpent, RevokedInv, TERMINAL_STATES
<1>4. DebitInv /\ SuccessIsPaid
  BY DEF Init, DebitInv, SuccessIsPaid, Successes
<1> QED BY <1>2, <1>3, <1>4 DEF MandateInv

LEMMA PickDueMandateInv ==
  ASSUME MandateInv, NEW d \in Debits, PickDue(d)
  PROVE  MandateInv'
<1>1. TypeOK'
  BY DEF MandateInv, TypeOK, PickDue, world, Debit
<1>2. DebitInv' /\ SuccessIsPaid'
  BY DEF MandateInv, TypeOK, DebitInv, SuccessIsPaid, Successes, PickDue, world, Debit
<1> QED BY <1>1, <1>2, RowUntouched DEF MandateInv, PickDue, world

LEMMA PreCheckPassesMandateInv ==
  ASSUME MandateInv, NEW d \in Debits, NEW amount \in Amounts \cup {PerDebitCap},
         PreCheckPasses(d, amount)
  PROVE  MandateInv'
<1>1. TypeOK'
  BY DEF MandateInv, TypeOK, PreCheckPasses, world, Debit
<1>2. DebitInv' /\ SuccessIsPaid'
  BY DEF MandateInv, TypeOK, DebitInv, SuccessIsPaid, Successes, PreCheckPasses, Presents, world, Debit
<1> QED BY <1>1, <1>2, RowUntouched DEF MandateInv, PreCheckPasses, world

LEMMA PreCheckFailsMandateInv ==
  ASSUME MandateInv, NEW d \in Debits, NEW amount \in Amounts \cup {PerDebitCap},
         PreCheckFails(d, amount)
  PROVE  MandateInv'
<1>1. PICK result \in {"OTHER", "PAUSED", "CAP_BREACH"} :
        debit' = [debit EXCEPT ![d] = [pc |-> "done", amount |-> amount, answer |-> "NONE",
                                       result |-> result, day |-> day]]
  <2>1. CASE mandate.state \in TERMINAL_STATES
    <3>1. mandate.state # "PAUSED"
      BY <2>1 DEF TERMINAL_STATES
    <3> QED BY <2>1, <3>1 DEF PreCheckFails
  <2>2. CASE mandate.state = "PAUSED"
    <3>1. mandate.state \notin TERMINAL_STATES
      BY <2>2 DEF TERMINAL_STATES
    <3> QED BY <2>2, <3>1 DEF PreCheckFails
  <2>3. CASE mandate.state \notin TERMINAL_STATES \cup {"PAUSED"}
    BY <2>3 DEF PreCheckFails
  <2> QED BY <2>1, <2>2, <2>3
<1>2. UNCHANGED <<mandate, world, overtaken>>
  BY DEF PreCheckFails
<1>3. TypeOK'
  BY <1>1, <1>2 DEF MandateInv, TypeOK, world, Debit, Results, Phases
<1>4. DebitInv' /\ SuccessIsPaid'
  BY <1>1, <1>2 DEF MandateInv, TypeOK, DebitInv, SuccessIsPaid, Successes, world, Debit
<1> QED BY <1>2, <1>3, <1>4, RowUntouched DEF MandateInv, world

LEMMA PaysMandateInv ==
  ASSUME MandateInv, NEW d \in Debits, Pays(d)
  PROVE  MandateInv'
<1>1. TypeOK'
  <2>1. PICK answer \in Phases :
          /\ payment' = [payment EXCEPT ![d] = answer]
          /\ debit' = [debit EXCEPT ![d] = [debit[d] EXCEPT !.pc = "answered", !.answer = answer]]
    BY DEF Pays
  <2>2. [debit[d] EXCEPT !.pc = "answered", !.answer = answer] \in Debit
    <3>1. debit[d] \in Debit
      BY DEF MandateInv, TypeOK
    <3> QED BY <3>1 DEF Debit
  <2> QED BY <2>1, <2>2 DEF MandateInv, TypeOK, Pays
<1>2. DebitInv' /\ SuccessIsPaid'
  BY DEF MandateInv, TypeOK, DebitInv, SuccessIsPaid, Successes, Pays, Debit
<1> QED BY <1>1, <1>2, RowUntouched DEF MandateInv, Pays

LEMMA PaymentEndsMandateInv ==
  ASSUME MandateInv, NEW d \in Debits, PaymentEnds(d)
  PROVE  MandateInv'
<1>1. TypeOK'
  BY DEF MandateInv, TypeOK, PaymentEnds, Phases
<1>2. DebitInv' /\ SuccessIsPaid'
  BY DEF MandateInv, TypeOK, DebitInv, SuccessIsPaid, Successes, PaymentEnds
<1> QED BY <1>1, <1>2, RowUntouched DEF MandateInv, PaymentEnds

\* Booking adds to the total and keeps the state, or ends the mandate.
LEMMA BookSuccessMandateInv ==
  ASSUME MandateInv, NEW d \in Debits, BookSuccess(d)
  PROVE  MandateInv'
<1> DEFINE total == mandate.total + debit[d].amount
<1>0. /\ debit[d].amount \in Nat
      /\ mandate.total \in Nat
      /\ mandate.state \in STATES
      /\ mandate.next \in 0 .. Never
      /\ day + 1 \in 0 .. Never
      /\ Never \in 0 .. Never
      /\ TotalCap \in Nat
  <2>1. debit[d] \in Debit /\ day \in 0 .. MaxDay
        /\ mandate \in [state : STATES, total : Nat, next : 0 .. Never]
    BY DEF MandateInv, TypeOK
  <2>2. debit[d].amount \in Nat
    <3>1. debit[d].amount \in Amounts \cup {0, PerDebitCap}
      BY <2>1 DEF Debit
    <3>2. Amounts \cup {0, PerDebitCap} \subseteq Nat
      BY Numbers
    <3> QED BY <3>1, <3>2, Zenon
  <2> QED BY <2>1, <2>2, Numbers
<1>1. /\ mandate'.total = total
      /\ mandate'.state = IF total >= TotalCap THEN "EXHAUSTED" ELSE mandate.state
      /\ debit' = [debit EXCEPT ![d].pc = "done", ![d].result = "SUCCESS", ![d].day = day]
      /\ UNCHANGED world
      /\ debit[d].pc = "answered" /\ debit[d].answer = "CONFIRMED"
  BY DEF BookSuccess, Books, Logged, Succeeded
<1>2. mandate' \in [state : STATES, total : Nat, next : 0 .. Never]
  BY <1>0 DEF BookSuccess, Books, STATES
<1>3. overtaken' \subseteq Debits
  BY DEF BookSuccess, MandateInv, TypeOK
<1>4. TypeOK'
  <2>1. debit' \in [Debits -> Debit]
    BY LoggedIsDebit DEF BookSuccess, MandateInv, Results
  <2> QED BY <1>1, <1>2, <1>3, <2>1 DEF MandateInv, TypeOK, world
<1>5. ExhaustedWhenSpent'
  BY <1>0, <1>1 DEF MandateInv, ExhaustedWhenSpent, world, TERMINAL_STATES
<1>6. RevokedInv'
  BY <1>1 DEF MandateInv, RevokedInv, world, TERMINAL_STATES
<1>7. DebitInv' /\ SuccessIsPaid'
  BY <1>1 DEF MandateInv, TypeOK, DebitInv, SuccessIsPaid, Successes, world, Debit
<1> QED BY <1>4, <1>5, <1>6, <1>7 DEF MandateInv

LEMMA BookFailureMandateInv ==
  ASSUME MandateInv, NEW d \in Debits, BookFailure(d)
  PROVE  MandateInv'
<1>1. TypeOK'
  <2>1. debit' \in [Debits -> Debit]
    BY LoggedIsDebit DEF BookFailure, MandateInv, Results
  <2> QED BY <2>1 DEF MandateInv, TypeOK, BookFailure, world
<1>2. DebitInv' /\ SuccessIsPaid'
  BY DEF MandateInv, TypeOK, DebitInv, SuccessIsPaid, Successes, BookFailure, Logged, world, Debit
<1> QED BY <1>1, <1>2, RowUntouched DEF MandateInv, BookFailure, world

LEMMA PresentFailsMandateInv ==
  ASSUME MandateInv, NEW d \in Debits, PresentFails(d)
  PROVE  MandateInv'
<1>1. TypeOK'
  BY BoundsAssumption DEF MandateInv, TypeOK, PresentFails, Debit
<1>2. DebitInv' /\ SuccessIsPaid'
  BY DEF MandateInv, TypeOK, DebitInv, SuccessIsPaid, Successes, PresentFails, Debit
<1> QED BY <1>1, <1>2, RowUntouched DEF MandateInv, PresentFails

\* A test that has passed and a new day change no debit and not the row.
LEMMA TestPassesMandateInv ==
  ASSUME MandateInv, NEW op \in Operations, TestPasses(op)
  PROVE  MandateInv'
<1>1. TypeOK'
  BY DEF MandateInv, TypeOK, TestPasses
<1>2. DebitInv' /\ SuccessIsPaid'
  BY DEF MandateInv, DebitInv, SuccessIsPaid, Successes, TestPasses
<1> QED BY <1>1, <1>2, RowUntouched DEF MandateInv, TestPasses

LEMMA NextDayMandateInv ==
  ASSUME MandateInv, NextDay
  PROVE  MandateInv'
<1>1. TypeOK'
  BY BoundsAssumption DEF MandateInv, TypeOK, NextDay
<1>2. DebitInv' /\ SuccessIsPaid'
  BY DEF MandateInv, DebitInv, SuccessIsPaid, Successes, NextDay
<1> QED BY <1>1, <1>2, RowUntouched DEF MandateInv, NextDay

\* No operation tests for a terminal state: one that lands on such a state
\* writes over what it has not read.
LEMMA WritesMandateInv ==
  ASSUME MandateInv, NEW op \in Operations, Writes(op)
  PROVE  MandateInv'
<1>0. /\ To(op) \in STATES \ {"EXHAUSTED"}
      /\ From(op) \cap TERMINAL_STATES = {}
      /\ op = "revoke" => To(op) \in TERMINAL_STATES
  BY DEF Operations, To, From, STATES, TERMINAL_STATES
<1>1. /\ mandate'.state = To(op)
      /\ mandate'.total = mandate.total
      /\ mandate' \in [state : STATES, total : Nat, next : 0 .. Never]
  <2>1. mandate \in [state : STATES, total : Nat, next : 0 .. Never]
    BY DEF MandateInv, TypeOK
  <2>2. PICK next \in 0 .. Never : mandate' = [mandate EXCEPT !.state = To(op), !.next = next]
    <3>1. CASE op = "revoke"
      BY <3>1, Numbers DEF Writes
    <3>2. CASE op # "revoke"
      BY <2>1, <3>2 DEF Writes
    <3> QED BY <3>1, <3>2
  <2> QED BY <1>0, <2>1, <2>2
<1>2. TypeOK'
  BY <1>1, BoundsAssumption DEF MandateInv, TypeOK, Writes
<1>3. ~overwritten' => ~overwritten /\ mandate.state \notin TERMINAL_STATES
  BY <1>0 DEF Writes
<1>4. ExhaustedWhenSpent'
  BY <1>0, <1>1, <1>3 DEF MandateInv, ExhaustedWhenSpent
<1>5. RevokedInv'
  BY <1>0, <1>1, <1>3 DEF MandateInv, RevokedInv, Writes
<1>6. DebitInv' /\ SuccessIsPaid'
  BY DEF MandateInv, DebitInv, SuccessIsPaid, Successes, Writes
<1> QED BY <1>2, <1>4, <1>5, <1>6 DEF MandateInv

LEMMA MandateStepInv == MandateInv /\ [Next]_vars => MandateInv'
<1> SUFFICES ASSUME MandateInv, [Next]_vars PROVE MandateInv'
  OBVIOUS
<1>1. CASE UNCHANGED vars
  <2>1. TypeOK' /\ DebitInv' /\ SuccessIsPaid'
    BY <1>1 DEF MandateInv, TypeOK, DebitInv, SuccessIsPaid, Successes, vars
  <2> QED BY <1>1, <2>1, RowUntouched DEF MandateInv, vars
<1>2. ASSUME NEW d \in Debits, PickDue(d) \/ presentDebit(d) \/ PaymentEnds(d)
      PROVE  MandateInv'
  BY <1>2, PickDueMandateInv, PreCheckPassesMandateInv, PreCheckFailsMandateInv, PaysMandateInv, PaymentEndsMandateInv,
     BookSuccessMandateInv, BookFailureMandateInv, PresentFailsMandateInv
  DEF presentDebit
<1>3. ASSUME NEW op \in Operations, TestPasses(op) \/ Writes(op)
      PROVE  MandateInv'
  BY <1>3, TestPassesMandateInv, WritesMandateInv
<1>4. CASE NextDay
  BY <1>4, NextDayMandateInv
<1> QED BY <1>1, <1>2, <1>3, <1>4 DEF Next

\* Every reachable state satisfies the inductive invariant.
THEOREM MandateInductive == Spec => []MandateInv
  BY MandateInitInv, MandateStepInv, PTL DEF Spec

\* The types of the rows and of the presentations (overlays-mandates/model.js).
THEOREM MandateTypes == Spec => []TypeOK
<1>1. MandateInv => TypeOK
  BY DEF MandateInv
<1> QED BY <1>1, MandateInductive, PTL

\* The bookkeeping of presentDebit exhausts a mandate with its total cap, and
\* no sooner, whoever revokes, pauses or resumes meanwhile.
THEOREM ExhaustedWithTheCap == Spec => []ExhaustedWhenSpent
<1>1. MandateInv => ExhaustedWhenSpent
  BY DEF MandateInv
<1> QED BY <1>1, MandateInductive, PTL

\* A debit that is logged as a SUCCESS has been paid, whatever fails between
\* the orchestrator's answer and the bookkeeping.
THEOREM LoggedSuccessIsPaid == Spec => []SuccessIsPaid
<1>1. MandateInv => SuccessIsPaid
  BY DEF MandateInv
<1> QED BY <1>1, MandateInductive, PTL

\* After revoke() no presentation passes the check, unless an operator writes
\* over a state that he has not read.
THEOREM RevokedIsSilent == Spec => RevokedIsSilentUnlessOverwritten
<1> DEFINE Silent == revoked /\ ~overwritten =>
                       \A d \in Debits : debit[d].pc # "passed" => debit'[d].pc # "passed"
<1>1. MandateInv /\ [Next]_vars => [Silent]_vars
  <2> SUFFICES ASSUME MandateInv, Next, revoked, ~overwritten,
                      NEW d \in Debits, debit[d].pc # "passed"
               PROVE  debit'[d].pc # "passed"
    OBVIOUS
  <2>1. ~MayDebit /\ debit \in [Debits -> Debit]
    BY DEF MandateInv, TypeOK, RevokedInv, MayDebit
  <2>2. ASSUME NEW e \in Debits, PickDue(e) \/ presentDebit(e) \/ PaymentEnds(e)
        PROVE  debit'[d].pc # "passed"
    <3>1. CASE PickDue(e) \/ Pays(e) \/ PaymentEnds(e) \/ PresentFails(e)
      BY <2>1, <3>1 DEF PickDue, Pays, PaymentEnds, PresentFails, Debit
    <3>2. CASE BookSuccess(e) \/ BookFailure(e)
      BY <2>1, <3>2 DEF BookSuccess, BookFailure, Logged, Debit
    <3>3. ASSUME NEW amount \in Amounts \cup {PerDebitCap}, PreCheckFails(e, amount)
          PROVE  debit'[d].pc # "passed"
      <4>1. \E result : debit' = [debit EXCEPT ![e] = [pc |-> "done", amount |-> amount,
                                    answer |-> "NONE", result |-> result, day |-> day]]
        BY <3>3 DEF PreCheckFails
      <4> QED BY <2>1, <4>1
    <3>4. ASSUME NEW amount \in Amounts \cup {PerDebitCap}, PreCheckPasses(e, amount)
          PROVE  FALSE
      BY <2>1, <3>4 DEF PreCheckPasses
    <3> QED BY <2>2, <3>1, <3>2, <3>3, <3>4 DEF presentDebit
  <2>3. ASSUME NEW op \in Operations, TestPasses(op) \/ Writes(op)
        PROVE  debit'[d].pc # "passed"
    BY <2>3 DEF TestPasses, Writes
  <2>4. CASE NextDay
    BY <2>4 DEF NextDay
  <2> QED BY <2>2, <2>3, <2>4 DEF Next
<1> QED BY <1>1, MandateInductive, PTL DEF Spec, RevokedIsSilentUnlessOverwritten

\* Nothing but resume() makes a mandate ACTIVE, in particular no debit that is
\* booked after a pause or a revocation.
THEOREM OnlyResume == Spec => OnlyResumeActivates
<1> DEFINE Activates == mandate.state # "ACTIVE" /\ mandate'.state = "ACTIVE"
                          => "resume" \in passed
<1>1. MandateInv /\ [Next]_vars => [Activates]_vars
  <2> SUFFICES ASSUME MandateInv, Next, mandate.state # "ACTIVE", mandate'.state = "ACTIVE"
               PROVE  "resume" \in passed
    OBVIOUS
  <2>1. ASSUME NEW d \in Debits, PickDue(d) \/ presentDebit(d) \/ PaymentEnds(d)
        PROVE  mandate'.state \in {mandate.state, "EXHAUSTED"}
    BY <2>1
    DEF PickDue, presentDebit, PaymentEnds, PreCheckPasses, PreCheckFails, Pays,
        BookSuccess, Books, BookFailure, PresentFails
  <2>2. ASSUME NEW op \in Operations, TestPasses(op)
        PROVE  mandate' = mandate
    BY <2>2 DEF TestPasses
  <2>3. ASSUME NEW op \in Operations, Writes(op), "resume" \notin passed
        PROVE  FALSE
    <3>1. op # "resume" /\ mandate' = [mandate EXCEPT !.state = To(op), !.next = mandate'.next]
      BY <2>3 DEF Writes
    <3>2. To(op) # "ACTIVE"
      BY <3>1 DEF To, Operations
    <3>3. "state" \in DOMAIN mandate
      BY DEF MandateInv, TypeOK
    <3> QED BY <3>1, <3>2, <3>3
  <2>4. CASE NextDay
    BY <2>4 DEF NextDay
  <2> QED BY <2>1, <2>2, <2>3, <2>4 DEF Next
<1> QED BY <1>1, MandateInductive, PTL DEF Spec, OnlyResumeActivates

-----------------------------------------------------------------------------
(* Mandates: sums and caps                                                 *)

\* The counter is the sum of the log, which holds no row of a day to come.
SumInv ==
  /\ IsFiniteSet(Successes)
  /\ mandate.total = AmountsOf(Successes)
  /\ \A d \in Debits : debit[d].day <= day

\* A debit that has passed the check still fits under both caps on the day it
\* will be booked, as long as nobody else's booking came between.
CapInv ==
  /\ \A d \in Debits :
       debit[d].pc \in {"passed", "answered"} /\ d \notin overtaken =>
         /\ mandate.total + debit[d].amount <= TotalCap
         /\ Debited(day) + debit[d].amount <= DailyCap
  /\ CapsHoldUnlessOvertaken

LEMMA AmountIsNat ==
  ASSUME TypeOK, NEW d \in Debits
  PROVE  debit[d].amount \in Nat
<1>1. debit[d] \in Debit
  BY DEF TypeOK
<1>2. debit[d].amount \in Amounts \cup {0, PerDebitCap}
  BY <1>1 DEF Debit
<1>3. Amounts \cup {0, PerDebitCap} \subseteq Nat
  BY Numbers
<1> QED BY <1>2, <1>3, Zenon

LEMMA SumsAreNat ==
  ASSUME TypeOK, SumInv
  PROVE  /\ mandate.total \in Nat
         /\ \A date : Debited(date) \in Nat
<1>1. mandate.total \in Nat
  BY DEF TypeOK
<1>2. ASSUME NEW date
      PROVE  Debited(date) \in Nat
  <2> DEFINE S == {d \in Successes : debit[d].day = date}
             m == [d \in Debits |-> debit[d].amount]
  <2>1. S \subseteq Successes /\ IsFiniteSet(S)
    BY FS_Subset DEF SumInv
  <2>2. \A d \in S : m[d] \in Nat
    BY AmountIsNat DEF Successes
  <2>3. Debited(date) = SumFunctionOnSet(m, S)
    BY DEF Debited, AmountsOf
  <2> HIDE DEF S, m
  <2> QED BY <2>1, <2>2, <2>3, SumNat
<1> QED BY <1>1, <1>2

LEMMA SumInit ==
  ASSUME Init
  PROVE  SumInv /\ CapInv
<1>1. Successes = {}
  BY DEF Init, Successes
<1>2. AmountsOf(Successes) = 0
  BY <1>1, SumEmpty DEF AmountsOf
<1>3. SumInv
  BY <1>1, <1>2, FS_EmptySet DEF Init, SumInv
<1>4. ASSUME NEW date PROVE Debited(date) = 0
  <2>1. {d \in Successes : debit[d].day = date} = {}
    BY <1>1
  <2> QED BY <2>1, SumEmpty DEF Debited, AmountsOf
<1>5. CapInv
  BY <1>4, CapsAssumption DEF Init, CapInv, CapsHoldUnlessOvertaken
<1> QED BY <1>3, <1>5

\* Sums do not change while the rows that are logged as a SUCCESS do not.
LEMMA SumsStay ==
  ASSUME SumInv, Successes' = Successes,
         \A d \in Successes : debit'[d].amount = debit[d].amount /\ debit'[d].day = debit[d].day
  PROVE  /\ AmountsOf(Successes)' = AmountsOf(Successes)
         /\ \A date : Debited(date)' = Debited(date)
<1> DEFINE m == [d \in Debits |-> debit[d].amount]
           n == [d \in Debits |-> debit'[d].amount]
<1>1. \A d \in Successes : m[d] = n[d]
  BY DEF Successes
<1>2. ASSUME NEW S, S \subseteq Successes
      PROVE  SumFunctionOnSet(m, S) = SumFunctionOnSet(n, S)
  <2>1. IsFiniteSet(S) /\ \A d \in S : m[d] = n[d]
    BY <1>1, <1>2, FS_Subset DEF SumInv
  <2> HIDE DEF m, n
  <2> QED BY <2>1, SumAgrees
<1>3. AmountsOf(Successes) = SumFunctionOnSet(m, Successes)
  BY DEF AmountsOf
<1>4. AmountsOf(Successes)' = SumFunctionOnSet(n, Successes)
  BY DEF AmountsOf
<1>5. ASSUME NEW date
      PROVE  Debited(date)' = Debited(date)
  <2> DEFINE S == {d \in Successes : debit[d].day = date}
  <2>1. {d \in Successes' : debit'[d].day = date} = S
    OBVIOUS
  <2>2. Debited(date)' = SumFunctionOnSet(n, S)
    BY <2>1 DEF Debited, AmountsOf
  <2>3. Debited(date) = SumFunctionOnSet(m, S)
    BY DEF Debited, AmountsOf
  <2> QED BY <1>2, <2>2, <2>3
<1> QED BY <1>2, <1>3, <1>4, <1>5

\* A step that books nothing: a debit joins those that have passed by the check.
Quiet ==
  /\ mandate'.total = mandate.total
  /\ UNCHANGED <<day, overtaken>>
  /\ \A d \in Debits :
       /\ debit'[d].result = "SUCCESS" <=> debit[d].result = "SUCCESS"
       /\ debit[d].result = "SUCCESS" => /\ debit'[d].amount = debit[d].amount
                                         /\ debit'[d].day = debit[d].day
       /\ debit'[d].day \in {debit[d].day, day}
       /\ debit'[d].pc \in {"passed", "answered"} =>
            \/ checkCaps(debit'[d].amount)
            \/ debit[d].pc \in {"passed", "answered"} /\ debit'[d].amount = debit[d].amount

LEMMA QuietKeeps ==
  ASSUME TypeOK, SumInv, CapInv, Quiet
  PROVE  SumInv' /\ CapInv'
<1>1. Successes' = Successes
  BY DEF Quiet, Successes
<1>2. \A d \in Successes : debit'[d].amount = debit[d].amount /\ debit'[d].day = debit[d].day
  BY DEF Quiet, Successes
<1>3. /\ AmountsOf(Successes)' = AmountsOf(Successes)
      /\ \A date : Debited(date)' = Debited(date)
  BY <1>1, <1>2, SumsStay
<1>4. SumInv'
  <2>1. \A d \in Debits : debit'[d].day <= day'
    BY DEF Quiet, SumInv, TypeOK
  <2> QED BY <1>1, <1>3, <2>1 DEF SumInv, Quiet
<1>5. ASSUME NEW d \in Debits, debit'[d].pc \in {"passed", "answered"}, d \notin overtaken'
      PROVE  /\ mandate'.total + debit'[d].amount <= TotalCap
             /\ Debited(day)' + debit'[d].amount <= DailyCap
  <2>1. /\ mandate.total + debit'[d].amount <= TotalCap
        /\ Debited(day) + debit'[d].amount <= DailyCap
    <3>1. CASE checkCaps(debit'[d].amount)
      BY <3>1 DEF checkCaps
    <3>2. CASE debit[d].pc \in {"passed", "answered"} /\ debit'[d].amount = debit[d].amount
      <4>1. d \notin overtaken
        BY <1>5 DEF Quiet
      <4> QED BY <3>2, <4>1 DEF CapInv
    <3> QED BY <1>5, <3>1, <3>2 DEF Quiet
  <2>2. Debited(day)' = Debited(day) /\ mandate'.total = mandate.total
    <3>1. day' = day /\ mandate'.total = mandate.total
      BY DEF Quiet
    <3>2. PICK date : date = day
      OBVIOUS
    <3>3. Debited(day)' = Debited(date)'
      BY <3>1, <3>2 DEF Debited
    <3>4. Debited(day) = Debited(date)
      BY <3>2
    <3> QED BY <1>3, <3>1, <3>3, <3>4
  <2> QED BY <2>1, <2>2
<1>6. CapsHoldUnlessOvertaken'
  BY <1>1, <1>3 DEF CapInv, CapsHoldUnlessOvertaken, Quiet
<1> QED BY <1>4, <1>5, <1>6 DEF CapInv

\* A step that changes one debit which has not been logged as a SUCCESS.
LEMMA OneQuiet ==
  ASSUME TypeOK, NEW d \in Debits, NEW r, debit' = [debit EXCEPT ![d] = r],
         mandate'.total = mandate.total, UNCHANGED <<day, overtaken>>,
         debit[d].result # "SUCCESS", r.result # "SUCCESS", r.day \in {debit[d].day, day},
         r.pc \in {"passed", "answered"} =>
            \/ checkCaps(r.amount)
            \/ debit[d].pc \in {"passed", "answered"} /\ r.amount = debit[d].amount
  PROVE  Quiet
<1>1. \A e \in Debits : debit'[e] = IF e = d THEN r ELSE debit[e]
  BY DEF TypeOK
<1> QED BY <1>1 DEF Quiet

LEMMA PickDueQuiet ==
  ASSUME MandateInv, NEW d \in Debits, PickDue(d)
  PROVE  Quiet
<1> DEFINE r == [debit[d] EXCEPT !.pc = "picked", !.amount = PerDebitCap]
<1>1. TypeOK /\ debit[d] \in Debit /\ debit[d].result # "SUCCESS"
  BY DEF MandateInv, TypeOK, DebitInv, PickDue
<1>2. r.result = debit[d].result /\ r.day = debit[d].day /\ r.pc = "picked"
  BY <1>1 DEF Debit
<1>3. debit' = [debit EXCEPT ![d] = r] /\ mandate' = mandate /\ UNCHANGED <<day, overtaken>>
  BY DEF PickDue, world
<1> HIDE DEF r
<1> QED BY <1>1, <1>2, <1>3, OneQuiet

LEMMA PreCheckPassesQuiet ==
  ASSUME MandateInv, NEW d \in Debits, NEW amount, PreCheckPasses(d, amount)
  PROVE  Quiet
<1> DEFINE r == [debit[d] EXCEPT !.pc = "passed", !.amount = amount]
<1>1. TypeOK /\ debit[d] \in Debit /\ debit[d].result # "SUCCESS"
  BY DEF MandateInv, TypeOK, DebitInv, PreCheckPasses, Presents
<1>2. r.result = debit[d].result /\ r.day = debit[d].day /\ r.pc = "passed" /\ r.amount = amount
  BY <1>1 DEF Debit
<1>3. /\ debit' = [debit EXCEPT ![d] = r] /\ mandate' = mandate /\ UNCHANGED <<day, overtaken>>
      /\ checkCaps(amount)
  BY DEF PreCheckPasses, world
<1> HIDE DEF r
<1> QED BY <1>1, <1>2, <1>3, OneQuiet

LEMMA PreCheckFailsQuiet ==
  ASSUME MandateInv, NEW d \in Debits, NEW amount, PreCheckFails(d, amount)
  PROVE  Quiet
<1>1. TypeOK /\ debit[d].result # "SUCCESS"
  BY DEF MandateInv, TypeOK, DebitInv, PreCheckFails, Presents
<1>2. PICK result \in {"OTHER", "PAUSED", "CAP_BREACH"} :
        debit' = [debit EXCEPT ![d] = [pc |-> "done", amount |-> amount, answer |-> "NONE",
                                       result |-> result, day |-> day]]
  <2>1. CASE mandate.state \in TERMINAL_STATES
    <3>1. mandate.state # "PAUSED"
      BY <2>1 DEF TERMINAL_STATES
    <3> QED BY <2>1, <3>1 DEF PreCheckFails
  <2>2. CASE mandate.state = "PAUSED"
    <3>1. mandate.state \notin TERMINAL_STATES
      BY <2>2 DEF TERMINAL_STATES
    <3> QED BY <2>2, <3>1 DEF PreCheckFails
  <2>3. CASE mandate.state \notin TERMINAL_STATES \cup {"PAUSED"}
    BY <2>3 DEF PreCheckFails
  <2> QED BY <2>1, <2>2, <2>3
<1> DEFINE r == [pc |-> "done", amount |-> amount, answer |-> "NONE", result |-> result, day |-> day]
<1>3. r.result # "SUCCESS" /\ r.day = day /\ r.pc = "done"
  OBVIOUS
<1>4. debit' = [debit EXCEPT ![d] = r] /\ mandate' = mandate /\ UNCHANGED <<day, overtaken>>
  BY <1>2 DEF PreCheckFails, world
<1> HIDE DEF r
<1> QED BY <1>1, <1>3, <1>4, OneQuiet

LEMMA PaysQuiet ==
  ASSUME MandateInv, NEW d \in Debits, Pays(d)
  PROVE  Quiet
<1>0. PICK answer \in Phases : debit' = [debit EXCEPT ![d].pc = "answered", ![d].answer = answer]
  BY DEF Pays
<1> DEFINE r == [debit[d] EXCEPT !.pc = "answered", !.answer = answer]
<1>1. TypeOK /\ debit[d] \in Debit /\ debit[d].result # "SUCCESS" /\ debit[d].pc = "passed"
  BY DEF MandateInv, TypeOK, DebitInv, Pays
<1>2. r.result = debit[d].result /\ r.day = debit[d].day /\ r.amount = debit[d].amount
  BY <1>1 DEF Debit
<1>3. debit' = [debit EXCEPT ![d] = r] /\ mandate' = mandate /\ UNCHANGED <<day, overtaken>>
  BY <1>0 DEF Pays
<1> HIDE DEF r
<1> QED BY <1>1, <1>2, <1>3, OneQuiet

LEMMA BookFailureQuiet ==
  ASSUME MandateInv, NEW d \in Debits, BookFailure(d)
  PROVE  Quiet
<1> DEFINE r == [debit[d] EXCEPT !.pc = "done", !.result = "OTHER", !.day = day]
<1>1. TypeOK /\ debit[d] \in Debit /\ debit[d].result # "SUCCESS"
  BY DEF MandateInv, TypeOK, DebitInv, BookFailure
<1>2. r.result = "OTHER" /\ r.day = day /\ r.pc = "done"
  BY <1>1 DEF Debit
<1>3. debit' = [debit EXCEPT ![d] = r] /\ mandate' = mandate /\ UNCHANGED <<day, overtaken>>
  BY DEF BookFailure, Logged, world
<1> HIDE DEF r
<1> QED BY <1>1, <1>2, <1>3, OneQuiet

LEMMA PresentFailsQuiet ==
  ASSUME MandateInv, NEW d \in Debits, PresentFails(d)
  PROVE  Quiet
<1> DEFINE r == [debit[d] EXCEPT !.pc = "done"]
<1>1. TypeOK /\ debit[d] \in Debit /\ debit[d].result # "SUCCESS"
  BY DEF MandateInv, TypeOK, DebitInv, PresentFails
<1>2. r.result = debit[d].result /\ r.day = debit[d].day /\ r.pc = "done"
  BY <1>1 DEF Debit
<1>3. debit' = [debit EXCEPT ![d] = r] /\ mandate' = mandate /\ UNCHANGED <<day, overtaken>>
  BY DEF PresentFails
<1> HIDE DEF r
<1> QED BY <1>1, <1>2, <1>3, OneQuiet

LEMMA OthersQuiet ==
  ASSUME MandateInv, UNCHANGED <<debit, day, overtaken>>, mandate'.total = mandate.total
  PROVE  Quiet
  BY DEF Quiet

\* Midnight: nothing has been debited yet on the new day, so what has passed the
\* check fits all the more.
LEMMA NextDaySums ==
  ASSUME MandateInv, SumInv, CapInv, NextDay
  PROVE  SumInv' /\ CapInv'
<1>0. TypeOK /\ day \in Nat /\ UNCHANGED <<mandate, debit, overtaken>> /\ day' = day + 1
  BY BoundsAssumption DEF MandateInv, TypeOK, NextDay
<1>1. Successes' = Successes
  BY <1>0 DEF Successes
<1>2. /\ AmountsOf(Successes)' = AmountsOf(Successes)
      /\ \A date : Debited(date)' = Debited(date)
  BY <1>0, <1>1, SumsStay
<1>3. \A d \in Debits : debit[d].day \in Nat /\ debit[d].day <= day
  BY <1>0, BoundsAssumption DEF SumInv, TypeOK, Debit
<1>4. SumInv'
  BY <1>0, <1>1, <1>2, <1>3 DEF SumInv
<1>5. Debited(day)' = 0
  <2>1. {d \in Successes' : debit'[d].day = day'} = {}
    BY <1>0, <1>1, <1>3 DEF Successes
  <2> QED BY <2>1, SumEmpty DEF Debited, AmountsOf
<1>6. ASSUME NEW d \in Debits, debit'[d].pc \in {"passed", "answered"}, d \notin overtaken'
      PROVE  /\ mandate'.total + debit'[d].amount <= TotalCap
             /\ Debited(day)' + debit'[d].amount <= DailyCap
  <2>1. /\ mandate.total + debit[d].amount <= TotalCap
        /\ Debited(day) + debit[d].amount <= DailyCap
    BY <1>0, <1>6 DEF CapInv
  <2>2. Debited(day) \in Nat /\ debit[d].amount \in Nat /\ DailyCap \in Nat
    BY <1>0, SumsAreNat, AmountIsNat, CapsAssumption
  <2> QED BY <1>0, <1>5, <2>1, <2>2
<1>7. CapsHoldUnlessOvertaken'
  BY <1>0, <1>1, <1>2 DEF CapInv, CapsHoldUnlessOvertaken
<1> QED BY <1>4, <1>6, <1>7 DEF CapInv

\* A booking adds its amount to the counter and to its day, and puts every
\* other debit that has passed the check among the overtaken.
LEMMA BookSuccessSums ==
  ASSUME MandateInv, SumInv, CapInv, NEW d \in Debits, BookSuccess(d)
  PROVE  SumInv' /\ CapInv'
<1> DEFINE m == [e \in Debits |-> debit[e].amount]
           n == [e \in Debits |-> debit'[e].amount]
           r == [debit[d] EXCEPT !.pc = "done", !.result = "SUCCESS", !.day = day]
<1>0. TypeOK /\ debit[d] \in Debit /\ day \in Nat /\ day' = day
  BY BoundsAssumption DEF MandateInv, TypeOK, BookSuccess, world
<1>1. /\ r.pc = "done" /\ r.result = "SUCCESS" /\ r.day = day /\ r.amount = debit[d].amount
      /\ debit' = [debit EXCEPT ![d] = r]
  BY <1>0 DEF Debit, BookSuccess, Logged
<1> HIDE DEF r
<1>2. \A e \in Debits : debit'[e] = IF e = d THEN r ELSE debit[e]
  BY <1>0, <1>1 DEF TypeOK
<1>3. /\ debit[d].pc = "answered"
      /\ mandate'.total = mandate.total + debit[d].amount
      /\ overtaken' = overtaken \cup {e \in Debits \ {d} : debit[e].pc \in {"passed", "answered"}}
  BY DEF BookSuccess, Books
<1>4. d \notin Successes /\ Successes' = Successes \cup {d}
  BY <1>1, <1>2, <1>3 DEF Successes, MandateInv, DebitInv
<1>5. debit[d].amount \in Nat /\ n[d] = debit[d].amount
  BY <1>0, <1>1, <1>2, AmountIsNat
<1>6. \A e \in Successes : m[e] \in Int /\ n[e] = m[e]
  BY <1>0, <1>2, <1>4, AmountIsNat DEF Successes
<1>7. AmountsOf(Successes) = SumFunctionOnSet(m, Successes)
  BY DEF AmountsOf
<1>8. AmountsOf(Successes)' = SumFunctionOnSet(n, Successes \cup {d})
  BY <1>4 DEF AmountsOf
<1>9. \A date : Debited(date) = SumFunctionOnSet(m, {e \in Successes : debit[e].day = date})
  BY DEF Debited, AmountsOf
<1>10. \A date : Debited(date)' = SumFunctionOnSet(n, {e \in Successes' : debit'[e].day = date})
  BY DEF Debited, AmountsOf
<1> HIDE DEF m, n
<1>11. AmountsOf(Successes)' = AmountsOf(Successes) + debit[d].amount
  BY <1>4, <1>5, <1>6, <1>7, <1>8, SumAdd DEF SumInv
<1>12. \A e \in Successes : debit'[e].day = debit[e].day
  BY <1>2, <1>4 DEF Successes
<1>13. Debited(day)' = Debited(day) + debit[d].amount
  <2> DEFINE S == {e \in Successes : debit[e].day = day}
  <2>1. {e \in Successes' : debit'[e].day = day'} = S \cup {d}
    BY <1>0, <1>1, <1>2, <1>4, <1>12
  <2>2. IsFiniteSet(S) /\ d \notin S /\ S \subseteq Successes
    BY <1>4, FS_Subset DEF SumInv
  <2>3. Debited(day) = SumFunctionOnSet(m, S)
    BY <1>9
  <2>4. Debited(day)' = SumFunctionOnSet(n, {e \in Successes' : debit'[e].day = day'})
    BY DEF Debited, AmountsOf, n
  <2> HIDE DEF S
  <2>5. SumFunctionOnSet(n, S \cup {d}) = SumFunctionOnSet(m, S) + n[d]
    BY <1>5, <1>6, <2>2, SumAdd
  <2> QED BY <1>5, <2>1, <2>3, <2>4, <2>5
<1>14. ASSUME NEW date, date # day
       PROVE  Debited(date)' = Debited(date)
  <2> DEFINE S == {e \in Successes : debit[e].day = date}
  <2>1. {e \in Successes' : debit'[e].day = date} = S
    BY <1>1, <1>2, <1>4, <1>12, <1>14
  <2>2. IsFiniteSet(S) /\ S \subseteq Successes
    BY FS_Subset DEF SumInv
  <2>3. Debited(date) = SumFunctionOnSet(m, S) /\ Debited(date)' = SumFunctionOnSet(n, S)
    BY <1>9, <1>10, <2>1
  <2> HIDE DEF S
  <2>4. \A e \in S : m[e] = n[e]
    BY <1>6, <2>2
  <2> QED BY <2>2, <2>3, <2>4, SumAgrees
<1>15. SumInv'
  <2>1. IsFiniteSet(Successes')
    BY <1>4, FS_AddElement DEF SumInv
  <2>2. \A e \in Debits : debit'[e].day <= day'
    BY <1>0, <1>1, <1>2 DEF SumInv
  <2> QED BY <1>3, <1>11, <2>1, <2>2 DEF SumInv
<1>16. ASSUME NEW e \in Debits, debit'[e].pc \in {"passed", "answered"}
       PROVE  e \in overtaken'
  BY <1>1, <1>2, <1>3, <1>16
<1>17. ASSUME Successes' \cap overtaken' = {}
       PROVE  /\ mandate'.total <= TotalCap
              /\ \A date \in 0 .. MaxDay : Debited(date)' <= DailyCap
  <2>1. d \notin overtaken /\ Successes \cap overtaken = {}
    BY <1>3, <1>4, <1>17
  <2>2. /\ mandate.total + debit[d].amount <= TotalCap
        /\ Debited(day) + debit[d].amount <= DailyCap
    BY <1>3, <2>1 DEF CapInv
  <2>3. ASSUME NEW date \in 0 .. MaxDay
        PROVE  Debited(date)' <= DailyCap
    <3>1. CASE date = day
      <4>1. Debited(date)' = Debited(day)'
        BY <1>0, <3>1 DEF Debited
      <4> QED BY <1>13, <2>2, <4>1
    <3>2. CASE date # day
      BY <1>14, <2>1, <3>2 DEF CapInv, CapsHoldUnlessOvertaken
    <3> QED BY <3>1, <3>2
  <2> QED BY <1>3, <2>2, <2>3
<1>18. CapsHoldUnlessOvertaken'
  BY <1>17 DEF CapsHoldUnlessOvertaken
<1>19. CapInv'
  BY <1>16, <1>18 DEF CapInv
<1> QED BY <1>15, <1>19

LEMMA SumStep ==
  ASSUME MandateInv, SumInv, CapInv, [Next]_vars
  PROVE  SumInv' /\ CapInv'
<1>0. TypeOK
  BY DEF MandateInv
<1>1. CASE UNCHANGED vars
  BY <1>0, <1>1, OthersQuiet, QuietKeeps DEF vars
<1>2. ASSUME NEW d \in Debits, PickDue(d) \/ presentDebit(d) \/ PaymentEnds(d)
      PROVE  SumInv' /\ CapInv'
  <2>1. CASE BookSuccess(d)
    BY <2>1, BookSuccessSums
  <2>2. CASE PickDue(d)
    BY <1>0, <2>2, PickDueQuiet, QuietKeeps
  <2>3. CASE PaymentEnds(d)
    BY <1>0, <2>3, OthersQuiet, QuietKeeps DEF PaymentEnds
  <2>4. ASSUME NEW amount \in Amounts \cup {PerDebitCap},
               PreCheckPasses(d, amount) \/ PreCheckFails(d, amount)
        PROVE  SumInv' /\ CapInv'
    BY <1>0, <2>4, PreCheckPassesQuiet, PreCheckFailsQuiet, QuietKeeps
  <2>5. CASE Pays(d) \/ BookFailure(d) \/ PresentFails(d)
    BY <1>0, <2>5, PaysQuiet, BookFailureQuiet, PresentFailsQuiet, QuietKeeps
  <2> QED BY <1>2, <2>1, <2>2, <2>3, <2>4, <2>5 DEF presentDebit
<1>3. ASSUME NEW op \in Operations, TestPasses(op) \/ Writes(op)
      PROVE  SumInv' /\ CapInv'
  <2>1. UNCHANGED <<debit, day, overtaken>> /\ mandate'.total = mandate.total
    BY <1>0, <1>3 DEF TestPasses, Writes, TypeOK
  <2> QED BY <1>0, <2>1, OthersQuiet, QuietKeeps
<1>4. CASE NextDay
  BY <1>4, NextDaySums
<1> QED BY <1>1, <1>2, <1>3, <1>4 DEF Next

LEMMA SumsInvariant == Spec => [](SumInv /\ CapInv)
  BY MandateInductive, SumInit, SumStep, PTL DEF Spec

\* The counter on the mandate, the log of debits and the payments agree for any
\* number of presentations: the total is the sum of the SUCCESS rows, each paid.
THEOREM TotalIsTheLog == Spec => []TotalIsWhatWasPaid
<1>1. MandateInv /\ SumInv => TotalIsWhatWasPaid
  BY DEF MandateInv, SuccessIsPaid, SumInv, TotalIsWhatWasPaid
<1> QED BY <1>1, MandateInductive, SumsInvariant, PTL

\* The check that presentDebit makes before it pays is enough for both caps,
\* over midnight too, as long as no other debit is booked in between.
THEOREM CapsHold == Spec => []CapsHoldUnlessOvertaken
<1>1. CapInv => CapsHoldUnlessOvertaken
  BY DEF CapInv
<1> QED BY <1>1, SumsInvariant, PTL

-----------------------------------------------------------------------------
(* Requests to pay                                                         *)

\* A call on a request has read it PENDING, and what it was answered stays.
R2PCall(k) ==
  k.step # "idle" =>
    /\ k.on \in Requests /\ k.seen = "PENDING"
    /\ k.step # "read" => k.key = k.on
    /\ k.step = "answered" /\ k.answer = "CONFIRMED" => tx[k.on] = "CONFIRMED"

R2PInv ==
  /\ R2P!TypeOK
  /\ \A c \in Calls : R2PCall(call[c])
  /\ R2P!RequestTellsPayment

LEMMA R2PInit ==
  ASSUME R2P!Init
  PROVE  R2PInv
BY DEF R2P!Init, R2P!CallsInit, R2P!PortInit, R2PInv, R2PCall, R2P!TypeOK, R2P!CallsTypeOK, R2P!PortTypeOK,
       R2P!RequestTellsPayment, R2P!Idle, R2P!Call, R2P!Request, R2P!Steps, R2P!STATES, R2P!TxStates, R2P!Answers

LEMMA R2PStep ==
  ASSUME R2PInv, R2P!Next
  PROVE  R2PInv'
<1> USE DEF R2PInv, R2PCall, R2P!TypeOK, R2P!CallsTypeOK, R2P!PortTypeOK, R2P!RequestTellsPayment,
            R2P!STATES, R2P!TxStates, R2P!Answers, R2P!Steps, R2P!TERMINAL_STATES, R2P!Operations
<1>0. /\ tx \in [Requests -> R2P!TxStates]
      /\ row \in [Requests -> R2P!Request]
      /\ call \in [Calls -> R2P!Call(R2P!Operations, R2P!STATES)]
      /\ overtakenRows \subseteq Requests /\ unheard \subseteq Requests
      /\ R2P!RequestTellsPayment
  OBVIOUS
<1>1. ASSUME NEW r \in Requests, R2P!create(r) \/ R2P!ExpiryPasses(r)
      PROVE  R2PInv'
  <2>1. ASSUME NEW new \in R2P!Request, row' = [row EXCEPT ![r] = new],
               UNCHANGED <<tx, call, overtakenRows, unheard>>, new.state # "PAID" \/ row[r].state = "PAID",
               new.state = "PAID" \/ row[r].state # "PAID"
        PROVE  R2PInv'
    BY <1>0, <2>1
  <2>2. CASE R2P!create(r)
    <3>1. [row[r] EXCEPT !.state = "PENDING"] \in R2P!Request
      BY <1>0 DEF R2P!Request
    <3> QED
      BY <1>0, <2>1, <2>2, <3>1 DEF R2P!create, R2P!Request
  <2>3. CASE R2P!ExpiryPasses(r)
    <3>1. [row[r] EXCEPT !.past = TRUE] \in R2P!Request
      BY <1>0 DEF R2P!Request
    <3> QED
      BY <1>0, <2>1, <2>3, <3>1 DEF R2P!ExpiryPasses, R2P!Request
  <2> QED
    BY <1>1, <2>2, <2>3
<1>2. ASSUME NEW r \in Requests, R2P!RecoversUnheard(r)
      PROVE  R2PInv'
  BY <1>0, <1>2 DEF R2P!RecoversUnheard, R2P!Recovers, R2P!Request
<1>3. ASSUME NEW c \in Calls, NEW r \in Requests, R2P!authorize(c, r) \/ R2P!reject(c, r) \/ R2P!expirePending(c, r)
      PROVE  R2PInv'
  <2>1. PICK op \in R2P!Operations, step \in {"read", "paying"} : R2P!Reads(c, op, r, r, step)
    BY <1>3 DEF R2P!authorize, R2P!reject, R2P!expirePending
  <2>2. row[r].state = "PENDING"
    BY <1>0, <1>3 DEF R2P!authorize, R2P!reject, R2P!expirePending, R2P!IsOpen, R2P!isTerminal, R2P!Request
  <2> QED
    BY <1>0, <2>1, <2>2 DEF R2P!Reads, R2P!Call
<1>4. ASSUME NEW c \in Calls, R2P!Pays(c)
      PROVE  R2PInv'
  BY <1>0, <1>4 DEF R2P!Pays, R2P!process, R2P!Call, R2P!Ends, R2P!Idle
<1>5. ASSUME NEW c \in Calls, R2P!Concludes(c)
      PROVE  R2PInv'
  BY <1>0, <1>5 DEF R2P!Concludes, R2P!Writes, R2P!Hears, R2P!Ends, R2P!Call, R2P!Idle, R2P!Outcome, R2P!Request
<1>6. ASSUME NEW c \in Calls, R2P!WritesUnpaid(c)
      PROVE  R2PInv'
  BY <1>0, <1>6 DEF R2P!WritesUnpaid, R2P!Writes, R2P!Ends, R2P!Call, R2P!Idle, R2P!Request
<1>7. ASSUME NEW c \in Calls, R2P!Dies(c)
      PROVE  R2PInv'
  BY <1>0, <1>7 DEF R2P!Dies, R2P!Ends, R2P!Call, R2P!Idle
<1> QED
  BY <1>1, <1>2, <1>3, <1>4, <1>5, <1>6, <1>7 DEF R2P!Next

-----------------------------------------------------------------------------
(* QR codes                                                                *)

\* Payments of a code that are confirmed and not still in a call's hands.
Told(q, p) == tx[<<p, q>>] = "CONFIRMED" /\ <<p, q>> \notin unheard

\* A code that was not written over and is told of all its payments was paid
\* by one payer if it is CONSUMED, and by nobody before.
QRCode(q) ==
  q \notin overtakenRows =>
    /\ \A p \in Payers : Told(q, p) => row[q].state = "CONSUMED"
    /\ \A p, o \in Payers : Told(q, p) /\ Told(q, o) => p = o
    /\ row[q].state = "CONSUMED" => \E p \in Payers : tx[<<p, q>>] = "CONFIRMED"

QRCall(k) ==
  IF k.step = "idle" THEN k.op = "none" ELSE
    /\ k.on \in Requests /\ k.seen = "ACTIVE"
    /\ k.step # "read" => \E p \in Payers : k.key = <<p, k.on>>
    /\ k.step = "answered" /\ k.answer = "CONFIRMED" => tx[k.key] = "CONFIRMED"

QRInv ==
  /\ QR!TypeOK
  /\ \A c \in Calls : QRCall(call[c])
  /\ \A q \in Requests : QRCode(q)

LEMMA QRInit ==
  ASSUME QR!Init
  PROVE  QRInv
BY DEF QR!Init, QR!CallsInit, QR!PortInit, QRInv, QRCall, QRCode, Told, QR!TypeOK, QR!CallsTypeOK, QR!PortTypeOK,
       QR!Idle, QR!Call, QR!Code, QR!Steps, QR!STATES, QR!QR_TYPES, QR!TxStates, QR!Answers

PayKeys == Payers \X Requests

LEMMA KeyOf ==
  /\ \A p \in Payers, q \in Requests : <<p, q>> \in PayKeys
  /\ \A key \in PayKeys : \E p \in Payers, q \in Requests : key = <<p, q>>
BY DEF PayKeys

QRTyped ==
  /\ tx \in [PayKeys -> QR!TxStates]
  /\ row \in [Requests -> QR!Code]
  /\ call \in [Calls -> QR!Call(QR!Operations, QR!STATES)]
  /\ overtakenRows \subseteq Requests /\ unheard \subseteq PayKeys

\* The records of calls, with the keys as they are named here.
LEMMA QRCallType ==
  QR!Call(QR!Operations, QR!STATES) =
    [op : QR!Operations \cup {"none"}, on : Requests \cup {None}, key : PayKeys \cup {None},
     step : QR!Steps, seen : QR!STATES, answer : QR!Answers]
BY DEF QR!Call, PayKeys

LEMMA QRTypes == QR!TypeOK <=> QRTyped
BY DEF QRTyped, PayKeys, QR!TypeOK, QR!CallsTypeOK, QR!PortTypeOK

\* What is confirmed stays so.
Paid(key) == tx[key] = "CONFIRMED"
PaidStays == \A key \in PayKeys : Paid(key) => Paid(key)'

\* Nothing that a code was not told of is heard by it in the meantime.
NothingHeard == \A key \in PayKeys : Paid(key)' /\ key \notin unheard' => Paid(key) /\ key \notin unheard

LEMMA CodeStays ==
  ASSUME NEW q \in Requests, QRCode(q), PaidStays, NothingHeard, overtakenRows \subseteq overtakenRows',
         q \notin overtakenRows' => (row'[q].state = "CONSUMED" <=> row[q].state = "CONSUMED")
  PROVE  QRCode(q)'
<1>1. \A p \in Payers : /\ Told(q, p)' => Told(q, p)
                        /\ tx[<<p, q>>] = "CONFIRMED" => tx'[<<p, q>>] = "CONFIRMED"
  BY KeyOf DEF Told, PaidStays, NothingHeard, Paid
<1> QED
  BY <1>1 DEF QRCode

LEMMA QRCallStays ==
  ASSUME PaidStays, NEW c \in Calls, QRCall(call[c]), call'[c] \in {call[c], QR!Idle}
  PROVE  QRCall(call[c])'
<1>1. call[c].step # "idle" /\ call[c].step = "answered" => call[c].key \in PayKeys
  BY KeyOf DEF QRCall
<1> QED
  BY <1>1 DEF QRCall, PaidStays, Paid, QR!Idle

LEMMA QRStep ==
  ASSUME QRInv, QR!Next
  PROVE  QRInv'
<1> USE DEF QR!STATES, QR!QR_TYPES, QR!TxStates, QR!Answers, QR!Steps, QR!Operations
<1>0. QRTyped
  BY QRTypes DEF QRInv
<1>a. /\ \A c \in Calls : QRCall(call[c])
      /\ \A q \in Requests : QRCode(q)
  BY DEF QRInv
<1>b. SUFFICES QRTyped' /\ (\A c \in Calls : QRCall(call[c])') /\ (\A q \in Requests : QRCode(q)')
  BY QRTypes DEF QRInv, QRTyped, PayKeys, QR!TypeOK, QR!CallsTypeOK, QR!PortTypeOK
<1> DEFINE Goal == QRTyped' /\ (\A c \in Calls : QRCall(call[c])') /\ (\A q \in Requests : QRCode(q)')
<1>1. ASSUME NEW q \in Requests, QR!createStatic(q) \/ QR!createDynamic(q) \/ QR!ExpiryPasses(q)
      PROVE  Goal
  <2>1. UNCHANGED <<tx, call, overtakenRows, unheard>>
    BY <1>1 DEF QR!createStatic, QR!createDynamic, QR!Creates, QR!ExpiryPasses
  <2>2. PaidStays /\ NothingHeard
    BY <2>1 DEF PaidStays, NothingHeard, Paid
  <2>3. ASSUME NEW new \in QR!Code, row' = [row EXCEPT ![q] = new],
               new.state = "CONSUMED" <=> row[q].state = "CONSUMED"
        PROVE  Goal
    <3>1. QRTyped'
      BY <1>0, <2>1, <2>3 DEF QRTyped
    <3>2. \A o \in Requests : QRCode(o)'
      BY <1>0, <1>a, <2>1, <2>2, <2>3, CodeStays DEF QRTyped
    <3>3. \A c \in Calls : QRCall(call[c])'
      BY <1>a, <2>1, <2>2, QRCallStays
    <3> QED
      BY <3>1, <3>2, <3>3
  <2>4. ASSUME NEW type \in QR!QR_TYPES, QR!Creates(q, type)
        PROVE  Goal
    <3>1. [row[q] EXCEPT !.state = "ACTIVE", !.type = type] \in QR!Code
      BY <1>0 DEF QR!Code, QRTyped
    <3> QED
      BY <1>0, <2>3, <2>4, <3>1 DEF QR!Creates, QR!Code, QRTyped
  <2>5. CASE QR!ExpiryPasses(q)
    <3>1. [row[q] EXCEPT !.past = TRUE] \in QR!Code
      BY <1>0 DEF QR!Code, QRTyped
    <3> QED
      BY <1>0, <2>3, <2>5, <3>1 DEF QR!ExpiryPasses, QR!Code, QRTyped
  <2> QED
    BY <1>1, <2>4, <2>5 DEF QR!createStatic, QR!createDynamic
<1>2. ASSUME NEW q \in Requests, NEW payer \in Payers, QR!RecoversUnheard(<<payer, q>>)
      PROVE  Goal
  <2>1. PICK key \in PayKeys : QR!RecoversUnheard(key)
    BY <1>2, KeyOf
  <2>2. QRTyped' /\ PaidStays /\ NothingHeard
    BY <1>0, <2>1 DEF QRTyped, PaidStays, NothingHeard, Paid, QR!RecoversUnheard, QR!Recovers
  <2>3. UNCHANGED <<row, call, overtakenRows>>
    BY <2>1 DEF QR!RecoversUnheard
  <2> QED
    BY <1>a, <2>2, <2>3, CodeStays, QRCallStays
<1>3. ASSUME NEW c \in Calls, NEW q \in Requests,
             QR!payStatic(c, q) \/ QR!revoke(c, q) \/ \E payer \in Payers : QR!pay(c, q, payer)
      PROVE  Goal
  <2>1. PICK op \in QR!Operations, step \in {"read", "paying"}, key \in PayKeys \cup {None} :
          /\ QR!Reads(c, op, q, key, step)
          /\ step # "read" => \E payer \in Payers : key = <<payer, q>>
    BY <1>3, KeyOf DEF QR!payStatic, QR!revoke, QR!pay
  <2>2. row[q].state = "ACTIVE"
    BY <1>0, <1>3 DEF QR!payStatic, QR!revoke, QR!pay, QR!MayPay, QR!Code, QRTyped
  <2>3. UNCHANGED <<tx, row, overtakenRows, unheard>>
    BY <2>1 DEF QR!Reads
  <2>4. PaidStays /\ NothingHeard
    BY <2>3 DEF PaidStays, NothingHeard, Paid
  <2>5. QRTyped'
    BY <1>0, <2>1, <2>2, <2>3, QRCallType DEF QRTyped, QR!Reads
  <2>6. \A d \in Calls : QRCall(call[d])'
    <3>1. QRCall(call[c])'
      BY <1>0, <2>1, <2>2 DEF QR!Reads, QRCall, QRTyped
    <3> QED
      BY <1>0, <1>a, <2>1, <2>4, <3>1, QRCallStays DEF QRTyped, QR!Reads
  <2> QED
    BY <1>a, <2>3, <2>4, <2>5, <2>6, CodeStays
<1>4. ASSUME NEW c \in Calls, QR!Pays(c)
      PROVE  Goal
  <2> DEFINE key == call[c].key
  <2>1. PICK answer \in QR!Answers :
          /\ QR!process(key, answer)
          /\ IF answer = "ERROR"
               THEN QR!Ends(c) /\ UNCHANGED unheard
               ELSE /\ call' = [call EXCEPT ![c].step = "answered", ![c].answer = answer]
                    /\ unheard' = IF answer = "CONFIRMED" THEN unheard \cup {key} ELSE unheard
    BY <1>4 DEF QR!Pays
  <2>2. UNCHANGED <<row, overtakenRows>> /\ call[c].step = "paying"
    BY <1>4 DEF QR!Pays
  <2>3. call[c].on \in Requests /\ key \in PayKeys /\ \E p \in Payers : key = <<p, call[c].on>>
    BY <1>a, <2>2, KeyOf DEF QRCall
  <2> HIDE DEF key
  <2>4. PaidStays /\ NothingHeard /\ tx' \in [PayKeys -> QR!TxStates] /\ (answer = "CONFIRMED" => tx'[key] = "CONFIRMED")
    BY <1>0, <2>1, <2>3 DEF PaidStays, NothingHeard, Paid, QR!process, QRTyped
  <2>5. QRTyped'
    BY <1>0, <2>1, <2>2, <2>3, <2>4 DEF QRTyped, QR!Call, QR!Ends, QR!Idle
  <2>6. QRCall(call[c])'
    <3>1. CASE answer = "ERROR"
      BY <1>0, <2>1, <3>1 DEF QRTyped, QRCall, QR!Ends, QR!Idle
    <3>2. CASE answer # "ERROR"
      <4>1. call' = [call EXCEPT ![c] = [call[c] EXCEPT !.step = "answered", !.answer = answer]]
        BY <1>0, <2>1, <3>2 DEF QRTyped
      <4>2. call'[c] = [call[c] EXCEPT !.step = "answered", !.answer = answer]
        BY <1>0, <4>1 DEF QRTyped
      <4>3. call[c] \in QR!Call(QR!Operations, QR!STATES)
        BY <1>0 DEF QRTyped
      <4>4. /\ call'[c].on = call[c].on /\ call'[c].seen = call[c].seen /\ call'[c].key = call[c].key
            /\ call'[c].step = "answered" /\ call'[c].answer = answer
        BY <4>2, <4>3, QRCallType
      <4> QED
        BY <1>a, <2>2, <2>3, <2>4, <4>4 DEF QRCall, key
    <3> QED
      BY <3>1, <3>2
  <2>7. \A d \in Calls : QRCall(call[d])'
    BY <1>0, <1>a, <2>1, <2>4, <2>6, QRCallStays DEF QRTyped, QR!Ends
  <2> QED
    BY <1>a, <2>2, <2>4, <2>5, <2>7, CodeStays
<1>5. ASSUME NEW c \in Calls, QR!Consumes(c)
      PROVE  Goal
  <2>0. PICK q \in Requests : q = call[c].on
    BY <1>5, <1>a DEF QRCall, QR!Consumes
  <2>1. call[c].step = "answered" /\ call[c].seen = "ACTIVE" /\ call[c].key \in PayKeys
    BY <1>5, <1>a, KeyOf DEF QRCall, QR!Consumes
  <2>2. PICK p \in Payers : call[c].key = <<p, q>>
    BY <1>a, <2>0, <2>1 DEF QRCall
  <2>3. PaidStays
    BY <1>5 DEF PaidStays, Paid, QR!Consumes
  <2>4. \A d \in Calls : QRCall(call[d])'
    BY <1>0, <1>5, <1>a, <2>3, QRCallStays DEF QR!Consumes, QR!Ends, QRTyped
  <2>5. QRTyped'
    BY <1>0, <1>5, <2>0, <2>1 DEF QR!Consumes, QR!Writes, QR!Hears, QR!Ends, QR!Call, QR!Idle, QR!Code, QRTyped
  <2>6. CASE call[c].answer # "CONFIRMED"
    <3>1. UNCHANGED <<tx, row, overtakenRows, unheard>>
      BY <1>5, <2>6 DEF QR!Consumes, QR!Hears
    <3>2. NothingHeard
      BY <3>1 DEF NothingHeard, Paid
    <3> QED
      BY <1>a, <2>3, <2>4, <2>5, <3>1, <3>2, CodeStays
  <2>7. CASE call[c].answer = "CONFIRMED"
    <3>1. /\ row' = [row EXCEPT ![q] = [row[q] EXCEPT !.state = "CONSUMED"]]
          /\ overtakenRows' = IF row[q].state = "ACTIVE" THEN overtakenRows ELSE overtakenRows \cup {q}
          /\ unheard' = unheard \ {<<p, q>>}
          /\ UNCHANGED tx
      BY <1>5, <2>0, <2>1, <2>2, <2>7 DEF QR!Consumes, QR!Writes, QR!Hears
    <3>2. tx[<<p, q>>] = "CONFIRMED"
      BY <1>a, <2>1, <2>2, <2>7 DEF QRCall
    <3>3. ASSUME q \notin overtakenRows'
          PROVE  QRCode(q)'
      <4>1. row[q].state = "ACTIVE" /\ q \notin overtakenRows
        BY <3>1, <3>3
      <4>2. \A o \in Payers : ~Told(q, o)
        BY <1>a, <2>1, <4>1 DEF QRCode
      <4>3. row'[q].state = "CONSUMED"
        BY <1>0, <2>1, <3>1 DEF QRTyped, QR!Code
      <4>4. \A o \in Payers : Told(q, o)' => o = p
        BY <3>1, <4>2 DEF Told
      <4> QED
        BY <3>1, <3>2, <4>3, <4>4 DEF QRCode
    <3>4. ASSUME NEW o \in Requests, o # q
          PROVE  QRCode(o)'
      <4>1. \A r \in Payers : Told(o, r)' => Told(o, r)
        BY <3>1, <3>4 DEF Told
      <4>2. row'[o] = row[o] /\ (o \in overtakenRows => o \in overtakenRows')
        BY <1>0, <3>1, <3>4 DEF QRTyped
      <4> QED
        BY <1>a, <3>1, <4>1, <4>2 DEF QRCode
    <3> QED
      BY <2>4, <2>5, <3>3, <3>4 DEF QRCode
  <2> QED
    BY <2>6, <2>7
<1>6. ASSUME NEW c \in Calls, QR!Revokes(c)
      PROVE  Goal
  <2>0. call[c].step # "idle"
    BY <1>6, <1>a DEF QRCall, QR!Revokes
  <2>1. PICK q \in Requests : q = call[c].on /\ call[c].seen = "ACTIVE"
    BY <1>a, <2>0 DEF QRCall
  <2>2. PaidStays /\ NothingHeard
    BY <1>6 DEF PaidStays, NothingHeard, Paid, QR!Revokes
  <2>3. QRTyped'
    <3>1. [row[q] EXCEPT !.state = "REVOKED"] \in QR!Code
      BY <1>0 DEF QRTyped, QR!Code
    <3>2. QR!Idle \in QR!Call(QR!Operations, QR!STATES)
      BY QRCallType DEF QR!Idle
    <3> QED
      BY <1>0, <1>6, <2>1, <3>1, <3>2 DEF QR!Revokes, QR!Writes, QR!Ends, QRTyped
  <2>4. \A d \in Calls : QRCall(call[d])'
    BY <1>0, <1>6, <1>a, <2>2, QRCallStays DEF QR!Revokes, QR!Ends, QRTyped
  <2>5. \A o \in Requests : /\ overtakenRows \subseteq overtakenRows'
                            /\ o \notin overtakenRows' => (row'[o].state = "CONSUMED" <=> row[o].state = "CONSUMED")
    BY <1>0, <1>6, <2>1 DEF QR!Revokes, QR!Writes, QR!Code, QRTyped
  <2> QED
    BY <1>a, <2>2, <2>3, <2>4, <2>5, CodeStays
<1>7. ASSUME NEW c \in Calls, QR!Dies(c) \/ QR!StaticPaid(c)
      PROVE  Goal
  <2>1. QR!Ends(c) /\ UNCHANGED <<tx, row, overtakenRows, unheard>>
    BY <1>7 DEF QR!Dies, QR!StaticPaid
  <2>2. PaidStays /\ NothingHeard
    BY <2>1 DEF PaidStays, NothingHeard, Paid
  <2>3. QRTyped' /\ \A d \in Calls : call'[d] \in {call[d], QR!Idle}
    BY <1>0, <2>1 DEF QR!Ends, QR!Call, QR!Idle, QRTyped
  <2> QED
    BY <1>a, <2>1, <2>2, <2>3, CodeStays, QRCallStays
<1> QED
  BY <1>1, <1>2, <1>3, <1>4, <1>5, <1>6, <1>7 DEF QR!Next

LEMMA QRCount == ASSUME NEW S PROVE QR!Cardinality(S) = Cardinality(S)
BY DEF QR!Cardinality, Cardinality

LEMMA QRTells ==
  ASSUME QRInv
  PROVE  QR!CodeTellsPayment
<1>1. SUFFICES ASSUME NEW q \in Requests \ overtakenRows, unheard \cap (Payers \X {q}) = {}
               PROVE  Cardinality(QR!PaidBy(q)) = IF row[q].state = "CONSUMED" THEN 1 ELSE 0
  BY QRCount DEF QR!CodeTellsPayment
<1>2. \A p \in Payers : <<p, q>> \notin unheard
  BY <1>1
<1>3. CASE row[q].state = "CONSUMED"
  <2>1. PICK p \in Payers : tx[<<p, q>>] = "CONFIRMED"
    BY <1>1, <1>3 DEF QRInv, QRCode
  <2>2. QR!PaidBy(q) = {p}
    BY <1>1, <1>2, <2>1 DEF QRInv, QRCode, Told, QR!PaidBy
  <2> QED
    BY <1>3, <2>2, FS_Singleton
<1>4. CASE row[q].state # "CONSUMED"
  <2>1. QR!PaidBy(q) = {}
    BY <1>1, <1>2, <1>4 DEF QRInv, QRCode, Told, QR!PaidBy
  <2> QED
    BY <1>4, <2>1, FS_EmptySet
<1> QED
  BY <1>3, <1>4

-----------------------------------------------------------------------------
(* Cash-outs                                                               *)

CashCall(k) ==
  IF k.step = "idle" THEN k.op = "none" ELSE
    /\ k.on \in Requests /\ k.key = k.on
    /\ k.seen \in {"INITIATED", "AUTHORIZED"}
    /\ k.op = "guess" => k.step = "read"
    /\ k.step = "read" => k.op \notin {"none", "complete"}
    /\ k.step = "answered" /\ k.answer = "CONFIRMED" => tx[k.on] = "CONFIRMED"

CashInv ==
  /\ Cash!TypeOK
  /\ \A c \in Calls : CashCall(call[c])
  /\ Cash!CashTellsPayment
  /\ Cash!OnlyOverlapExceedsAttempts

Guessing(r) == {c \in Calls : call[c].on = r /\ call[c].op = "guess"}

LEMMA CallCount == Cardinality(Calls) \in Nat
BY CallsAreFinite, FS_CardinalityType

LEMMA GuessCount ==
  ASSUME NEW r
  PROVE  IsFiniteSet(Guessing(r)) /\ Cardinality(Guessing(r)) \in Nat /\ Cardinality(Guessing(r)) <= Cardinality(Calls)
<1>1. Guessing(r) \subseteq Calls
  BY DEF Guessing
<1> QED
  BY <1>1, CallsAreFinite, FS_Subset, FS_CardinalityType

LEMMA CashCount == ASSUME NEW S PROVE Cash!Cardinality(S) = Cardinality(S)
BY DEF Cash!Cardinality, Cardinality

LEMMA CashAttempts ==
  Cash!OnlyOverlapExceedsAttempts <=>
    \A r \in Requests :
      row[r].attempts + Cardinality(Guessing(r)) < cashoutOtpMaxAttempts + Cardinality(Calls)
BY CashCount DEF Cash!OnlyOverlapExceedsAttempts, Guessing

LEMMA CashInit ==
  ASSUME Cash!Init
  PROVE  CashInv
<1> USE DEF Cash!Init, Cash!CallsInit, Cash!PortInit, Cash!Idle
<1>1. cashoutOtpMaxAttempts \in Nat \ {0} /\ Cardinality(Calls) \in Nat
  BY LimitsAssumption, CallCount
<1>2. ASSUME NEW r \in Requests
      PROVE  row[r].attempts = 0 /\ Cardinality(Guessing(r)) = 0
  <2>1. Guessing(r) = {}
    BY DEF Guessing
  <2> QED
    BY <2>1, FS_EmptySet
<1>3. Cash!OnlyOverlapExceedsAttempts
  BY <1>1, <1>2, CashAttempts
<1> QED
  BY <1>1, <1>3, CashCount DEF CashInv, CashCall, Cash!TypeOK, Cash!CallsTypeOK, Cash!PortTypeOK, Cash!CashTellsPayment, Cash!CashRequest,
     Cash!Call, Cash!Steps, Cash!STATES, Cash!TxStates, Cash!Answers

\* A call that is not guessing after a step was not one of those that count.
LEMMA AttemptsStay ==
  ASSUME CashInv, \A r \in Requests : row'[r].attempts = row[r].attempts,
         \A r \in Requests : Guessing(r)' \subseteq Guessing(r)
  PROVE  Cash!OnlyOverlapExceedsAttempts'
<1>1. ASSUME NEW r \in Requests
      PROVE  row'[r].attempts + Cardinality(Guessing(r)') < cashoutOtpMaxAttempts + Cardinality(Calls)
  <2>1. row[r].attempts + Cardinality(Guessing(r)) < cashoutOtpMaxAttempts + Cardinality(Calls)
    BY CashAttempts DEF CashInv
  <2>2. row[r].attempts \in Nat
    BY CallCount, CashCount, LimitsAssumption DEF CashInv, Cash!TypeOK, Cash!CallsTypeOK, Cash!CashRequest
  <2>3. Cardinality(Guessing(r)') \in Nat /\ Cardinality(Guessing(r)') <= Cardinality(Guessing(r))
    BY GuessCount, FS_Subset, FS_CardinalityType
  <2> QED
    BY <2>1, <2>2, <2>3, GuessCount, CallCount, LimitsAssumption
<1> QED
  BY <1>1, CashCount DEF Cash!OnlyOverlapExceedsAttempts, Guessing

LEMMA CashStep ==
  ASSUME CashInv, Cash!Next
  PROVE  CashInv'
<1> DEFINE TypesAndCalls == Cash!TypeOK /\ (\A c \in Calls : CashCall(call[c])) /\ Cash!CashTellsPayment
<1> USE DEF CashCall, Cash!TypeOK, Cash!CallsTypeOK, Cash!PortTypeOK, Cash!CashTellsPayment,
            Cash!STATES, Cash!TxStates, Cash!Answers, Cash!Steps, Cash!TERMINAL_STATES, Cash!Operations
<1>0. /\ tx \in [Requests -> Cash!TxStates]
      /\ row \in [Requests -> Cash!CashRequest]
      /\ call \in [Calls -> Cash!Call(Cash!Operations, Cash!STATES)]
      /\ overtakenRows \subseteq Requests /\ unheard \subseteq Requests
      /\ TypesAndCalls
  BY DEF CashInv
<1>a. /\ cashoutOtpMaxAttempts \in Nat \ {0} /\ Cardinality(Calls) \in Nat
      /\ Cash!Cardinality(Calls) = Cardinality(Calls)
  BY LimitsAssumption, CallCount, CashCount
<1>1. ASSUME NEW r \in Requests, Cash!initiate(r) \/ Cash!ExpiryPasses(r)
      PROVE  CashInv'
  <2>1. UNCHANGED <<tx, call, overtakenRows, unheard>>
    BY <1>1 DEF Cash!initiate, Cash!ExpiryPasses
  <2>2. ASSUME NEW new \in Cash!CashRequest, row' = [row EXCEPT ![r] = new],
               new.attempts = row[r].attempts, new.state = "COMPLETED" <=> row[r].state = "COMPLETED"
        PROVE  CashInv'
    <3>1. TypesAndCalls'
      BY <1>0, <2>1, <2>2
    <3>2. Cash!OnlyOverlapExceedsAttempts'
      BY <1>0, <2>1, <2>2, AttemptsStay DEF Guessing
    <3> QED
      BY <3>1, <3>2 DEF CashInv
  <2>3. CASE Cash!initiate(r)
    <3>1. [row[r] EXCEPT !.state = "INITIATED"] \in Cash!CashRequest
      BY <1>0 DEF Cash!CashRequest
    <3> QED
      BY <1>0, <2>2, <2>3, <3>1 DEF Cash!initiate, Cash!CashRequest
  <2>4. CASE Cash!ExpiryPasses(r)
    <3>1. [row[r] EXCEPT !.past = TRUE] \in Cash!CashRequest
      BY <1>0 DEF Cash!CashRequest
    <3> QED
      BY <1>0, <2>2, <2>4, <3>1 DEF Cash!ExpiryPasses, Cash!CashRequest
  <2> QED
    BY <1>1, <2>3, <2>4
<1>2. ASSUME NEW r \in Requests, Cash!RecoversUnheard(r)
      PROVE  CashInv'
  <2>1. TypesAndCalls'
    BY <1>0, <1>2 DEF Cash!RecoversUnheard, Cash!Recovers, Cash!CashRequest
  <2>2. Cash!OnlyOverlapExceedsAttempts'
    BY <1>2, AttemptsStay DEF Cash!RecoversUnheard, Guessing
  <2> QED
    BY <2>1, <2>2 DEF CashInv
<1>3. ASSUME NEW c \in Calls, NEW r \in Requests,
             Cash!authorize(c, r) \/ Cash!complete(c, r) \/ Cash!cancel(c, r) \/ Cash!expirePast(c, r)
      PROVE  CashInv'
  <2>1. row[r].state \in {"INITIATED", "AUTHORIZED"}
    BY <1>0, <1>3 DEF Cash!authorize, Cash!complete, Cash!cancel, Cash!expirePast, Cash!MayCancel, Cash!CashRequest
  <2>2. PICK op \in Cash!Operations \ {"complete"} : /\ Cash!Reads(c, op, r, r, "read")
                                                     /\ op = "guess" => ~Cash!Exhausted(row[r].attempts)
    <3>1. CASE Cash!complete(c, r)
      <4>1. row[r].past \in BOOLEAN
        BY <1>0 DEF Cash!CashRequest
      <4>2. CASE row[r].past
        BY <3>1, <4>2 DEF Cash!complete
      <4>3. CASE ~row[r].past /\ Cash!Exhausted(row[r].attempts)
        BY <3>1, <4>3 DEF Cash!complete
      <4>4. CASE ~row[r].past /\ ~Cash!Exhausted(row[r].attempts)
        BY <3>1, <4>4 DEF Cash!complete
      <4> QED
        BY <4>1, <4>2, <4>3, <4>4
    <3>2. CASE Cash!authorize(c, r) \/ Cash!cancel(c, r) \/ Cash!expirePast(c, r)
      BY <3>2 DEF Cash!authorize, Cash!cancel, Cash!expirePast
    <3> QED
      BY <1>3, <3>1, <3>2
  <2>3. TypesAndCalls'
    BY <1>0, <2>1, <2>2 DEF Cash!Reads, Cash!Call, Cash!CashRequest
  <2>4. Cash!OnlyOverlapExceedsAttempts'
    <3>1. CASE op # "guess"
      BY <1>0, <2>2, <3>1, AttemptsStay DEF Cash!Reads, Guessing
    <3>2. CASE op = "guess"
      <4>1. ASSUME NEW u \in Requests, u # r
            PROVE  Guessing(u)' \subseteq Guessing(u)
        BY <1>0, <2>2, <4>1 DEF Cash!Reads, Guessing
      <4>2. ASSUME NEW u \in Requests
            PROVE  row[u].attempts + Cardinality(Guessing(u)') < cashoutOtpMaxAttempts + Cardinality(Calls)
        <5>1. row[u].attempts \in Nat
          BY <1>0, <1>a DEF Cash!CashRequest
        <5>2. Guessing(u)' \subseteq Calls
          BY DEF Guessing
        <5>3. Cardinality(Guessing(u)') \in Nat /\ Cardinality(Guessing(u)') <= Cardinality(Calls)
          BY <5>2, CallsAreFinite, FS_Subset, FS_CardinalityType
        <5>4. CASE u = r
          BY <1>a, <2>2, <3>2, <5>1, <5>3, <5>4 DEF Cash!Exhausted
        <5>5. CASE u # r
          <6>1. Cardinality(Guessing(u)') <= Cardinality(Guessing(u))
            BY <4>1, <5>5, GuessCount, FS_Subset
          <6>2. row[u].attempts + Cardinality(Guessing(u)) < cashoutOtpMaxAttempts + Cardinality(Calls)
            BY CashAttempts DEF CashInv
          <6> QED
            BY <1>a, <5>1, <5>3, <6>1, <6>2, GuessCount
        <5> QED
          BY <5>4, <5>5
      <4> QED
        BY <2>2, <4>2, CashCount DEF Cash!OnlyOverlapExceedsAttempts, Guessing, Cash!Reads
    <3> QED
      BY <3>1, <3>2
  <2> QED
    BY <2>3, <2>4 DEF CashInv
<1>4. ASSUME NEW c \in Calls, Cash!bumpOtpAttempt(c)
      PROVE  CashInv'
  <2>1. PICK r \in Requests : r = call[c].on
    BY <1>0, <1>4 DEF Cash!bumpOtpAttempt
  <2>2. c \in Guessing(r) /\ c \notin Guessing(r)'
    BY <1>0, <1>4, <2>1 DEF Cash!bumpOtpAttempt, Guessing, Cash!Ends, Cash!Idle, Cash!Call
  <2>3. \A u \in Requests : Guessing(u)' \subseteq Guessing(u)
    BY <1>0, <1>4, <2>1 DEF Cash!bumpOtpAttempt, Guessing, Cash!Ends, Cash!Idle, Cash!Call
  <2>4. \A u \in Requests : row[u].attempts \in Nat
    BY <1>0, <1>a DEF Cash!CashRequest
  <2>5. row' = [row EXCEPT ![r] = [row[r] EXCEPT !.attempts = row[r].attempts + 1]]
    BY <1>0, <1>4, <2>1 DEF Cash!bumpOtpAttempt
  <2>6. ASSUME NEW u \in Requests
        PROVE  row'[u].attempts + Cardinality(Guessing(u)') < cashoutOtpMaxAttempts + Cardinality(Calls)
    <3>1. row[u].attempts + Cardinality(Guessing(u)) < cashoutOtpMaxAttempts + Cardinality(Calls)
      BY CashAttempts DEF CashInv
    <3>2. Cardinality(Guessing(u)') \in Nat /\ Cardinality(Guessing(u)') <= Cardinality(Guessing(u))
      BY <2>3, GuessCount, FS_Subset, FS_CardinalityType
    <3>3. CASE u = r
      <4>1. Guessing(r)' \subseteq Guessing(r) \ {c}
        BY <2>2, <2>3
      <4>2. IsFiniteSet(Guessing(r) \ {c}) /\ Cardinality(Guessing(r) \ {c}) = Cardinality(Guessing(r)) - 1
        BY <2>2, GuessCount, FS_RemoveElement
      <4>3. Cardinality(Guessing(r)') <= Cardinality(Guessing(r)) - 1
        BY <4>1, <4>2, FS_Subset
      <4>4. row'[r].attempts = row[r].attempts + 1
        BY <1>0, <2>5 DEF Cash!CashRequest
      <4> QED
        BY <1>a, <2>4, <3>1, <3>2, <3>3, <4>3, <4>4, GuessCount
    <3>4. CASE u # r
      <4>1. row'[u] = row[u]
        BY <1>0, <2>5, <3>4
      <4> QED
        BY <1>a, <2>4, <3>1, <3>2, <4>1, GuessCount
    <3> QED
      BY <3>3, <3>4
  <2>7. Cash!OnlyOverlapExceedsAttempts'
    BY <2>6, CashCount DEF Cash!OnlyOverlapExceedsAttempts, Guessing
  <2>8. row' \in [Requests -> Cash!CashRequest]
    <3>1. row'[r].attempts \in 0 .. cashoutOtpMaxAttempts + Cardinality(Calls)
      <4>1. row'[r].attempts = row[r].attempts + 1
        BY <1>0, <2>5 DEF Cash!CashRequest
      <4>2. Cardinality(Guessing(r)') \in Nat
        BY <2>3, GuessCount, FS_Subset, FS_CardinalityType
      <4> QED
        BY <1>a, <2>4, <2>6, <4>1, <4>2
    <3>2. row'[r] = [row[r] EXCEPT !.attempts = row'[r].attempts]
      BY <1>0, <2>5 DEF Cash!CashRequest
    <3>3. row'[r] \in Cash!CashRequest
      BY <1>0, <1>a, <3>1, <3>2 DEF Cash!CashRequest
    <3> QED
      BY <1>0, <2>5, <3>3
  <2>9. \A u \in Requests : row'[u].state = row[u].state
    BY <1>0, <2>5 DEF Cash!CashRequest
  <2>10. UNCHANGED <<tx, overtakenRows, unheard>> /\ call[c].step = "read"
    BY <1>4 DEF Cash!bumpOtpAttempt
  <2>11. /\ call' \in [Calls -> Cash!Call(Cash!Operations, Cash!STATES)]
         /\ \A d \in Calls : CashCall(call'[d])
    <3>1. CASE Cash!Ends(c)
      BY <1>0, <2>10, <3>1 DEF Cash!Ends, Cash!Idle, Cash!Call
    <3>2. CASE call' = [call EXCEPT ![c].op = "complete", ![c].step = "paying"]
      BY <1>0, <2>10, <3>2 DEF Cash!Call
    <3> QED
      BY <1>4, <3>1, <3>2 DEF Cash!bumpOtpAttempt
  <2>12. TypesAndCalls'
    BY <1>0, <2>8, <2>9, <2>10, <2>11
  <2> QED
    BY <2>7, <2>12 DEF CashInv
<1>5. ASSUME NEW c \in Calls, Cash!Pays(c)
      PROVE  CashInv'
  <2>1. TypesAndCalls'
    BY <1>0, <1>5 DEF Cash!Pays, Cash!process, Cash!Call, Cash!Ends, Cash!Idle
  <2>2. \A d \in Calls : call'[d].op \in {call[d].op, "none"} /\ call'[d].on \in {call[d].on, None}
    BY <1>0, <1>5 DEF Cash!Pays, Cash!Ends, Cash!Idle, Cash!Call
  <2>3. \A u \in Requests : Guessing(u)' \subseteq Guessing(u)
    BY <1>0, <1>5 DEF Cash!Pays, Cash!Ends, Cash!Idle, Cash!Call, Guessing
  <2>4. Cash!OnlyOverlapExceedsAttempts'
    BY <1>5, <2>3, AttemptsStay DEF Cash!Pays
  <2> QED
    BY <2>1, <2>4 DEF CashInv
<1>6. ASSUME NEW c \in Calls, Cash!Concludes(c) \/ Cash!WritesUnpaid(c) \/ Cash!Dies(c)
      PROVE  CashInv'
  <2>1. TypesAndCalls'
    <3>1. CASE Cash!Concludes(c)
      <4>1. Cash!TypeOK' /\ (\A d \in Calls : CashCall(call[d])')
        BY <1>0, <3>1 DEF Cash!Concludes, Cash!Writes, Cash!Hears, Cash!Ends, Cash!Call, Cash!Idle, Cash!CashRequest
      <4>2. Cash!CashTellsPayment'
        BY <1>0, <3>1 DEF Cash!Concludes, Cash!Writes, Cash!Hears, Cash!CashRequest
      <4> QED
        BY <4>1, <4>2
    <3>2. CASE Cash!WritesUnpaid(c)
      <4>1. call[c].op \in {"authorize", "cancel", "expire", "expirePast"}
        BY <1>0, <3>2 DEF Cash!WritesUnpaid, Cash!Call
      <4>2. Cash!StateAfter(call[c].op) \in {"AUTHORIZED", "CANCELLED", "EXPIRED"}
        <5>1. CASE call[c].op = "authorize"
          BY <5>1 DEF Cash!StateAfter
        <5>2. CASE call[c].op = "cancel"
          BY <5>2 DEF Cash!StateAfter
        <5>3. CASE call[c].op \in {"expire", "expirePast"}
          BY <5>3 DEF Cash!StateAfter
        <5> QED
          BY <4>1, <5>1, <5>2, <5>3
      <4> QED
        BY <1>0, <3>2, <4>2 DEF Cash!WritesUnpaid, Cash!Writes, Cash!Ends, Cash!Call, Cash!Idle, Cash!CashRequest
    <3>3. CASE Cash!Dies(c)
      BY <1>0, <3>3 DEF Cash!Dies, Cash!Ends, Cash!Call, Cash!Idle
    <3> QED
      BY <1>6, <3>1, <3>2, <3>3
  <2>2. Cash!Ends(c)
    BY <1>6 DEF Cash!Concludes, Cash!WritesUnpaid, Cash!Dies
  <2>3. \A u \in Requests : Guessing(u)' \subseteq Guessing(u)
    BY <1>0, <2>2 DEF Cash!Ends, Cash!Idle, Guessing
  <2>4. \A u \in Requests : row'[u].attempts = row[u].attempts
    BY <1>0, <1>6 DEF Cash!Concludes, Cash!WritesUnpaid, Cash!Dies, Cash!Writes, Cash!CashRequest
  <2> QED
    BY <2>1, <2>3, <2>4, AttemptsStay DEF CashInv
<1> QED
  BY <1>1, <1>2, <1>3, <1>4, <1>5, <1>6 DEF Cash!Next

-----------------------------------------------------------------------------
(* Refunds                                                                 *)

\* A refund has one call, which finds its row as it left it.
RefundCall(k) ==
  IF k.step = "idle" THEN k.op = "none" ELSE
    /\ k.on \in Refunded /\ k.key = k.on
    /\ k.step = "read" => row[k.on].state = "ABSENT"
    /\ k.step \in {"paying", "answered"} => row[k.on].state = "PROCESSING" /\ k.seen = "PROCESSING"
    /\ k.step \in {"read", "paying"} => tx[k.on] = "NONE"
    /\ k.step = "answered" /\ k.answer = "CONFIRMED" => tx[k.on] = "CONFIRMED"
    /\ k.step = "answered" /\ k.answer # "CONFIRMED" => tx[k.on] # "CONFIRMED" \/ k.on \in unheard

Busy(c, r) == call[c].step # "idle" /\ call[c].on = r

RefundRow(r) ==
  /\ row[r].state = "ABSENT" => tx[r] = "NONE"
  /\ row[r].state = "COMPLETED" => tx[r] = "CONFIRMED"
  /\ tx[r] = "CONFIRMED" /\ r \notin unheard => row[r].state = "COMPLETED"
  /\ r \in unheard => tx[r] = "CONFIRMED"
  /\ row[r].amount = 0 => row[r].state = "ABSENT" /\ \A c \in RefundCalls : ~Busy(c, r)
  /\ \A c, d \in RefundCalls : Busy(c, r) /\ Busy(d, r) => c = d

\* Refunds that were paid or may still be, and those that were paid behind
\* their row's back.
Live == {r \in Refunded : \/ tx[r] \in {"CONFIRMED", "PENDING_RECONCILIATION"}
                          \/ row[r].state = "PROCESSING"
                          \/ \E c \in RefundCalls : Busy(c, r)}
Lost == {r \in unheard : row[r].state # "PROCESSING"}

Owed(refunds) == SumFunctionOnSet([r \in Refunded |-> row[r].amount], refunds)

LiveInv ==
  /\ IsFiniteSet({r \in Refunded : row[r].amount # 0})
  /\ overtakenRows \cup Lost = {} => Owed(Live) <= Original

RefundInv ==
  /\ Refund!TypeOK
  /\ \A c \in RefundCalls : RefundCall(call[c])
  /\ \A r \in Refunded : RefundRow(r)
  /\ LiveInv

LEMMA RefundSum == \A refunds : Refund!AmountsOf(refunds) = Owed(refunds)
BY DEF Refund!AmountsOf, Owed, Refund!SumFunctionOnSet, Refund!FoldFunctionOnSet, Refund!MapThenFoldSet,
       SumFunctionOnSet, FoldFunctionOnSet, MapThenFoldSet

LEMMA RefundInit ==
  ASSUME Refund!Init
  PROVE  RefundInv
<1> USE DEF Refund!Init, Refund!CallsInit, Refund!PortInit, Refund!Idle
<1>1. Live = {}
  BY DEF Live, Busy
<1>2. Owed(Live) = 0
  BY <1>1, SumEmpty DEF Owed
<1>3. {r \in Refunded : row[r].amount # 0} = {}
  OBVIOUS
<1>4. LiveInv
  BY <1>2, <1>3, LimitsAssumption, FS_EmptySet DEF LiveInv
<1> QED
  BY <1>4 DEF RefundInv, RefundCall, RefundRow, Busy, Refund!TypeOK, Refund!CallsTypeOK, Refund!PortTypeOK, Refund!Refund,
     Refund!Call, Refund!Steps, Refund!REFUND_STATES, Refund!TxStates, Refund!Answers

LEMMA RefundAmounts ==
  ASSUME Refund!TypeOK
  PROVE  \A r \in Refunded : row[r].amount \in Nat
<1>1. ASSUME NEW r \in Refunded PROVE row[r].amount \in Amounts \cup {0}
  BY DEF Refund!TypeOK, Refund!CallsTypeOK, Refund!Refund
<1>2. Amounts \cup {0} \subseteq Nat
  BY Numbers
<1> QED
  BY <1>1, <1>2, Zenon

\* One call works on a refund.
LEMMA OneCall ==
  ASSUME NEW r \in Refunded, RefundRow(r), NEW c \in RefundCalls, call[c].step # "idle", call[c].on = r,
         NEW d \in RefundCalls, d # c, call[d].step # "idle"
  PROVE  call[d].on # r
BY DEF RefundRow, Busy

LEMMA LiveStays ==
  ASSUME RefundInv, Refund!TypeOK', \A r \in Refunded : row'[r].amount = row[r].amount,
         Live' \subseteq Live, Lost \subseteq Lost', overtakenRows \subseteq overtakenRows'
  PROVE  LiveInv'
<1> DEFINE m == [r \in Refunded |-> row[r].amount]
<1>1. {r \in Refunded : row'[r].amount # 0} = {r \in Refunded : row[r].amount # 0}
  OBVIOUS
<1>2. SUFFICES ASSUME overtakenRows' \cup Lost' = {} PROVE Owed(Live)' <= Original
  BY <1>1 DEF LiveInv, RefundInv
<1>3. Owed(Live) <= Original
  BY <1>2 DEF LiveInv, RefundInv
<1>4. [r \in Refunded |-> row'[r].amount] = m
  OBVIOUS
<1>5. \A r \in Refunded : m[r] \in Nat
  BY RefundAmounts DEF RefundInv
<1>6. IsFiniteSet(Live)
  <2>1. Live \subseteq {r \in Refunded : row[r].amount # 0}
    BY DEF Live, RefundInv, RefundRow
  <2> QED
    BY <2>1, FS_Subset DEF RefundInv, LiveInv
<1>7. SumFunctionOnSet(m, Live') <= SumFunctionOnSet(m, Live)
  BY <1>5, <1>6, SumGrows DEF Live
<1> HIDE DEF m
<1>8. SumFunctionOnSet(m, Live) \in Nat /\ SumFunctionOnSet(m, Live') \in Nat
  <2>1. \A r \in Live : m[r] \in Nat
    BY <1>5 DEF Live
  <2>2. IsFiniteSet(Live') /\ \A r \in Live' : m[r] \in Nat
    BY <1>6, <2>1, FS_Subset
  <2> QED
    BY <1>6, <2>1, <2>2, SumNat
<1>9. Owed(Live)' = SumFunctionOnSet(m, Live') /\ Owed(Live) = SumFunctionOnSet(m, Live)
  BY <1>4 DEF Owed, m
<1> QED
  BY <1>3, <1>7, <1>8, <1>9, LimitsAssumption

LEMMA RefundStep ==
  ASSUME RefundInv, Refund!Next
  PROVE  RefundInv'
<1> USE DEF Refund!REFUND_STATES, Refund!TxStates, Refund!Answers, Refund!Steps
<1> DEFINE Types == Refund!TypeOK
           Known == (\A c \in RefundCalls : RefundCall(call[c])) /\ (\A r \in Refunded : RefundRow(r))
<1>t. Types <=> /\ tx \in [Refunded -> Refund!TxStates]
                /\ row \in [Refunded -> Refund!Refund]
                /\ call \in [RefundCalls -> Refund!Call({"initiate"}, Refund!REFUND_STATES)]
                /\ overtakenRows \subseteq Refunded /\ unheard \subseteq Refunded
  BY DEF Refund!TypeOK, Refund!CallsTypeOK, Refund!PortTypeOK
<1>0. /\ tx \in [Refunded -> Refund!TxStates]
      /\ row \in [Refunded -> Refund!Refund]
      /\ call \in [RefundCalls -> Refund!Call({"initiate"}, Refund!REFUND_STATES)]
      /\ overtakenRows \subseteq Refunded /\ unheard \subseteq Refunded
      /\ Known
  BY <1>t DEF RefundInv
<1>1. ASSUME NEW r \in Refunded, Refund!RecoversUnheard(r)
      PROVE  RefundInv'
  <2>1. Types'
    BY <1>0, <1>1 DEF Refund!TypeOK, Refund!CallsTypeOK, Refund!PortTypeOK, Refund!RecoversUnheard, Refund!Recovers
  <2>2. Known'
    BY <1>0, <1>1 DEF Refund!RecoversUnheard, Refund!Recovers, RefundCall, RefundRow, Busy, Refund!Refund
  <2>3. Live' \subseteq Live /\ Lost \subseteq Lost'
    BY <1>0, <1>1 DEF Refund!RecoversUnheard, Refund!Recovers, Live, Lost, Busy
  <2> QED
    BY <1>1, <2>1, <2>2, <2>3, LiveStays DEF RefundInv, Refund!RecoversUnheard
<1>2. ASSUME NEW c \in RefundCalls, NEW r \in Refunded, NEW amount \in Amounts, Refund!initiate(c, r, amount)
      PROVE  RefundInv'
  <2>1. /\ row[r] = [state |-> "ABSENT", amount |-> 0]
        /\ call[c].step = "idle"
        /\ call' = [call EXCEPT ![c] = [Refund!Idle EXCEPT !.op = "initiate", !.on = r, !.key = r, !.step = "read"]]
        /\ row' = [row EXCEPT ![r] = [row[r] EXCEPT !.amount = amount]]
        /\ overtakenRows' = IF Refund!Unseen(c) THEN overtakenRows \cup {r} ELSE overtakenRows
        /\ UNCHANGED <<tx, unheard>>
    BY <1>0, <1>2 DEF Refund!initiate
  <2>2. amount \in Nat \ {0}
    BY CapsAssumption
  <2>3. row'[r] = [state |-> "ABSENT", amount |-> amount]
    BY <1>0, <2>1
  <2>4. call'[c] = [Refund!Idle EXCEPT !.op = "initiate", !.on = r, !.key = r, !.step = "read"]
    BY <1>0, <2>1
  <2>5. Types'
    BY <1>0, <2>1, <2>3, <2>4 DEF Refund!TypeOK, Refund!CallsTypeOK, Refund!PortTypeOK, Refund!Refund, Refund!Call, Refund!Idle
  <2>6. tx[r] = "NONE" /\ \A d \in RefundCalls : ~Busy(d, r)
    BY <1>0, <2>1 DEF RefundRow
  <2>7. \A d \in RefundCalls : RefundCall(call[d])'
    BY <1>0, <2>1, <2>3, <2>4, <2>6 DEF RefundCall, Busy, Refund!Idle
  <2>8. \A u \in Refunded, d \in RefundCalls : Busy(d, u)' <=> Busy(d, u) \/ (d = c /\ u = r)
    BY <1>0, <2>1, <2>4 DEF Busy, Refund!Idle
  <2>9. \A u \in Refunded : RefundRow(u)'
    BY <1>0, <2>1, <2>2, <2>3, <2>6, <2>8 DEF RefundRow
  <2>10. LiveInv'
    <3> DEFINE m == [u \in Refunded |-> row[u].amount]
               n == [u \in Refunded |-> row'[u].amount]
               asked == {u \in Refunded : row[u].amount # 0}
               settled == {u \in Refunded : row[u].state = "COMPLETED"}
    <3>1. {u \in Refunded : row'[u].amount # 0} = asked \cup {r}
      BY <1>0, <2>1, <2>2, <2>3
    <3>2. IsFiniteSet(asked \cup {r})
      BY FS_AddElement DEF RefundInv, LiveInv
    <3>3. SUFFICES ASSUME overtakenRows' \cup Lost' = {} PROVE Owed(Live)' <= Original
      BY <3>1, <3>2 DEF LiveInv
    <3>4. Lost' = Lost /\ ~Refund!Unseen(c)
      BY <1>0, <2>1, <2>3, <3>3 DEF Lost
    <3>5. Live \subseteq settled
      BY <1>0, <2>1, <3>3, <3>4 DEF Live, Lost, Busy, RefundRow, Refund!Unseen
    <3>6. Live' = Live \cup {r} /\ r \notin Live
      BY <1>0, <2>1, <2>3, <2>6, <2>8 DEF Live
    <3>7. IsFiniteSet(settled) /\ IsFiniteSet(Live)
      <4>1. settled \subseteq asked
        BY <1>0 DEF RefundRow
      <4> QED
        BY <3>5, <4>1, FS_Subset DEF RefundInv, LiveInv
    <3>8. \A u \in Refunded : m[u] \in Nat
      BY RefundAmounts DEF RefundInv
    <3>9. (\A u \in Live : n[u] = m[u]) /\ n[r] = amount
      <4>1. \A u \in Live : u \in Refunded /\ row'[u] = row[u]
        BY <1>0, <2>1, <3>6 DEF Live
      <4> QED
        BY <2>3, <4>1
    <3>10. Owed(settled) + amount <= Original
      BY <1>2, RefundSum DEF Refund!initiate, Refund!WithinOriginal, Refund!sumCompletedForOriginal
    <3>11. Owed(Live)' = SumFunctionOnSet(n, Live \cup {r}) /\ Owed(settled) = SumFunctionOnSet(m, settled)
      BY <3>6 DEF Owed
    <3> HIDE DEF m, n
    <3>12. SumFunctionOnSet(n, Live \cup {r}) = SumFunctionOnSet(m, Live) + amount
      <4>1. \A u \in Live : m[u] \in Int /\ n[u] = m[u]
        BY <3>8, <3>9 DEF Live
      <4> QED
        BY <2>2, <3>6, <3>7, <3>9, <4>1, SumAdd
    <3>13. SumFunctionOnSet(m, Live) <= SumFunctionOnSet(m, settled)
      BY <3>5, <3>7, <3>8, SumGrows
    <3>14. SumFunctionOnSet(m, Live) \in Nat /\ SumFunctionOnSet(m, settled) \in Nat
      <4>1. (\A u \in Live : m[u] \in Nat) /\ (\A u \in settled : m[u] \in Nat)
        BY <3>8 DEF Live
      <4> QED
        BY <3>7, <4>1, SumNat
    <3> QED
      BY <2>2, <3>10, <3>11, <3>12, <3>13, <3>14, LimitsAssumption
  <2> QED
    BY <2>5, <2>7, <2>9, <2>10 DEF RefundInv
<1>3. ASSUME NEW c \in RefundCalls, Refund!insert(c)
      PROVE  RefundInv'
  <2>1. PICK r \in Refunded : r = call[c].on /\ row[r].state = "ABSENT" /\ tx[r] = "NONE"
    BY <1>0, <1>3 DEF Refund!insert, RefundCall
  <2>2. /\ row' = [row EXCEPT ![r] = [row[r] EXCEPT !.state = "PROCESSING"]]
        /\ call' = [call EXCEPT ![c] = [call[c] EXCEPT !.step = "paying", !.seen = "PROCESSING"]]
        /\ UNCHANGED <<tx, overtakenRows, unheard>>
        /\ call[c].step = "read"
    BY <1>0, <1>3, <2>1 DEF Refund!insert
  <2>3. row'[r] = [state |-> "PROCESSING", amount |-> row[r].amount]
    BY <1>0, <2>2 DEF Refund!Refund
  <2>4. call'[c] = [op |-> call[c].op, on |-> call[c].on, key |-> call[c].key, step |-> "paying",
                    seen |-> "PROCESSING", answer |-> call[c].answer]
    BY <1>0, <2>2 DEF Refund!Call
  <2>5. Types'
    BY <1>0, <2>2, <2>3, <2>4 DEF Refund!TypeOK, Refund!CallsTypeOK, Refund!PortTypeOK, Refund!Refund, Refund!Call
  <2>6. \A u \in Refunded, d \in RefundCalls : Busy(d, u)' <=> Busy(d, u)
    BY <1>0, <2>2, <2>4 DEF Busy
  <2>7. \A d \in RefundCalls : RefundCall(call[d])'
    <3>1. RefundCall(call[c])'
      BY <1>0, <2>1, <2>2, <2>3, <2>4 DEF RefundCall
    <3>2. ASSUME NEW d \in RefundCalls, d # c PROVE RefundCall(call[d])'
      <4>1. call'[d] = call[d] /\ (call[d].step # "idle" => call[d].on # r)
        BY <1>0, <2>1, <2>2, <3>2 DEF RefundRow, Busy
      <4> QED
        BY <1>0, <2>2, <4>1 DEF RefundCall
    <3> QED
      BY <3>1, <3>2
  <2>8. \A u \in Refunded : RefundRow(u)'
    <3>1. RefundRow(r)'
      BY <1>0, <2>1, <2>2, <2>3, <2>6 DEF RefundRow, Busy
    <3>2. ASSUME NEW u \in Refunded, u # r PROVE RefundRow(u)'
      BY <1>0, <2>2, <2>6, <3>2 DEF RefundRow
    <3> QED
      BY <3>1, <3>2
  <2>9. /\ Live' \subseteq Live
        /\ Lost \subseteq Lost'
        /\ \A u \in Refunded : row'[u].amount = row[u].amount
    <3>1. Busy(c, r)
      BY <2>1, <2>2 DEF Busy
    <3>2. r \notin unheard
      BY <1>0, <2>1 DEF RefundRow
    <3> QED
      BY <1>0, <2>2, <2>3, <2>6, <3>1, <3>2 DEF Live, Lost
  <2> QED
    BY <2>2, <2>5, <2>7, <2>8, <2>9, LiveStays DEF RefundInv
<1>4. ASSUME NEW c \in RefundCalls, Refund!Pays(c)
      PROVE  RefundInv'
  <2>1. PICK r \in Refunded : /\ r = call[c].on /\ r = call[c].key /\ tx[r] = "NONE"
                              /\ row[r].state = "PROCESSING" /\ call[c].step = "paying" /\ call[c].seen = "PROCESSING"
    BY <1>0, <1>4 DEF Refund!Pays, RefundCall
  <2>2. PICK answer \in Refund!Answers :
          /\ Refund!process(r, answer)
          /\ IF answer = "ERROR"
               THEN Refund!Ends(c) /\ UNCHANGED unheard
               ELSE /\ call' = [call EXCEPT ![c].step = "answered", ![c].answer = answer]
                    /\ unheard' = IF answer = "CONFIRMED" THEN unheard \cup {r} ELSE unheard
    BY <1>4, <2>1 DEF Refund!Pays
  <2>3. UNCHANGED <<row, overtakenRows>>
    BY <1>4 DEF Refund!Pays
  <2>4. tx' = [tx EXCEPT ![r] = IF answer = "ERROR" THEN "NONE" ELSE answer]
    BY <1>0, <2>1, <2>2 DEF Refund!process
  <2>5. call'[c] = IF answer = "ERROR" THEN Refund!Idle
                   ELSE [op |-> call[c].op, on |-> r, key |-> r, step |-> "answered",
                         seen |-> "PROCESSING", answer |-> answer]
    <3>1. CASE answer = "ERROR"
      BY <1>0, <2>2, <3>1 DEF Refund!Ends
    <3>2. CASE answer # "ERROR"
      <4>1. call'[c] = [call[c] EXCEPT !.step = "answered", !.answer = answer]
        BY <1>0, <2>2, <3>2
      <4>2. call[c] \in Refund!Call({"initiate"}, Refund!REFUND_STATES)
        BY <1>0
      <4> QED
        BY <2>1, <3>2, <4>1, <4>2 DEF Refund!Call
    <3> QED
      BY <3>1, <3>2
  <2>6. \A d \in RefundCalls : d # c => call'[d] = call[d]
    BY <1>0, <2>2 DEF Refund!Ends
  <2>7. Types'
    <3>1. call' \in [RefundCalls -> Refund!Call({"initiate"}, Refund!REFUND_STATES)]
      BY <1>0, <2>1, <2>2 DEF Refund!Call, Refund!Ends, Refund!Idle
    <3>2. unheard' \subseteq Refunded
      BY <1>0, <2>2
    <3> QED
      BY <1>0, <2>3, <2>4, <3>1, <3>2 DEF Refund!TypeOK, Refund!CallsTypeOK, Refund!PortTypeOK
  <2>8. \A u \in Refunded, d \in RefundCalls : Busy(d, u)' => Busy(d, u)
    <3>1. call'[c].step = "idle" \/ call'[c].on = r
      BY <2>5 DEF Refund!Idle
    <3> QED
      BY <2>1, <2>6, <3>1 DEF Busy
  <2>9. \A d \in RefundCalls : RefundCall(call[d])'
    <3>1. RefundCall(call[c])'
      BY <1>0, <2>1, <2>3, <2>4, <2>5 DEF RefundCall, Refund!Idle
    <3>2. ASSUME NEW d \in RefundCalls, d # c PROVE RefundCall(call[d])'
      <4>1. call[d].step # "idle" => call[d].on # r
        BY <1>0, <2>1, <3>2, OneCall
      <4>2. \A u \in Refunded : u # r => tx'[u] = tx[u] /\ (u \in unheard => u \in unheard')
        BY <1>0, <2>2, <2>4
      <4> QED
        BY <1>0, <2>3, <2>6, <3>2, <4>1, <4>2 DEF RefundCall
    <3> QED
      BY <3>1, <3>2
  <2>10. \A u \in Refunded : RefundRow(u)'
    <3>1. RefundRow(r)'
      <4>1. tx'[r] = IF answer = "ERROR" THEN "NONE" ELSE answer
        BY <1>0, <2>4
      <4>2. r \in unheard' => tx'[r] = "CONFIRMED"
        BY <1>0, <2>1, <2>2, <4>1 DEF RefundRow
      <4>3. tx'[r] = "CONFIRMED" => r \in unheard'
        BY <2>2, <4>1
      <4> QED
        BY <1>0, <2>1, <2>3, <2>8, <4>2, <4>3 DEF RefundRow
    <3>2. ASSUME NEW u \in Refunded, u # r PROVE RefundRow(u)'
      <4>1. tx'[u] = tx[u] /\ (u \in unheard <=> u \in unheard')
        BY <1>0, <2>2, <2>4, <3>2
      <4> QED
        BY <1>0, <2>3, <2>8, <4>1 DEF RefundRow
    <3> QED
      BY <3>1, <3>2
  <2>11. Live' \subseteq Live /\ Lost \subseteq Lost'
    <3>1. \A u \in Refunded : u # r => tx'[u] = tx[u]
      BY <1>0, <2>4
    <3>2. unheard \subseteq unheard'
      BY <2>2
    <3> QED
      BY <2>1, <2>3, <2>8, <3>1, <3>2 DEF Live, Lost
  <2> QED
    BY <2>3, <2>7, <2>9, <2>10, <2>11, LiveStays DEF RefundInv
<1>5. ASSUME NEW c \in RefundCalls, Refund!Concludes(c)
      PROVE  RefundInv'
  <2>1. PICK r \in Refunded : /\ r = call[c].on /\ r = call[c].key /\ row[r].state = "PROCESSING"
                              /\ call[c].step = "answered" /\ call[c].seen = "PROCESSING"
                              /\ call[c].answer = "CONFIRMED" => tx[r] = "CONFIRMED"
                              /\ call[c].answer # "CONFIRMED" => tx[r] # "CONFIRMED" \/ r \in unheard
    BY <1>0, <1>5 DEF Refund!Concludes, RefundCall
  <2>2. PICK state \in {"COMPLETED", "FAILED"} :
          /\ row' = [row EXCEPT ![r] = [row[r] EXCEPT !.state = state]]
          /\ state = "COMPLETED" <=> call[c].answer = "CONFIRMED"
    BY <1>5, <2>1 DEF Refund!Concludes, Refund!Writes, Refund!Outcome
  <2>3. /\ UNCHANGED <<tx, overtakenRows>>
        /\ call' = [call EXCEPT ![c] = Refund!Idle]
        /\ unheard' = IF state = "COMPLETED" THEN unheard \ {r} ELSE unheard
    BY <1>5, <2>1, <2>2 DEF Refund!Concludes, Refund!Writes, Refund!Hears, Refund!Ends
  <2>4. row'[r] = [state |-> state, amount |-> row[r].amount]
    BY <1>0, <2>2 DEF Refund!Refund
  <2>5. Types'
    BY <1>0, <2>2, <2>3, <2>4 DEF Refund!TypeOK, Refund!CallsTypeOK, Refund!PortTypeOK, Refund!Refund, Refund!Call, Refund!Idle
  <2>6. \A u \in Refunded, d \in RefundCalls : Busy(d, u)' <=> d # c /\ Busy(d, u)
    BY <1>0, <2>3 DEF Busy, Refund!Idle
  <2>7. \A d \in RefundCalls : RefundCall(call[d])'
    <3>1. RefundCall(call[c])'
      BY <1>0, <2>3 DEF RefundCall, Refund!Idle
    <3>2. ASSUME NEW d \in RefundCalls, d # c PROVE RefundCall(call[d])'
      <4>1. call'[d] = call[d]
        BY <1>0, <2>3, <3>2
      <4>0. call[d].step # "idle" => call[d].on # r
        BY <1>0, <2>1, <3>2, OneCall
      <4>2. \A u \in Refunded : u # r => row'[u] = row[u] /\ (u \in unheard => u \in unheard')
        BY <1>0, <2>2, <2>3
      <4> QED
        BY <1>0, <2>3, <3>2, <4>0, <4>1, <4>2 DEF RefundCall
    <3> QED
      BY <3>1, <3>2
  <2>8. \A u \in Refunded : RefundRow(u)'
    <3>1. RefundRow(r)'
      <4>1. r \in unheard' => r \in unheard
        BY <2>3
      <4>2. row[r].amount # 0
        BY <1>0, <2>1 DEF RefundRow
      <4> QED
        BY <1>0, <2>1, <2>2, <2>3, <2>4, <2>6, <4>1, <4>2 DEF RefundRow
    <3>2. ASSUME NEW u \in Refunded, u # r PROVE RefundRow(u)'
      <4>1. row'[u] = row[u] /\ (u \in unheard <=> u \in unheard')
        BY <1>0, <2>2, <2>3, <3>2
      <4> QED
        BY <1>0, <2>3, <2>6, <4>1 DEF RefundRow
    <3> QED
      BY <3>1, <3>2
  <2>9. Live' \subseteq Live /\ Lost \subseteq Lost'
    <3>1. r \in Live /\ r \notin Lost
      BY <2>1 DEF Live, Lost
    <3>2. \A u \in Refunded : u # r => row'[u] = row[u] /\ (u \in unheard => u \in unheard')
      BY <1>0, <2>2, <2>3
    <3> QED
      BY <1>0, <2>3, <2>6, <3>1, <3>2 DEF Live, Lost
  <2>10. \A u \in Refunded : row'[u].amount = row[u].amount
    BY <1>0, <2>2, <2>4
  <2> QED
    BY <2>3, <2>5, <2>7, <2>8, <2>9, <2>10, LiveStays DEF RefundInv
<1>6. ASSUME NEW c \in RefundCalls, Refund!Dies(c)
      PROVE  RefundInv'
  <2>1. /\ UNCHANGED <<tx, row, overtakenRows, unheard>>
        /\ call' = [call EXCEPT ![c] = Refund!Idle]
    BY <1>6 DEF Refund!Dies, Refund!Ends
  <2>2. Types'
    BY <1>0, <2>1 DEF Refund!TypeOK, Refund!CallsTypeOK, Refund!PortTypeOK, Refund!Call, Refund!Idle
  <2>3. \A u \in Refunded, d \in RefundCalls : Busy(d, u)' => Busy(d, u)
    BY <1>0, <2>1 DEF Busy, Refund!Idle
  <2>4. \A d \in RefundCalls : RefundCall(call[d])'
    BY <1>0, <2>1 DEF RefundCall, Refund!Idle
  <2>5. \A u \in Refunded : RefundRow(u)'
    BY <1>0, <2>1, <2>3 DEF RefundRow
  <2>6. Live' \subseteq Live /\ Lost' = Lost
    BY <2>1, <2>3 DEF Live, Lost
  <2> QED
    BY <2>1, <2>2, <2>4, <2>5, <2>6, LiveStays DEF RefundInv
<1> QED
  BY <1>1, <1>2, <1>3, <1>4, <1>5, <1>6 DEF Refund!Next

LEMMA RefundsTell ==
  ASSUME RefundInv
  PROVE  Refund!RefundTellsPayment /\ Refund!RefundedWithinOriginal
<1>1. Refund!RefundTellsPayment
  BY DEF RefundInv, RefundRow, Refund!RefundTellsPayment
<1>2. ASSUME overtakenRows \cup unheard = {}
      PROVE  Owed({r \in Refunded : tx[r] = "CONFIRMED"}) <= Original
  <2> DEFINE m == [r \in Refunded |-> row[r].amount]
             settled == {r \in Refunded : tx[r] = "CONFIRMED"}
  <2>1. Owed(Live) <= Original
    BY <1>2 DEF RefundInv, LiveInv, Lost
  <2>2. settled \subseteq Live
    BY DEF Live
  <2>3. IsFiniteSet(Live)
    <3>1. Live \subseteq {r \in Refunded : row[r].amount # 0}
      BY DEF Live, RefundInv, RefundRow
    <3> QED
      BY <3>1, FS_Subset DEF RefundInv, LiveInv
  <2>4. \A r \in Refunded : m[r] \in Nat
    BY RefundAmounts DEF RefundInv
  <2>5. Owed(Live) = SumFunctionOnSet(m, Live) /\ Owed(settled) = SumFunctionOnSet(m, settled)
    BY DEF Owed
  <2> HIDE DEF m, settled
  <2>6. \A r \in Live : m[r] \in Nat
    BY <2>4 DEF Live
  <2>7. SumFunctionOnSet(m, settled) <= SumFunctionOnSet(m, Live)
    BY <2>2, <2>3, <2>6, SumGrows
  <2>8. SumFunctionOnSet(m, Live) \in Nat /\ SumFunctionOnSet(m, settled) \in Nat
    <3>1. IsFiniteSet(settled) /\ \A r \in settled : m[r] \in Nat
      BY <2>2, <2>3, <2>6, FS_Subset
    <3> QED
      BY <2>3, <2>6, <3>1, SumNat
  <2> QED
    BY <2>1, <2>5, <2>7, <2>8, LimitsAssumption DEF settled
<1> QED
  BY <1>1, <1>2, RefundSum DEF Refund!RefundedWithinOriginal

-----------------------------------------------------------------------------
(* Splits                                                                  *)

\* The legs that the call has still to pay.
Ahead(l) == dispatch.at = "idle" \/ (dispatch.at = "paying" /\ l >= dispatch.leg)
            \/ (dispatch.at = "answered" /\ l > dispatch.leg)

SplitLeg(l) ==
  /\ Ahead(l) => leg[l] = "NONE" /\ tx[l] = "NONE" /\ l \notin unheard
  /\ leg[l] = "SUCCESS" => tx[l] = "CONFIRMED"
  /\ tx[l] = "CONFIRMED" /\ l \notin unheard => leg[l] = "SUCCESS"

SplitCall ==
  /\ dispatch.at = "idle" => split = "ABSENT"
  /\ dispatch.at \in {"paying", "answered"} =>
       /\ split = "INITIATED"
       /\ IF dispatch.failed THEN \E l \in Split!Legs : leg[l] = "FAILED"
                             ELSE \A l \in Split!Legs : l < dispatch.leg => leg[l] = "SUCCESS"
  /\ dispatch.at = "answered" =>
       /\ dispatch.leg \in Split!Legs
       /\ leg[dispatch.leg] = "NONE"
       /\ dispatch.answer = "CONFIRMED" => tx[dispatch.leg] = "CONFIRMED"
  /\ split = "ABSENT" => dispatch.at = "idle"
  /\ split = "COMPLETED" => \A l \in Split!Legs : leg[l] = "SUCCESS"
  /\ split = "FAILED" => \E l \in Split!Legs : leg[l] = "FAILED"

SplitInv ==
  /\ Split!TypeOK
  /\ \A l \in Split!Legs : SplitLeg(l)
  /\ SplitCall

LEMMA SplitInit ==
  ASSUME Split!Init
  PROVE  SplitInv
BY LimitsAssumption DEF Split!Init, Split!PortInit, Split!NoCall, SplitInv, SplitLeg, SplitCall, Ahead, Split!TypeOK, Split!PortTypeOK, Split!Legs,
   Split!Dispatch, Split!SPLIT_STATES, Split!Results, Split!TxStates, Split!Answers

LEMMA NoCallFacts ==
  ASSUME NEW step \in {"paying", "done"}, NEW d, d = [Split!NoCall EXCEPT !.at = step]
  PROVE  d \in Split!Dispatch /\ d.at = step /\ d.leg = 1 /\ ~d.failed
<1>1. 1 \in 1 .. LegCount + 1
  BY LimitsAssumption
<1>2. Split!NoCall \in Split!Dispatch
  BY <1>1 DEF Split!NoCall, Split!Dispatch, Split!Answers
<1>3. d \in Split!Dispatch /\ d.at = step /\ d.leg = Split!NoCall.leg /\ d.failed = Split!NoCall.failed
  BY <1>2 DEF Split!Dispatch
<1> QED
  BY <1>3 DEF Split!NoCall

LEMMA SplitStep ==
  ASSUME SplitInv, Split!Next
  PROVE  SplitInv'
<1> USE DEF Split!SPLIT_STATES, Split!Results, Split!TxStates, Split!Answers, Split!PortTypeOK, Split!TypeOK
<1>0. /\ tx \in [Split!Legs -> Split!TxStates]
      /\ leg \in [Split!Legs -> Split!Results]
      /\ dispatch \in Split!Dispatch
      /\ unheard \subseteq Split!Legs
      /\ (\A l \in Split!Legs : SplitLeg(l))
      /\ SplitCall
  BY DEF SplitInv, Split!Legs
<1>a. LegCount \in Nat /\ Split!Legs = 1 .. LegCount
  BY LimitsAssumption DEF Split!Legs
<1>1. CASE Split!Starts
  <2>1. /\ dispatch' \in Split!Dispatch /\ dispatch'.at = "paying" /\ dispatch'.leg = 1 /\ ~dispatch'.failed
        /\ UNCHANGED <<tx, leg, unheard>>
        /\ split' = "INITIATED" /\ dispatch.at = "idle"
    BY <1>0, <1>1, NoCallFacts DEF Split!Starts, SplitCall
  <2>2. \A l \in Split!Legs : SplitLeg(l)'
    BY <1>0, <1>a, <2>1 DEF SplitLeg, Ahead
  <2>3. SplitCall'
    BY <1>0, <1>a, <2>1 DEF SplitCall
  <2> QED
    BY <1>0, <2>1, <2>2, <2>3 DEF SplitInv
<1>2. CASE Split!PaysLeg
  <2>1. PICK answer \in Split!Answers :
          /\ Split!process(dispatch.leg, answer)
          /\ dispatch' = [dispatch EXCEPT !.at = "answered", !.answer = answer]
          /\ unheard' = IF answer = "CONFIRMED" THEN unheard \cup {dispatch.leg} ELSE unheard
    BY <1>2 DEF Split!PaysLeg
  <2>2. PICK l \in Split!Legs : l = dispatch.leg /\ dispatch.at = "paying"
    BY <1>2 DEF Split!PaysLeg
  <2>3. tx[l] = "NONE" /\ leg[l] = "NONE" /\ l \notin unheard
    BY <1>0, <1>a, <2>2 DEF SplitLeg, Ahead
  <2>4. tx' = [tx EXCEPT ![l] = IF answer = "ERROR" THEN "NONE" ELSE answer]
    BY <1>0, <2>1, <2>2, <2>3 DEF Split!process
  <2>5. dispatch' = [at |-> "answered", leg |-> l, answer |-> answer, failed |-> dispatch.failed]
    BY <1>0, <2>1, <2>2 DEF Split!Dispatch
  <2>6. UNCHANGED <<split, leg>>
    BY <1>2 DEF Split!PaysLeg
  <2>7. Split!TypeOK'
    BY <1>0, <1>a, <2>1, <2>2, <2>4, <2>5, <2>6 DEF Split!Dispatch, SplitInv
  <2>8. \A k \in Split!Legs : SplitLeg(k)'
    BY <1>0, <1>a, <2>1, <2>2, <2>3, <2>4, <2>5, <2>6 DEF SplitLeg, Ahead
  <2>9. SplitCall'
    BY <1>0, <2>2, <2>3, <2>4, <2>5, <2>6 DEF SplitCall
  <2> QED
    BY <2>7, <2>8, <2>9 DEF SplitInv
<1>3. CASE Split!setLegResult
  <2>1. PICK l \in Split!Legs : l = dispatch.leg /\ dispatch.at = "answered" /\ leg[l] = "NONE"
    BY <1>0, <1>3 DEF Split!setLegResult, SplitCall
  <2>2. PICK ok \in BOOLEAN :
          /\ ok <=> dispatch.answer = "CONFIRMED"
          /\ leg' = [leg EXCEPT ![l] = IF ok THEN "SUCCESS" ELSE "FAILED"]
          /\ dispatch' = [dispatch EXCEPT !.at = "paying", !.leg = l + 1, !.failed = dispatch.failed \/ ~ok]
          /\ unheard' = IF ok THEN unheard \ {l} ELSE unheard
          /\ UNCHANGED <<tx, split>>
    BY <1>3, <2>1 DEF Split!setLegResult, Split!IsPaid
  <2>3. dispatch' = [at |-> "paying", leg |-> l + 1, answer |-> dispatch.answer, failed |-> dispatch.failed \/ ~ok]
    BY <1>0, <2>2 DEF Split!Dispatch
  <2>4. Split!TypeOK'
    <3>1. l + 1 \in 1 .. LegCount + 1
      BY <1>a, <2>1
    <3>2. dispatch' \in Split!Dispatch
      BY <1>0, <2>3, <3>1 DEF Split!Dispatch
    <3> QED
      BY <1>0, <2>2, <3>2 DEF SplitInv
  <2>5. \A k \in Split!Legs : SplitLeg(k)'
    BY <1>0, <1>a, <2>1, <2>2, <2>3 DEF SplitLeg, SplitCall, Ahead
  <2>6. SplitCall'
    <3>1. dispatch.failed \in BOOLEAN /\ split = "INITIATED"
      BY <1>0, <2>1 DEF Split!Dispatch, SplitCall
    <3>2. IF dispatch'.failed THEN \E k \in Split!Legs : leg'[k] = "FAILED"
                              ELSE \A k \in Split!Legs : k < dispatch'.leg => leg'[k] = "SUCCESS"
      <4>1. CASE ~ok
        BY <1>0, <2>1, <2>2, <2>3, <4>1
      <4>2. CASE ok /\ dispatch.failed
        <5>1. PICK k \in Split!Legs : leg[k] = "FAILED"
          BY <1>0, <2>1, <4>2 DEF SplitCall
        <5> QED
          BY <1>0, <2>1, <2>2, <2>3, <4>2, <5>1
      <4>3. CASE ok /\ ~dispatch.failed
        <5>1. \A k \in Split!Legs : k < l => leg[k] = "SUCCESS"
          BY <1>0, <2>1, <4>3 DEF SplitCall
        <5>2. \A k \in Split!Legs : k < l + 1 => k < l \/ k = l
          BY <1>a
        <5> QED
          <6>1. ~dispatch'.failed /\ dispatch'.leg = l + 1
            BY <2>3, <4>3
          <6>2. \A k \in Split!Legs : leg'[k] = IF k = l THEN "SUCCESS" ELSE leg[k]
            BY <1>0, <2>2, <4>3
          <6> QED
            BY <5>1, <5>2, <6>1, <6>2
      <4> QED
        BY <4>1, <4>2, <4>3
    <3> QED
      BY <2>2, <2>3, <3>1, <3>2 DEF SplitCall
  <2> QED
    BY <2>4, <2>5, <2>6 DEF SplitInv
<1>4. CASE Split!setSplitState
  <2>1. dispatch.leg = LegCount + 1 /\ dispatch.at = "paying"
    BY <1>0, <1>a, <1>4 DEF Split!setSplitState, Split!Dispatch
  <2>2. UNCHANGED <<tx, leg, unheard>> /\ dispatch' = [Split!NoCall EXCEPT !.at = "done"]
    BY <1>4 DEF Split!setSplitState
  <2>3. dispatch'.at = "done" /\ dispatch' \in Split!Dispatch
    BY <2>2, NoCallFacts
  <2>4. /\ split' \in {"FAILED", "COMPLETED"}
        /\ split' = "COMPLETED" => \A l \in Split!Legs : leg[l] = "SUCCESS"
        /\ split' = "FAILED" => \E l \in Split!Legs : leg[l] = "FAILED"
    BY <1>0, <1>a, <1>4, <2>1 DEF Split!setSplitState, SplitCall
  <2> QED
    BY <1>0, <2>2, <2>3, <2>4 DEF SplitInv, SplitLeg, SplitCall, Ahead
<1>5. CASE Split!Dies
  <2>1. dispatch'.at = "done" /\ dispatch' \in Split!Dispatch /\ dispatch.at # "idle"
    BY <1>5, NoCallFacts DEF Split!Dies
  <2>2. UNCHANGED <<tx, split, leg, unheard>>
    BY <1>5 DEF Split!Dies
  <2> QED
    BY <1>0, <2>1, <2>2 DEF SplitInv, SplitLeg, SplitCall, Ahead
<1>6. ASSUME NEW l \in Split!Legs, Split!RecoversLeg(l)
      PROVE  SplitInv'
  <2>1. PICK decided \in {"CONFIRMED", "REJECTED"} : tx' = [tx EXCEPT ![l] = decided]
    BY <1>6 DEF Split!RecoversLeg, Split!Recovers
  <2>2. /\ tx[l] = "PENDING_RECONCILIATION"
        /\ unheard' = IF tx'[l] = "CONFIRMED" THEN unheard \cup {l} ELSE unheard
        /\ UNCHANGED <<split, leg, dispatch>>
    BY <1>6 DEF Split!RecoversLeg, Split!Recovers
  <2>3. Split!TypeOK'
    BY <1>0, <2>1, <2>2 DEF SplitInv
  <2>4. \A k \in Split!Legs : SplitLeg(k)'
    BY <1>0, <2>1, <2>2 DEF SplitLeg, Ahead
  <2>5. SplitCall'
    BY <1>0, <2>1, <2>2 DEF SplitCall
  <2> QED
    BY <2>3, <2>4, <2>5 DEF SplitInv
<1>7. CASE Split!StoreThrows
  <2>1. /\ dispatch.at = "answered"
        /\ dispatch' = [dispatch EXCEPT !.answer = "ERROR"]
        /\ UNCHANGED <<tx, split, leg, unheard>>
    BY <1>7 DEF Split!StoreThrows
  <2>2. dispatch' = [at |-> "answered", leg |-> dispatch.leg, answer |-> "ERROR", failed |-> dispatch.failed]
    BY <1>0, <2>1 DEF Split!Dispatch
  <2>3. dispatch' \in Split!Dispatch
    BY <1>0, <2>2 DEF Split!Dispatch
  <2> QED
    BY <1>0, <2>1, <2>2, <2>3 DEF SplitInv, SplitLeg, SplitCall, Ahead
<1> QED
  BY <1>1, <1>2, <1>3, <1>4, <1>5, <1>6, <1>7 DEF Split!Next

LEMMA SplitTells ==
  ASSUME SplitInv
  PROVE  Split!SplitTellsPayments
BY DEF SplitInv, SplitLeg, SplitCall, Split!SplitTellsPayments

-----------------------------------------------------------------------------
(* All overlays.  They share no row: a step of one leaves the others alone. *)

OverlayInv ==
  /\ MandateInv /\ EscrowInv
  /\ overlay \in {"mandates", "escrow", "r2p"} => R2PInv
  /\ overlay = "qr" => QRInv
  /\ overlay = "cashout" => CashInv
  /\ overlay = "refunds" => RefundInv
  /\ overlay = "split" => SplitInv

LEMMA QuietRows ==
  ASSUME UNCHANGED <<row, call, overtakenRows, tx, unheard>>
  PROVE  /\ R2PInv => R2PInv'
         /\ QRInv => QRInv'
         /\ CashInv => CashInv'
         /\ RefundInv => RefundInv'
<1>1. R2PInv => R2PInv'
  BY DEF R2PInv, R2PCall, R2P!TypeOK, R2P!CallsTypeOK, R2P!PortTypeOK, R2P!RequestTellsPayment
<1>2. QRInv => QRInv'
  BY DEF QRInv, QRCall, QRCode, Told, QR!TypeOK, QR!CallsTypeOK, QR!PortTypeOK
<1>3. CashInv => CashInv'
  BY DEF CashInv, CashCall, Cash!TypeOK, Cash!CallsTypeOK, Cash!PortTypeOK, Cash!CashTellsPayment, Cash!OnlyOverlapExceedsAttempts
<1>4. RefundInv => RefundInv'
  BY DEF RefundInv, RefundCall, RefundRow, LiveInv, Live, Lost, Owed, Busy, Refund!TypeOK, Refund!CallsTypeOK, Refund!PortTypeOK
<1> QED
  BY <1>1, <1>2, <1>3, <1>4

LEMMA QuietSplit ==
  ASSUME UNCHANGED <<split, leg, dispatch, tx, unheard>>, SplitInv
  PROVE  SplitInv'
BY DEF SplitInv, SplitLeg, SplitCall, Ahead, Split!TypeOK, Split!PortTypeOK

LEMMA OverlayInit == UInit => OverlayInv
<1>1. UInit => MandateInv /\ EscrowInv
  BY MandateInitInv, EscrowInitInv DEF UInit
<1> QED
  BY <1>1, R2PInit, QRInit, CashInit, RefundInit, SplitInit DEF UInit, OverlayInv

LEMMA OverlayStep == OverlayInv /\ [UNext]_uvars => OverlayInv'
<1> SUFFICES ASSUME OverlayInv, [UNext]_uvars PROVE OverlayInv'
  OBVIOUS
<1> USE DEF ownCalls, ownSplit, shared
<1>1. MandateInv'
  <2>1. [Next]_vars
    BY DEF UNext, uvars
  <2> QED
    BY <2>1, MandateStepInv DEF OverlayInv
<1>2. EscrowInv'
  <2>1. [ENext]_evars
    BY DEF UNext, uvars
  <2> QED
    BY <2>1, EscrowStepInv DEF OverlayInv
<1>3. CASE UNCHANGED <<overlay, row, call, overtakenRows, split, leg, dispatch, tx, unheard>>
  BY <1>1, <1>2, <1>3, QuietRows, QuietSplit DEF OverlayInv
<1>4. CASE overlay' = overlay /\ overlay = "r2p" /\ R2P!Next
  BY <1>1, <1>2, <1>4, R2PStep DEF OverlayInv
<1>5. CASE overlay' = overlay /\ overlay = "qr" /\ QR!Next
  BY <1>1, <1>2, <1>5, QRStep DEF OverlayInv
<1>6. CASE overlay' = overlay /\ overlay = "cashout" /\ Cash!Next
  BY <1>1, <1>2, <1>6, CashStep DEF OverlayInv
<1>7. CASE overlay' = overlay /\ overlay = "refunds" /\ Refund!Next
  BY <1>1, <1>2, <1>7, RefundStep DEF OverlayInv
<1>8. CASE overlay' = overlay /\ overlay = "split" /\ Split!Next
  BY <1>1, <1>2, <1>8, SplitStep DEF OverlayInv
<1> QED
  BY <1>3, <1>4, <1>5, <1>6, <1>7, <1>8 DEF UNext, uvars

LEMMA OverlaysInductive == USpec => []OverlayInv
  BY OverlayInit, OverlayStep, PTL DEF USpec

\* RowsTellPayments: what the row of a request, a code, a cash-out, a refund or
\* a split says of its payments is so, for any rows and calls, however the
\* calls overlap, die and are answered late; with the exceptions it names.
THEOREM RowsTell == USpec => []RowsTellPayments
<1>1. OverlayInv => RowsTellPayments
  <2> SUFFICES ASSUME OverlayInv PROVE RowsTellPayments
    OBVIOUS
  <2>1. TypeOK /\ ETypeOK
    BY DEF OverlayInv, MandateInv, EscrowInv
  <2>2. TypesOK
    BY <2>1 DEF OverlayInv, TypesOK, R2PInv, QRInv, CashInv, RefundInv, SplitInv
  <2> QED
    BY <2>2, QRTells, RefundsTell, SplitTells DEF OverlayInv, RowsTellPayments, R2PInv, CashInv
<1> QED
  BY <1>1, OverlaysInductive, PTL

\* LimitsHoldButForOverlap: passwords are tried no more often than the limit
\* and the other calls allow, and refunds do not exceed their payment unless
\* one was asked for before another had ended.
THEOREM LimitsHold == USpec => []LimitsHoldButForOverlap
<1>1. OverlayInv => LimitsHoldButForOverlap
  BY RefundsTell DEF OverlayInv, LimitsHoldButForOverlap, CashInv
<1> QED
  BY <1>1, OverlaysInductive, PTL

=============================================================================
