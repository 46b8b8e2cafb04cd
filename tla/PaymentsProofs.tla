--------------------------- MODULE PaymentsProofs ---------------------------
(* Theorems about Payments for any calls, envelopes, workers and bounds.   *)
EXTENDS Payments, FiniteSetTheorems, TLAPS

-----------------------------------------------------------------------------
(* Type correctness.                                                       *)

LEMMA NoRowType == NoRow \in Row
  BY DEF NoRow, Row, Reasons

LEMMA StoredType ==
  ASSUME TypeOK, NEW t \in Requests, NEW e \in Envelopes
  PROVE  Stored(t, e) \in Row
  BY NoRowType DEF TypeOK, Stored, Row, STATES

LEMMA FinalizeType ==
  ASSUME NEW row \in Row, NEW s \in STATES, NEW reason \in Reasons
  PROVE  Finalize(row, s, reason) \in Row
  BY DEF Finalize, Row

LEMMA FinalizeFields ==
  ASSUME NEW row \in Row, NEW s, NEW reason
  PROVE  /\ Finalize(row, s, reason).state = s
         /\ Finalize(row, s, reason).reason = reason
         /\ Finalize(row, s, reason).original = row.original
         /\ Finalize(row, s, reason).envelope = row.envelope
  BY DEF Finalize, Row

LEMMA RowForType ==
  ASSUME NEW e, NEW r \in Requests
  PROVE  RowFor(e, r) \subseteq Requests
  BY DEF RowFor, RowsOf

LEMMA SendType ==
  ASSUME TypeOK, NEW t \in Requests, Send(t)
  PROVE  participant' \in [Requests -> ParticipantView]
  BY DEF TypeOK, Send, ParticipantView

LEMMA CallAtType ==
  ASSUME NEW pc \in {"new", "crediting", "reversing", "failed", "done"},
         NEW on \in Requests \cup {None}, NEW e \in Envelopes \cup {None}, NEW f \in BOOLEAN
  PROVE  CallAt(pc, on, e, f) \in Call
  BY DEF CallAt, Call

LEMMA ReturnsType ==
  ASSUME TypeOK, NEW r \in Requests, Returns(r) \/ Throws(r)
  PROVE  call' \in [Requests -> Call]
  <1>1. call[r].on \in Requests \cup {None} /\ call[r].envelope \in Envelopes \cup {None}
    BY DEF TypeOK, Call
  <1>2. FALSE \in BOOLEAN
    OBVIOUS
  <1>3. /\ CallAt("done", None, None, FALSE) \in Call
        /\ CallAt("failed", call[r].on, call[r].envelope, FALSE) \in Call
    BY <1>1, <1>2, CallAtType
  <1> QED
    BY <1>3 DEF TypeOK, Returns, Throws

LEMMA PassEndsType ==
  ASSUME TypeOK, NEW w \in Workers, PassEnds(w)
  PROVE  worker' \in [Workers -> Worker]
  BY DEF TypeOK, PassEnds, Resting, Worker, Outcomes

LEMMA BookType ==
  ASSUME TypeOK, NEW t \in Requests, NEW withFee, BookConfirmed(t, withFee)
  PROVE  posted' \in [Requests -> Nat] /\ feeLegs' \subseteq Requests /\ receipts' \subseteq Requests
  BY DEF TypeOK, BookConfirmed

LEMMA TypeInit == Init => TypeOK
  BY NoRowType DEF Init, TypeOK, CallAt, Resting, Call, Worker, Outcomes, ParticipantView

LEMMA TypeProcess ==
  ASSUME TypeOK, NEW r \in Requests, NEW e \in Envelopes,
         Ingest(r, e) \/ ProcessDeduped(r, e) \/ ProcessDeclined(r, e)
           \/ ProcessRefused(r, e) \/ ProcessSendsCreditLeg(r, e)
  PROVE  TypeOK'
  <1>1. CASE Ingest(r, e)
    <2>1. PICK t \in RowFor(e, r) : tx' = [tx EXCEPT ![t] = Stored(t, e)]
      BY <1>1 DEF Ingest
    <2>2. tx' \in [Requests -> Row]
      BY <2>1, StoredType, RowForType DEF TypeOK
    <2> QED
      BY <1>1, <2>2, ReturnsType DEF Ingest, TypeOK
  <1>2. CASE ProcessDeduped(r, e)
    BY <1>2, ReturnsType DEF ProcessDeduped, rail, TypeOK
  <1>3. CASE ProcessDeclined(r, e)
    <2>1. PICK t \in RowFor(e, r) :
            tx' = [tx EXCEPT ![t] = Finalize(Stored(t, e), "REJECTED", "DECLINED")]
      BY <1>3 DEF ProcessDeclined
    <2>2. Finalize(Stored(t, e), "REJECTED", "DECLINED") \in Row
      BY StoredType, FinalizeType, RowForType DEF STATES, Reasons
    <2>3. tx' \in [Requests -> Row]
      BY <2>1, <2>2 DEF TypeOK
    <2> QED
      BY <1>3, <2>3, ReturnsType DEF ProcessDeclined, TypeOK
  <1>4. CASE ProcessRefused(r, e)
    BY <1>4 DEF ProcessRefused, RowsOf, CallAt, rail, TypeOK, Call
  <1>5. CASE ProcessSendsCreditLeg(r, e)
    <2>1. PICK t \in RowFor(e, r), withFee \in BOOLEAN :
            /\ call' = [call EXCEPT ![r] = CallAt("crediting", t, e, withFee)]
            /\ Send(t)
      BY <1>5 DEF ProcessSendsCreditLeg
    <2>2. t \in Requests
      BY RowForType
    <2>3. participant' \in [Requests -> ParticipantView]
      BY <2>1, <2>2, SendType
    <2> QED
      BY <1>5, <2>1, <2>2, <2>3 DEF ProcessSendsCreditLeg, CallAt, rail, TypeOK, Call
  <1> QED
    BY <1>1, <1>2, <1>3, <1>4, <1>5

LEMMA EndedType ==
  ASSUME NEW row \in Row, NEW s \in STATES, NEW reason \in Reasons, NEW f \in BOOLEAN
  PROVE  Ended(row, s, reason, f) \in Row
  BY DEF Ended, Row

LEMMA BumpedType ==
  ASSUME NEW row \in Row
  PROVE  Bumped(row) \in Row
  <1>1. \A n \in Nat, b \in BOOLEAN : [row EXCEPT !.attempts = n, !.due = b] \in Row
    BY DEF Row
  <1>2. row.attempts + 1 \in Nat /\ TRUE \in BOOLEAN
    BY DEF Row
  <1>3. Bumped(row) = [row EXCEPT !.attempts = row.attempts + 1, !.due = TRUE]
    BY DEF Bumped
  <1> QED
    BY <1>1, <1>2, <1>3

LEMMA DueType ==
  ASSUME NEW row \in Row, NEW b \in BOOLEAN
  PROVE  [row EXCEPT !.due = b] \in Row
  BY DEF Row

LEMMA UnwoundType ==
  ASSUME NEW row \in Row, NEW r \in Requests
  PROVE  Unwound(row, r) \in Row
  BY DEF Unwound, Row, STATES, Reasons

LEMMA UnwoundFields ==
  ASSUME NEW row \in Row, NEW r
  PROVE  /\ Unwound(row, r).state = "REVERSED" /\ Unwound(row, r).reason = "REVERSED"
         /\ Unwound(row, r).link = r
         /\ Unwound(row, r).original = row.original
         /\ Unwound(row, r).envelope = row.envelope
  BY DEF Unwound, Row

LEMMA ReversalRowType ==
  ASSUME TypeOK, NEW r \in Requests, NEW o \in Requests,
         NEW s \in STATES, NEW reason \in Reasons
  PROVE  ReversalRow(r, o, s, reason) \in Row /\ Unwound(tx[o], r) \in Row
  <1>1. ReversalRow(r, o, s, reason) \in Row
    <2>1. tx[o].envelope \in Envelopes \cup {None}
      BY DEF TypeOK, Row
    <2> QED
      BY <2>1, NoRowType DEF ReversalRow, Row
  <1>2. Unwound(tx[o], r) \in Row
    <2>1. tx[o] \in Row
      BY DEF TypeOK
    <2> QED
      BY <2>1, UnwoundType
  <1> QED
    BY <1>1, <1>2

LEMMA DecisionType ==
  ASSUME NEW outcomes
  PROVE  /\ decideTerminalAtExhaust(outcomes).state \in STATES
         /\ decideTerminalAtExhaust(outcomes).reason \in Reasons
  BY DEF decideTerminalAtExhaust, STATES, Reasons

\* An open orchestrator transaction works on a row and an envelope, an open
\* reversal on a row, and a pass on a row.
ActorType ==
  /\ \A r \in Requests :
       /\ call[r].pc \in {"crediting", "reversing"} => call[r].on \in Requests
       /\ call[r].pc = "crediting" => call[r].envelope \in Envelopes
  /\ \A w \in Workers : worker[w].pc # "idle" => worker[w].on \in Requests

LEMMA TypeProcessEnds ==
  ASSUME TypeOK, ActorType, NEW r \in Requests,
         ProcessConfirms(r) \/ ProcessRejects(r) \/ ProcessLeavesPending(r) \/ ProcessFails(r)
  PROVE  TypeOK'
  <1> DEFINE t == call[r].on
             e == call[r].envelope
  <1>1. t \in Requests /\ e \in Envelopes /\ call[r].fee \in BOOLEAN
    BY DEF ProcessConfirms, ProcessRejects, ProcessLeavesPending, ProcessFails,
           ActorType, TypeOK, Call
  <1>2. \A s \in STATES, reason \in Reasons : Ended(Stored(t, e), s, reason, call[r].fee) \in Row
    BY <1>1, StoredType, EndedType
  <1> HIDE DEF t, e
  <1>3. CASE ProcessConfirms(r)
    <2>1. tx' \in [Requests -> Row]
      BY <1>1, <1>2, <1>3 DEF ProcessConfirms, t, e, TypeOK, STATES, Reasons
    <2> QED
      BY <1>1, <1>3, <2>1, ReturnsType, BookType DEF ProcessConfirms, TypeOK, t
  <1>4. CASE ProcessRejects(r)
    <2>1. tx' \in [Requests -> Row]
      BY <1>1, <1>2, <1>4 DEF ProcessRejects, t, e, TypeOK, STATES, Reasons
    <2> QED
      BY <1>1, <1>4, <2>1, ReturnsType DEF ProcessRejects, TypeOK
  <1>5. CASE ProcessLeavesPending(r)
    <2>1. tx' \in [Requests -> Row]
      BY <1>1, <1>2, <1>5 DEF ProcessLeavesPending, t, e, TypeOK, STATES, Reasons
    <2> QED
      BY <1>1, <1>5, <2>1, ReturnsType DEF ProcessLeavesPending, TypeOK
  <1>6. CASE ProcessFails(r)
    BY <1>6, ReturnsType DEF ProcessFails, rail, TypeOK
  <1> QED
    BY <1>3, <1>4, <1>5, <1>6

LEMMA TypeOperator ==
  ASSUME TypeOK, NEW t \in Requests,
         operatorKillSwitch(t) \/ runById(t) \/ BackoffElapses(t)
           \/ ParticipantExecutes(t) \/ ParticipantRefuses(t)
  PROVE  TypeOK'
  <1>1. CASE operatorKillSwitch(t)
    <2>1. Finalize(tx[t], "REJECTED", "KILLED") \in Row
      BY FinalizeType DEF TypeOK, STATES, Reasons
    <2> QED
      BY <1>1, <2>1 DEF operatorKillSwitch, TypeOK
  <1>2. CASE runById(t)
    BY <1>2, SendType DEF runById, rail, TypeOK
  <1>3. CASE BackoffElapses(t)
    <2>1. [tx[t] EXCEPT !.due = TRUE] \in Row
      BY DueType DEF TypeOK
    <2> QED
      BY <1>3, <2>1 DEF BackoffElapses, TypeOK
  <1>4. CASE ParticipantExecutes(t) \/ ParticipantRefuses(t)
    BY <1>4 DEF ParticipantExecutes, ParticipantRefuses, rail, TypeOK, ParticipantView
  <1> QED
    BY <1>1, <1>2, <1>3, <1>4

LEMMA TypeReversal ==
  ASSUME TypeOK, ActorType, NEW r \in Requests, Reversal(r)
  PROVE  TypeOK'
  <1> DEFINE o == call[r].on
  <1>1. CASE \E q \in Requests : ReversalStarts(r, q)
    <2>1. PICK q \in Requests : ReversalStarts(r, q)
      BY <1>1
    <2>2. participant' \in [Requests -> ParticipantView]
      BY <2>1, SendType DEF ReversalStarts
    <2> QED
      BY <2>1, <2>2 DEF ReversalStarts, CallAt, Call, rail, TypeOK
  <1>2. ASSUME call[r].pc = "reversing"
        PROVE  /\ o \in Requests
               /\ \A s \in STATES, reason \in Reasons : ReversalRow(r, o, s, reason) \in Row
               /\ Unwound(tx[o], r) \in Row
    <2>1. o \in Requests
      BY <1>2 DEF ActorType
    <2> QED
      BY <2>1, ReversalRowType DEF STATES, Reasons
  <1>3. CASE ReversalConfirms(r)
    <2>1. tx' \in [Requests -> Row]
      <3>1. call[r].pc = "reversing"
        BY <1>3 DEF ReversalConfirms
      <3> HIDE DEF o
      <3>2. tx' = [tx EXCEPT ![r] = ReversalRow(r, o, "CONFIRMED", "SUCCESS"),
                             ![o] = Unwound(@, r)]
        BY <1>3 DEF ReversalConfirms, o
      <3>3. ReversalRow(r, o, "CONFIRMED", "SUCCESS") \in Row
        BY <1>2, <3>1 DEF STATES, Reasons
      <3>4. CASE o # r
        BY <1>2, <3>1, <3>2, <3>3, <3>4 DEF TypeOK
      <3>5. CASE o = r
        <4>1. Unwound(ReversalRow(r, o, "CONFIRMED", "SUCCESS"), r) \in Row
          BY <3>3, UnwoundType
        <4> QED
          BY <1>2, <3>1, <3>2, <3>3, <3>5, <4>1 DEF TypeOK
      <3> QED
        BY <3>4, <3>5
    <2> QED
      BY <1>3, <2>1, ReturnsType DEF ReversalConfirms, TypeOK
  <1>4. CASE ReversalRejected(r)
    <2>1. tx' \in [Requests -> Row]
      <3>1. call[r].pc = "reversing" /\ tx' = [tx EXCEPT ![r] = ReversalRow(r, o, "REJECTED", "TECH")]
        BY <1>4 DEF ReversalRejected
      <3> QED
        BY <1>2, <3>1 DEF TypeOK, STATES, Reasons
    <2> QED
      BY <1>4, <2>1, ReturnsType DEF ReversalRejected, TypeOK
  <1>5. CASE ReversalFails(r)
    BY <1>5, ReturnsType DEF ReversalFails, rail, TypeOK
  <1> QED
    BY <1>1, <1>3, <1>4, <1>5 DEF Reversal

LEMMA TypeWorker ==
  ASSUME TypeOK, ActorType, NEW w \in Workers,
         PickBatch(w) \/ runOnceForId(w) \/ PassFails(w)
  PROVE  TypeOK'
  <1> DEFINE t == worker[w].on
  <1>1. CASE PickBatch(w)
    BY <1>1 DEF PickBatch, Due, Resting, Worker, Outcomes, rail, TypeOK
  <1>2. CASE \E u \in Requests : SkipMoved(w, u) \/ probeOnce(w, u)
    <2>1. PICK u \in Requests : SkipMoved(w, u) \/ probeOnce(w, u)
      BY <1>2
    <2>2. CASE SkipMoved(w, u)
      BY <2>2 DEF SkipMoved, Resting, Worker, Outcomes, rail, TypeOK
    <2>3. CASE probeOnce(w, u)
      <3>1. StatusOf(participant[u]) \subseteq Outcomes
        BY DEF TypeOK, StatusOf, Outcomes, ParticipantView
      <3> QED
        BY <2>3, <3>1 DEF probeOnce, Worker, rail, TypeOK
    <2> QED
      BY <2>1, <2>2, <2>3
  <1>3. CASE bumpAttempts(w)
    <2>1. t \in Requests
      BY <1>3 DEF bumpAttempts, ActorType
    <2>2. Bumped(tx[t]) \in Row /\ tx[t].attempts + 1 \in Nat
      BY <2>1, BumpedType DEF TypeOK, Row
    <2> QED
      BY <1>3, <2>1, <2>2 DEF bumpAttempts, Worker, TypeOK
  <1>4. CASE Decide(w)
    <2>1. t \in Requests /\ worker[w].outcome \in Outcomes
      BY <1>4 DEF Decide, DecideSkips, DecideCredited, DecideNotCredited, DecideExhausted,
                  DecideReschedules, Deciding, ActorType, TypeOK, Worker
    <2>2. worker' \in [Workers -> Worker]
      BY <1>4, PassEndsType DEF Decide, DecideSkips, DecideCredited, DecideNotCredited,
                  DecideExhausted, DecideReschedules, Deciding
    <2>3. \A s \in STATES, reason \in Reasons : Finalize(tx[t], s, reason) \in Row
      BY <2>1, FinalizeType DEF TypeOK
    <2> HIDE DEF t
    <2>4. CASE DecideSkips(w)
      BY <2>2, <2>4 DEF DecideSkips, rail, TypeOK
    <2>5. CASE DecideCredited(w)
      BY <2>1, <2>2, <2>3, <2>5, BookType DEF DecideCredited, TypeOK, Outcomes, STATES, Reasons, t
    <2>6. CASE DecideNotCredited(w)
      BY <2>1, <2>2, <2>3, <2>6 DEF DecideNotCredited, TypeOK, Outcomes, STATES, Reasons, t
    <2>7. CASE DecideExhausted(w)
      <3>1. PICK d : /\ d.state \in STATES /\ d.reason \in Reasons
                     /\ tx' = [tx EXCEPT ![t] = Finalize(@, d.state, d.reason)]
        BY <2>7, DecisionType DEF DecideExhausted, t
      <3>2. tx' \in [Requests -> Row]
        BY <2>1, <2>3, <3>1 DEF TypeOK
      <3> QED
        BY <2>1, <2>2, <2>7, <3>2 DEF DecideExhausted, TypeOK, t
    <2>8. CASE DecideReschedules(w)
      <3>1. [tx[t] EXCEPT !.due = FALSE] \in Row
        BY <2>1, DueType DEF TypeOK
      <3> QED
        BY <2>1, <2>2, <2>8, <3>1 DEF DecideReschedules, TypeOK, t
    <2> QED
      BY <1>4, <2>4, <2>5, <2>6, <2>7, <2>8 DEF Decide
  <1>5. CASE PassFails(w)
    BY <1>5, PassEndsType DEF PassFails, Resting, Worker, Outcomes, rail, TypeOK
  <1> QED
    BY <1>1, <1>2, <1>3, <1>4, <1>5 DEF runOnceForId

-----------------------------------------------------------------------------
(* Who may write which row: the envelope's unique key and row locks.       *)

\* The states a row has between database transactions.
Committed == {"ABSENT", "RECEIVED", "PENDING_RECONCILIATION", "CONFIRMED",
              "REJECTED", "REVERSED", "FAILED"}

RowInv ==
  \A t \in Requests :
    /\ tx[t].state \in Committed
    /\ Present(t) => tx[t].envelope \in Envelopes
    /\ Present(t) /\ tx[t].original # None => tx[t].state \in {"CONFIRMED", "REJECTED"}

UniqueRow ==
  \A t, u \in Requests :
    IsPayment(t) /\ IsPayment(u) /\ tx[t].envelope = tx[u].envelope => t = u

Crediting(r, e) == call[r].pc = "crediting" /\ call[r].envelope = e

Exclusive == \A r, s \in Requests, e \in Envelopes : Crediting(r, e) /\ Crediting(s, e) => r = s

\* An open orchestrator transaction inserts the row of its envelope, or has
\* taken over a row that is still RECEIVED.
Holds(r) ==
  LET t == call[r].on
      e == call[r].envelope
  IN /\ t \in Requests
     /\ e \in Envelopes
     /\ \/ t = r /\ ~Present(r) /\ \A u \in Requests : IsPayment(u) => tx[u].envelope # e
        \/ tx[t].state = "RECEIVED" /\ tx[t].original = None /\ tx[t].envelope = e

CallInv ==
  \A r \in Requests :
    /\ call[r].pc \in {"new", "reversing"} => ~Present(r)
    /\ call[r].pc = "crediting" => Holds(r)
    /\ call[r].pc = "reversing" =>
         /\ call[r].on \in Requests
         /\ tx[call[r].on].original = None
         /\ tx[call[r].on].state \in {"CONFIRMED", "REVERSED"}

WorkerInv ==
  \A w \in Workers : worker[w].pc # "idle" =>
    /\ worker[w].on \in Requests
    /\ IsPayment(worker[w].on)
    /\ tx[worker[w].on].state # "RECEIVED"

LockInv == RowInv /\ UniqueRow /\ Exclusive /\ CallInv /\ WorkerInv

LEMMA LockInvActorType == LockInv => ActorType
  BY DEF LockInv, CallInv, WorkerInv, Holds, ActorType

LEMMA LockInit == Init => LockInv
  BY DEF Init, LockInv, RowInv, UniqueRow, Exclusive, CallInv, WorkerInv, Crediting,
         NoRow, CallAt, Resting, Present, IsPayment, Committed

\* A call writes the row of its envelope, which no other call holds.
LEMMA WriteKeepsLockInv ==
  ASSUME TypeOK, LockInv, NEW r \in Requests, NEW t \in Requests,
         NEW e \in Envelopes, NEW row \in Row,
         row.original = None, row.envelope = e, row.state \in Committed \ {"ABSENT"},
         \/ t = r /\ ~Present(t) /\ \A u \in Requests : IsPayment(u) => tx[u].envelope # e
         \/ IsPayment(t) /\ tx[t].envelope = e,
         tx[t].state \in {"CONFIRMED", "REVERSED"} => row.state = tx[t].state,
         Present(t) /\ tx[t].state # "RECEIVED" => row.state # "RECEIVED",
         call[r].pc \in {"new", "crediting"},
         \A s \in Requests \ {r} : ~Crediting(s, e),
         tx' = [tx EXCEPT ![t] = row], Returns(r), UNCHANGED worker
  PROVE  LockInv'
  <1>1. \A u \in Requests : tx'[u] = IF u = t THEN row ELSE tx[u]
    BY DEF TypeOK
  <1>2. \A s \in Requests : s # r => call'[s] = call[s]
    BY DEF TypeOK, Returns
  <1>3. call'[r].pc = "done"
    BY DEF TypeOK, Returns, CallAt
  <1>4. \A s \in Requests \ {r} : call[s].pc = "crediting" => call[s].envelope # e
    BY DEF Crediting
  <1>5. RowInv'
    BY <1>1 DEF LockInv, RowInv, Present, Committed
  <1>6. UniqueRow'
    BY <1>1 DEF LockInv, UniqueRow, IsPayment, Present
  <1>7. Exclusive'
    BY <1>2, <1>3 DEF LockInv, Exclusive, Crediting
  <1>8. CallInv'
    <2> SUFFICES ASSUME NEW s \in Requests
                 PROVE  /\ call'[s].pc \in {"new", "reversing"} => ~Present(s)'
                        /\ call'[s].pc = "crediting" => Holds(s)'
                        /\ call'[s].pc = "reversing" =>
                             /\ call'[s].on \in Requests
                             /\ tx'[call'[s].on].original = None
                             /\ tx'[call'[s].on].state \in {"CONFIRMED", "REVERSED"}
      BY DEF CallInv
    <2>1. CASE s = r
      BY <2>1, <1>3
    <2>2. CASE s # r
      <3>1. call'[s] = call[s]
        BY <2>2, <1>2
      <3>2. call[s].pc \in {"new", "reversing"} => ~Present(s)'
        BY <2>2, <1>1 DEF LockInv, CallInv, Present, IsPayment
      <3>3. call[s].pc = "crediting" => Holds(s)'
        <4> SUFFICES ASSUME call[s].pc = "crediting"
                     PROVE  Holds(s)'
          OBVIOUS
        <4>1. Holds(s) /\ call[s].envelope # e
          BY <1>4, <2>2 DEF LockInv, CallInv
        <4> QED
          BY <1>1, <2>2, <3>1, <4>1 DEF Holds, Present, IsPayment
      <3>4. call[s].pc = "reversing" => /\ call[s].on \in Requests
                                        /\ tx'[call[s].on].original = None
                                        /\ tx'[call[s].on].state \in {"CONFIRMED", "REVERSED"}
        BY <1>1 DEF LockInv, CallInv
      <3> QED
        BY <3>1, <3>2, <3>3, <3>4
    <2> QED
      BY <2>1, <2>2
  <1>9. WorkerInv'
    BY <1>1 DEF LockInv, WorkerInv, IsPayment, Present
  <1> QED
    BY <1>5, <1>6, <1>7, <1>8, <1>9 DEF LockInv

\* A recovery worker, an operator or the clock updates a row no call holds.
LEMMA UpdateKeepsLockInv ==
  ASSUME TypeOK, LockInv, NEW t \in Requests, NEW row \in Row, IsPayment(t),
         row.original = tx[t].original, row.envelope = tx[t].envelope,
         row.state \in Committed \ {"ABSENT"},
         row.state = tx[t].state \/ tx[t].state # "RECEIVED" \/ ~Locked(tx[t].envelope),
         tx[t].state \in {"CONFIRMED", "REVERSED"} => row.state = tx[t].state,
         tx[t].state # "RECEIVED" => row.state # "RECEIVED",
         tx' = [tx EXCEPT ![t] = row], UNCHANGED call,
         worker' = worker \/ \E w \in Workers : PassEnds(w) \/ bumpAttempts(w)
  PROVE  LockInv'
  <1>1. \A u \in Requests : tx'[u] = IF u = t THEN row ELSE tx[u]
    BY DEF TypeOK
  <1>2. RowInv' /\ UniqueRow'
    BY <1>1 DEF LockInv, RowInv, UniqueRow, IsPayment, Present, Committed
  <1>3. Exclusive'
    BY DEF LockInv, Exclusive, Crediting
  <1>4. CallInv'
    <2> SUFFICES ASSUME NEW s \in Requests
                 PROVE  /\ call[s].pc \in {"new", "reversing"} => ~Present(s)'
                        /\ call[s].pc = "crediting" => Holds(s)'
                        /\ call[s].pc = "reversing" =>
                             /\ call[s].on \in Requests
                             /\ tx'[call[s].on].original = None
                             /\ tx'[call[s].on].state \in {"CONFIRMED", "REVERSED"}
      BY DEF CallInv
    <2>1. call[s].pc \in {"new", "reversing"} => ~Present(s)'
      BY <1>1 DEF LockInv, CallInv, Present, IsPayment
    <2>2. call[s].pc = "crediting" => Holds(s)'
      <3> SUFFICES ASSUME call[s].pc = "crediting" PROVE Holds(s)'
        OBVIOUS
      <3>1. Holds(s)
        BY DEF LockInv, CallInv
      <3>2. call[s].on = t => row.state = tx[t].state
        BY <3>1 DEF Holds, Locked, IsPayment, Present
      <3> QED
        BY <1>1, <3>1, <3>2 DEF Holds, Present, IsPayment
    <2>3. call[s].pc = "reversing" => /\ call[s].on \in Requests
                                      /\ tx'[call[s].on].original = None
                                      /\ tx'[call[s].on].state \in {"CONFIRMED", "REVERSED"}
      BY <1>1 DEF LockInv, CallInv, IsPayment
    <2> QED
      BY <2>1, <2>2, <2>3
  <1>5. WorkerInv'
    <2> SUFFICES ASSUME NEW w \in Workers, worker'[w].pc # "idle"
                 PROVE  /\ worker'[w].on \in Requests
                        /\ tx'[worker'[w].on].state \notin {"ABSENT", "RECEIVED"}
                        /\ tx'[worker'[w].on].original = None
      BY DEF WorkerInv, IsPayment, Present
    <2>1. worker[w].pc # "idle" /\ worker'[w].on = worker[w].on
      <3>1. CASE worker' = worker
        BY <3>1
      <3>2. CASE \E v \in Workers : PassEnds(v) \/ bumpAttempts(v)
        BY <3>2 DEF TypeOK, PassEnds, Resting, bumpAttempts
      <3> QED
        BY <3>1, <3>2
    <2> QED
      BY <1>1, <2>1 DEF LockInv, WorkerInv, IsPayment, Present
  <1> QED
    BY <1>2, <1>3, <1>4, <1>5 DEF LockInv

\* The row a call may write, before the envelope's first call and after it.
LEMMA RowForFacts ==
  ASSUME TypeOK, LockInv, NEW r \in Requests, call[r].pc = "new",
         NEW e \in Envelopes, NEW t \in RowFor(e, r)
  PROVE  /\ t \in Requests
         /\ Stored(t, e) \in Row
         /\ Stored(t, e).original = None /\ Stored(t, e).envelope = e
         /\ Stored(t, e).state = IF Present(t) THEN tx[t].state ELSE "RECEIVED"
         /\ \/ t = r /\ ~Present(t) /\ \A u \in Requests : IsPayment(u) => tx[u].envelope # e
            \/ IsPayment(t) /\ tx[t].envelope = e
  <1>1. CASE RowsOf(e) = {}
    <2>1. t = r /\ ~Present(t) /\ \A u \in Requests : IsPayment(u) => tx[u].envelope # e
      BY <1>1 DEF RowFor, RowsOf, LockInv, CallInv
    <2> QED
      BY <2>1, StoredType DEF Stored, NoRow
  <1>2. CASE RowsOf(e) # {}
    <2>1. t \in Requests /\ IsPayment(t) /\ tx[t].envelope = e
      BY <1>2 DEF RowFor, RowsOf
    <2> QED
      BY <2>1, StoredType DEF Stored, IsPayment
  <1> QED
    BY <1>1, <1>2

\* The row an open orchestrator transaction writes when it ends.
LEMMA HeldRowFacts ==
  ASSUME TypeOK, LockInv, NEW r \in Requests, call[r].pc = "crediting"
  PROVE  LET t == call[r].on
             e == call[r].envelope
         IN /\ t \in Requests /\ e \in Envelopes /\ call[r].fee \in BOOLEAN
            /\ Stored(t, e) \in Row
            /\ Stored(t, e).original = None /\ Stored(t, e).envelope = e
            /\ tx[t].state \in {"ABSENT", "RECEIVED"}
            /\ \/ t = r /\ ~Present(t) /\ \A u \in Requests : IsPayment(u) => tx[u].envelope # e
               \/ IsPayment(t) /\ tx[t].envelope = e
            /\ \A s \in Requests \ {r} : ~Crediting(s, e)
  <1>1. Holds(r)
    BY DEF LockInv, CallInv
  <1>2. call[r].on \in Requests /\ call[r].envelope \in Envelopes /\ call[r].fee \in BOOLEAN
    BY <1>1 DEF Holds, TypeOK, Call
  <1>3. \A s \in Requests \ {r} : ~Crediting(s, call[r].envelope)
    BY <1>2 DEF LockInv, Exclusive, Crediting
  <1> QED
    BY <1>1, <1>2, <1>3, StoredType DEF Holds, Stored, NoRow, Present, IsPayment

LEMMA NotLockedFacts ==
  ASSUME NEW e \in Envelopes, ~Locked(e)
  PROVE  \A s \in Requests : ~Crediting(s, e)
  BY DEF Locked, Crediting

LEMMA LockProcessStarts ==
  ASSUME TypeOK, LockInv, NEW r \in Requests, NEW e \in Envelopes,
         Ingest(r, e) \/ ProcessDeduped(r, e) \/ ProcessDeclined(r, e)
           \/ ProcessRefused(r, e) \/ ProcessSendsCreditLeg(r, e)
  PROVE  LockInv'
  <1>1. CASE Ingest(r, e)
    <2>1. PICK t \in RowFor(e, r) : tx' = [tx EXCEPT ![t] = Stored(t, e)]
      BY <1>1 DEF Ingest
    <2>2. call[r].pc = "new" /\ ~Locked(e) /\ Returns(r) /\ UNCHANGED worker
      BY <1>1 DEF Ingest
    <2>3. tx[t].state \in Committed
      BY <2>2, RowForFacts DEF LockInv, RowInv
    <2>4. /\ Stored(t, e).state \in Committed \ {"ABSENT"}
          /\ tx[t].state \in {"CONFIRMED", "REVERSED"} => Stored(t, e).state = tx[t].state
          /\ Present(t) /\ tx[t].state # "RECEIVED" => Stored(t, e).state # "RECEIVED"
      BY <2>2, <2>3, RowForFacts DEF Present, Committed
    <2>5. /\ t \in Requests /\ Stored(t, e) \in Row
          /\ Stored(t, e).original = None /\ Stored(t, e).envelope = e
          /\ \/ t = r /\ ~Present(t) /\ \A u \in Requests : IsPayment(u) => tx[u].envelope # e
             \/ IsPayment(t) /\ tx[t].envelope = e
      BY <2>2, RowForFacts
    <2>6. \A s \in Requests : ~Crediting(s, e)
      BY <2>2, NotLockedFacts
    <2> QED
      BY <2>1, <2>2, <2>4, <2>5, <2>6, WriteKeepsLockInv
  <1>2. CASE ProcessDeduped(r, e)
    BY <1>2 DEF ProcessDeduped, Returns, CallAt, rail, TypeOK, LockInv, RowInv, UniqueRow,
                Exclusive, Crediting, CallInv, Holds, WorkerInv, Present, IsPayment
  <1>3. CASE ProcessDeclined(r, e)
    <2>1. PICK t \in RowFor(e, r) :
            /\ canTransition(Stored(t, e).state, "REJECTED")
            /\ tx' = [tx EXCEPT ![t] = Finalize(Stored(t, e), "REJECTED", "DECLINED")]
      BY <1>3 DEF ProcessDeclined
    <2>2. call[r].pc = "new" /\ ~Locked(e) /\ Returns(r) /\ UNCHANGED worker
      BY <1>3 DEF ProcessDeclined
    <2> DEFINE row == Finalize(Stored(t, e), "REJECTED", "DECLINED")
    <2>3. /\ row \in Row /\ row.original = None /\ row.envelope = e /\ row.state = "REJECTED"
      <3>1. row \in Row
        BY <2>2, RowForFacts, FinalizeType DEF STATES, Reasons
      <3> QED
        BY <2>2, <3>1, RowForFacts DEF Finalize, Row
    <2>4. tx[t].state \notin {"CONFIRMED", "REVERSED"}
      <3>1. tx[t].state \in Committed
        BY <2>2, RowForFacts DEF LockInv, RowInv
      <3>2. Stored(t, e).state = IF Present(t) THEN tx[t].state ELSE "RECEIVED"
        BY <2>2, RowForFacts
      <3> QED
        BY <2>1, <3>1, <3>2 DEF canTransition, isTerminal, TERMINAL_STATES, VALID_TRANSITIONS, Present
    <2> HIDE DEF row
    <2>5. row.state \in Committed \ {"ABSENT"}
      BY <2>3 DEF Committed
    <2>6. tx' = [tx EXCEPT ![t] = row]
      BY <2>1 DEF row
    <2>7. /\ t \in Requests
          /\ \/ t = r /\ ~Present(t) /\ \A u \in Requests : IsPayment(u) => tx[u].envelope # e
             \/ IsPayment(t) /\ tx[t].envelope = e
      BY <2>2, RowForFacts
    <2>8. \A s \in Requests : ~Crediting(s, e)
      BY <2>2, NotLockedFacts
    <2>9. row.state # "RECEIVED"
      BY <2>3
    <2> QED
      BY <2>2, <2>3, <2>4, <2>5, <2>6, <2>7, <2>8, <2>9, WriteKeepsLockInv
  <1>4. CASE ProcessRefused(r, e)
    <2>1. PICK t : call' = [call EXCEPT ![r] = CallAt("failed", t, e, FALSE)]
      BY <1>4 DEF ProcessRefused
    <2> QED
      BY <1>4, <2>1 DEF ProcessRefused, CallAt, rail, TypeOK, LockInv, RowInv, UniqueRow,
                Exclusive, Crediting, CallInv, Holds, WorkerInv, Present, IsPayment
  <1>5. CASE ProcessSendsCreditLeg(r, e)
    <2>1. PICK t \in RowFor(e, r), f \in BOOLEAN :
            /\ canTransition(Stored(t, e).state, "AUTHORIZED")
            /\ call' = [call EXCEPT ![r] = CallAt("crediting", t, e, f)]
      BY <1>5 DEF ProcessSendsCreditLeg
    <2>2. call[r].pc = "new" /\ ~Locked(e) /\ UNCHANGED <<tx, worker>>
      BY <1>5 DEF ProcessSendsCreditLeg, rail
    <2>3. \/ t = r /\ ~Present(t) /\ \A u \in Requests : IsPayment(u) => tx[u].envelope # e
          \/ tx[t].state = "RECEIVED" /\ tx[t].original = None /\ tx[t].envelope = e
      <3>1. tx[t].state \in Committed
        BY <2>2, RowForFacts DEF LockInv, RowInv
      <3>2. Stored(t, e).state = IF Present(t) THEN tx[t].state ELSE "RECEIVED"
        BY <2>2, RowForFacts
      <3>3. Present(t) => tx[t].state = "RECEIVED"
        BY <2>1, <3>1, <3>2 DEF canTransition, isTerminal, TERMINAL_STATES, VALID_TRANSITIONS,
                                Present, Committed
      <3> QED
        BY <2>2, <3>3, RowForFacts DEF IsPayment
    <2>4. \A s \in Requests : call'[s] = IF s = r THEN CallAt("crediting", t, e, f) ELSE call[s]
      BY <2>1 DEF TypeOK
    <2>5. RowInv' /\ UniqueRow' /\ WorkerInv'
      BY <2>2 DEF LockInv, RowInv, UniqueRow, WorkerInv, IsPayment, Present
    <2>6. Exclusive'
      BY <2>2, <2>4, NotLockedFacts DEF LockInv, Exclusive, Crediting, CallAt
    <2>7. CallInv'
      <3>1. t \in Requests
        BY <2>2, RowForFacts
      <3> QED
        BY <2>2, <2>3, <2>4, <3>1 DEF LockInv, CallInv, Holds, CallAt, Present, IsPayment
    <2> QED
      BY <2>5, <2>6, <2>7 DEF LockInv
  <1> QED
    BY <1>1, <1>2, <1>3, <1>4, <1>5

LEMMA LockProcessEnds ==
  ASSUME TypeOK, LockInv, NEW r \in Requests,
         ProcessConfirms(r) \/ ProcessRejects(r) \/ ProcessLeavesPending(r) \/ ProcessFails(r)
  PROVE  LockInv'
  <1> DEFINE t == call[r].on
             e == call[r].envelope
  <1>1. call[r].pc = "crediting"
    BY DEF ProcessConfirms, ProcessRejects, ProcessLeavesPending, ProcessFails
  <1>2. ASSUME NEW state \in {"CONFIRMED", "REJECTED", "PENDING_RECONCILIATION"},
               NEW reason \in Reasons,
               tx' = [tx EXCEPT ![t] = Ended(Stored(t, e), state, reason, call[r].fee)],
               Returns(r), UNCHANGED worker
        PROVE  LockInv'
    <2> DEFINE row == Ended(Stored(t, e), state, reason, call[r].fee)
    <2>1. row \in Row
      BY <1>1, HeldRowFacts, EndedType DEF STATES
    <2>2. row.original = None /\ row.envelope = e /\ row.state = state
      BY <1>1, HeldRowFacts DEF Ended, Row
    <2>3. row.state \in Committed \ {"ABSENT"}
      BY <2>2 DEF Committed
    <2>4. tx' = [tx EXCEPT ![t] = row]
      BY <1>2
    <2> HIDE DEF row
    <2> QED
      BY <1>1, <1>2, <2>1, <2>2, <2>3, <2>4, HeldRowFacts, WriteKeepsLockInv DEF Present
  <1>3. CASE ProcessConfirms(r)
    BY <1>2, <1>3 DEF ProcessConfirms, Reasons
  <1>4. CASE ProcessRejects(r)
    BY <1>2, <1>4 DEF ProcessRejects, Reasons
  <1>5. CASE ProcessLeavesPending(r)
    BY <1>2, <1>5 DEF ProcessLeavesPending, Reasons
  <1>6. CASE ProcessFails(r)
    BY <1>6 DEF ProcessFails, Throws, CallAt, rail, TypeOK, LockInv, RowInv, UniqueRow,
                Exclusive, Crediting, CallInv, Holds, WorkerInv, Present, IsPayment
  <1> QED
    BY <1>3, <1>4, <1>5, <1>6

LEMMA LockOperator ==
  ASSUME TypeOK, LockInv, NEW t \in Requests,
         operatorKillSwitch(t) \/ runById(t) \/ BackoffElapses(t)
           \/ ParticipantExecutes(t) \/ ParticipantRefuses(t)
  PROVE  LockInv'
  <1>1. CASE operatorKillSwitch(t)
    <2> DEFINE row == Finalize(tx[t], "REJECTED", "KILLED")
    <2>1. row \in Row /\ row.original = tx[t].original /\ row.envelope = tx[t].envelope
            /\ row.state = "REJECTED"
      <3>1. tx[t] \in Row
        BY DEF TypeOK
      <3> QED
        BY <3>1, FinalizeType, FinalizeFields DEF STATES, Reasons
    <2>2. /\ IsPayment(t) /\ ~Locked(tx[t].envelope) /\ UNCHANGED <<call, worker>>
          /\ tx[t].state \notin {"CONFIRMED", "REVERSED"}
          /\ tx' = [tx EXCEPT ![t] = row]
      BY <1>1 DEF operatorKillSwitch, isTerminal, TERMINAL_STATES
    <2> HIDE DEF row
    <2>3. row.state \in Committed \ {"ABSENT"}
      BY <2>1 DEF Committed
    <2> QED
      BY <2>1, <2>2, <2>3, UpdateKeepsLockInv
  <1>2. CASE BackoffElapses(t)
    <2> DEFINE row == [tx[t] EXCEPT !.due = TRUE]
    <2>1. row \in Row /\ row.original = tx[t].original /\ row.envelope = tx[t].envelope
            /\ row.state = "PENDING_RECONCILIATION"
      BY <1>2, DueType DEF TypeOK, Row, BackoffElapses
    <2>2. /\ tx[t].state = "PENDING_RECONCILIATION" /\ UNCHANGED <<call, worker>>
          /\ tx' = [tx EXCEPT ![t] = row]
      BY <1>2 DEF BackoffElapses
    <2> HIDE DEF row
    <2>3. row.state \in Committed \ {"ABSENT"} /\ IsPayment(t)
      BY <2>1, <2>2 DEF Committed, LockInv, RowInv, IsPayment, Present
    <2> QED
      BY <2>1, <2>2, <2>3, UpdateKeepsLockInv
  <1>3. CASE runById(t) \/ ParticipantExecutes(t) \/ ParticipantRefuses(t)
    BY <1>3 DEF runById, ParticipantExecutes, ParticipantRefuses, rail, LockInv, RowInv, UniqueRow,
                Exclusive, Crediting, CallInv, Holds, WorkerInv, Present, IsPayment
  <1> QED
    BY <1>1, <1>2, <1>3

LEMMA LockReversal ==
  ASSUME TypeOK, LockInv, NEW r \in Requests, Reversal(r)
  PROVE  LockInv'
  <1>1. CASE \E o \in Requests : ReversalStarts(r, o)
    <2>1. PICK o \in Requests : ReversalStarts(r, o)
      BY <1>1
    <2>2. \A s \in Requests : call'[s] = IF s = r THEN CallAt("reversing", o, None, FALSE) ELSE call[s]
      BY <2>1 DEF ReversalStarts, TypeOK
    <2>3. call[r].pc = "new" /\ MayBeReversed(o) /\ UNCHANGED <<tx, worker>>
      BY <2>1 DEF ReversalStarts, rail
    <2>4. RowInv' /\ UniqueRow' /\ WorkerInv'
      BY <2>3 DEF LockInv, RowInv, UniqueRow, WorkerInv, IsPayment, Present
    <2>5. Exclusive'
      BY <2>2 DEF LockInv, Exclusive, Crediting, CallAt
    <2>6. CallInv'
      BY <2>2, <2>3 DEF LockInv, CallInv, Holds, CallAt, Present, IsPayment, MayBeReversed
    <2> QED
      BY <2>4, <2>5, <2>6 DEF LockInv
  <1>2. CASE ReversalFails(r)
    BY <1>2 DEF ReversalFails, Throws, CallAt, rail, TypeOK, LockInv, RowInv, UniqueRow,
                Exclusive, Crediting, CallInv, Holds, WorkerInv, Present, IsPayment
  <1>3. ASSUME NEW o \in Requests, o = call[r].on, call[r].pc = "reversing",
               NEW state \in {"CONFIRMED", "REJECTED"}, NEW reason \in Reasons,
               NEW orow \in Row, orow.original = tx[o].original, orow.envelope = tx[o].envelope,
               orow.state \in {tx[o].state, "REVERSED"},
               tx' = [tx EXCEPT ![r] = ReversalRow(r, o, state, reason), ![o] = orow],
               Returns(r), UNCHANGED worker
        PROVE  LockInv'
    <2> DEFINE row == ReversalRow(r, o, state, reason)
    <2>1. /\ ~Present(r) /\ tx[o].original = None /\ tx[o].state \in {"CONFIRMED", "REVERSED"}
          /\ r # o
      BY <1>3 DEF LockInv, CallInv, Present
    <2>2. /\ row.original = o /\ row.state = state
          /\ row.envelope = tx[o].envelope /\ tx[o].envelope \in Envelopes
      BY <2>1 DEF ReversalRow, NoRow, LockInv, RowInv, Present
    <2>3. /\ orow.state \in {"CONFIRMED", "REVERSED"} /\ orow.original = None
          /\ orow.envelope = tx[o].envelope
      BY <1>3, <2>1
    <2> HIDE DEF row
    <2>4. \A u \in Requests : tx'[u] = IF u = o THEN orow ELSE IF u = r THEN row ELSE tx[u]
      BY <1>3, <2>1 DEF TypeOK, row
    <2>5. \A s \in Requests : s # r => call'[s] = call[s]
      BY <1>3 DEF TypeOK, Returns
    <2>6. call'[r].pc = "done"
      BY <1>3 DEF TypeOK, Returns, CallAt
    <2>7. o # None
      BY NoneAssumption
    <2>8. RowInv'
      BY <2>1, <2>2, <2>3, <2>4 DEF LockInv, RowInv, Present, Committed
    <2>9. UniqueRow'
      BY <1>3, <2>1, <2>2, <2>3, <2>4, <2>7 DEF LockInv, UniqueRow, IsPayment, Present
    <2>10. Exclusive'
      BY <2>5, <2>6 DEF LockInv, Exclusive, Crediting
    <2>11. CallInv'
      <3> SUFFICES ASSUME NEW s \in Requests
                   PROVE  /\ call'[s].pc \in {"new", "reversing"} => ~Present(s)'
                          /\ call'[s].pc = "crediting" => Holds(s)'
                          /\ call'[s].pc = "reversing" =>
                               /\ call'[s].on \in Requests
                               /\ tx'[call'[s].on].original = None
                               /\ tx'[call'[s].on].state \in {"CONFIRMED", "REVERSED"}
        BY DEF CallInv
      <3>1. CASE s = r
        BY <3>1, <2>6
      <3>2. CASE s # r
        <4>1. call'[s] = call[s]
          BY <3>2, <2>5
        <4>2. call[s].pc \in {"new", "reversing"} => ~Present(s)'
          BY <3>2, <2>1, <2>4 DEF LockInv, CallInv, Present
        <4>3. call[s].pc = "crediting" => Holds(s)'
          <5> SUFFICES ASSUME call[s].pc = "crediting" PROVE Holds(s)'
            OBVIOUS
          <5>1. Holds(s)
            BY DEF LockInv, CallInv
          <5> QED
            <6>1. \A u \in Requests : IsPayment(u)' => IsPayment(u) /\ tx'[u].envelope = tx[u].envelope
              BY <2>1, <2>2, <2>3, <2>4, <2>7 DEF IsPayment, Present
            <6>2. call[s].on # o
              BY <2>1, <5>1 DEF Holds, Present
            <6>3. call[s].on = r => FALSE
              BY <2>1, <3>2, <5>1 DEF Holds, Present
            <6> QED
              BY <2>4, <3>2, <4>1, <5>1, <6>1, <6>2, <6>3 DEF Holds, Present
        <4>4. call[s].pc = "reversing" => /\ call[s].on \in Requests
                                          /\ tx'[call[s].on].original = None
                                          /\ tx'[call[s].on].state \in {"CONFIRMED", "REVERSED"}
          BY <2>1, <2>3, <2>4 DEF LockInv, CallInv, Present
        <4> QED
          BY <4>1, <4>2, <4>3, <4>4
      <3> QED
        BY <3>1, <3>2
    <2>12. WorkerInv'
      <3>1. UNCHANGED worker
        BY <1>3
      <3> QED
        BY <2>1, <2>3, <2>4, <3>1 DEF LockInv, WorkerInv, IsPayment, Present
    <2> QED
      BY <2>8, <2>9, <2>10, <2>11, <2>12 DEF LockInv
  <1>4. CASE ReversalConfirms(r)
    <2> DEFINE o == call[r].on
    <2>1. o \in Requests /\ call[r].pc = "reversing" /\ ~Present(r) /\ Present(o)
      BY <1>4 DEF ReversalConfirms, LockInv, CallInv, Present
    <2>2. /\ Unwound(tx[o], r) \in Row
          /\ Unwound(tx[o], r).original = tx[o].original
          /\ Unwound(tx[o], r).envelope = tx[o].envelope
          /\ Unwound(tx[o], r).state = "REVERSED"
      <3>1. tx[o] \in Row
        BY <2>1 DEF TypeOK
      <3> QED
        BY <3>1, UnwoundType, UnwoundFields
    <2>3. tx' = [tx EXCEPT ![r] = ReversalRow(r, o, "CONFIRMED", "SUCCESS"), ![o] = Unwound(tx[o], r)]
      BY <1>4, <2>1 DEF ReversalConfirms, TypeOK, Present
    <2> QED
      BY <1>3, <1>4, <2>1, <2>2, <2>3 DEF ReversalConfirms, Reasons
  <1>5. CASE ReversalRejected(r)
    <2> DEFINE o == call[r].on
    <2>1. o \in Requests /\ call[r].pc = "reversing" /\ ~Present(r) /\ Present(o)
      BY <1>5 DEF ReversalRejected, LockInv, CallInv, Present
    <2>2. tx[o] \in Row /\ tx[o].state \in {tx[o].state, "REVERSED"}
      BY <2>1 DEF TypeOK
    <2>3. tx' = [tx EXCEPT ![r] = ReversalRow(r, o, "REJECTED", "TECH"), ![o] = tx[o]]
      BY <1>5, <2>1 DEF ReversalRejected, TypeOK, Present
    <2> QED
      BY <1>3, <1>5, <2>1, <2>2, <2>3 DEF ReversalRejected, Reasons
  <1> QED
    BY <1>1, <1>2, <1>4, <1>5 DEF Reversal

LEMMA LockWorker ==
  ASSUME TypeOK, LockInv, NEW w \in Workers,
         PickBatch(w) \/ runOnceForId(w) \/ PassFails(w)
  PROVE  LockInv'
  <1> DEFINE t == worker[w].on
  <1>1. CASE UNCHANGED <<tx, call>> /\ \A v \in Workers :
               worker'[v].pc # "idle" =>
                 \/ worker[v].pc # "idle" /\ worker'[v].on = worker[v].on
                 \/ worker'[v].on \in Requests
                      /\ tx[worker'[v].on].state = "PENDING_RECONCILIATION"
    <2>1. RowInv' /\ UniqueRow' /\ Exclusive' /\ CallInv'
      BY <1>1 DEF LockInv, RowInv, UniqueRow, Exclusive, Crediting, CallInv, Holds, Present, IsPayment
    <2>2. WorkerInv'
      <3>1. \A u \in Requests : tx[u].state = "PENDING_RECONCILIATION" => IsPayment(u)
        BY DEF LockInv, RowInv, IsPayment, Present
      <3> QED
        BY <1>1, <3>1 DEF LockInv, WorkerInv, IsPayment, Present
    <2> QED
      BY <2>1, <2>2 DEF LockInv
  <1>2. CASE PickBatch(w)
    BY <1>1, <1>2 DEF PickBatch, Resting, rail, TypeOK
  <1>3. CASE \E u \in Requests : SkipMoved(w, u) \/ probeOnce(w, u)
    <2>1. PICK u \in Requests : SkipMoved(w, u) \/ probeOnce(w, u)
      BY <1>3
    <2>2. CASE SkipMoved(w, u)
      BY <1>1, <2>2 DEF SkipMoved, Resting, rail, TypeOK
    <2>3. CASE probeOnce(w, u)
      BY <1>1, <2>3 DEF probeOnce, rail, TypeOK
    <2> QED
      BY <2>1, <2>2, <2>3
  <1>4. CASE PassFails(w) \/ DecideSkips(w)
    <2>1. UNCHANGED <<tx, call>> /\ \E batch : worker' = [worker EXCEPT ![w] = Resting(batch)]
      BY <1>4 DEF PassFails, DecideSkips, PassEnds, rail
    <2> QED
      BY <1>1, <2>1 DEF Resting, TypeOK
  <1>5. CASE bumpAttempts(w)
    <2>1. t \in Requests /\ IsPayment(t) /\ tx[t] \in Row /\ tx[t].state \in Committed
      BY <1>5 DEF bumpAttempts, LockInv, WorkerInv, RowInv, TypeOK
    <2>2. /\ Bumped(tx[t]) \in Row
          /\ Bumped(tx[t]).original = tx[t].original
          /\ Bumped(tx[t]).envelope = tx[t].envelope
          /\ Bumped(tx[t]).state = tx[t].state
      BY <2>1, BumpedType DEF Bumped, Row
    <2>3. tx' = [tx EXCEPT ![t] = Bumped(tx[t])] /\ UNCHANGED call
      BY <1>5, <2>1 DEF bumpAttempts, TypeOK
    <2>4. Bumped(tx[t]).state \in Committed \ {"ABSENT"}
      BY <2>1, <2>2 DEF IsPayment, Present
    <2> HIDE DEF t
    <2> QED
      BY <1>5, <2>1, <2>2, <2>3, <2>4, UpdateKeepsLockInv
  <1>6. CASE DecideCredited(w) \/ DecideNotCredited(w) \/ DecideExhausted(w) \/ DecideReschedules(w)
    <2>1. /\ t \in Requests /\ IsPayment(t) /\ tx[t] \in Row
          /\ tx[t].state = "PENDING_RECONCILIATION" /\ UNCHANGED call /\ PassEnds(w)
      BY <1>6 DEF DecideCredited, DecideNotCredited, DecideExhausted, DecideReschedules, Deciding,
                  LockInv, WorkerInv, TypeOK
    <2>2. PICK row \in Row :
            /\ row.original = tx[t].original /\ row.envelope = tx[t].envelope
            /\ row.state \in {"CONFIRMED", "REJECTED", "FAILED", "PENDING_RECONCILIATION"}
            /\ tx' = [tx EXCEPT ![t] = row]
      <3>1. \A s \in {"CONFIRMED", "REJECTED", "FAILED"}, reason \in Reasons :
               LET row == Finalize(tx[t], s, reason)
               IN /\ row \in Row /\ row.original = tx[t].original
                  /\ row.envelope = tx[t].envelope /\ row.state = s
        <4> TAKE s \in {"CONFIRMED", "REJECTED", "FAILED"}, reason \in Reasons
        <4>1. s \in STATES
          BY DEF STATES
        <4>2. Finalize(tx[t], s, reason) \in Row
          BY <2>1, <4>1, FinalizeType
        <4> HIDE DEF t
        <4> QED
          BY <2>1, <4>2, FinalizeFields
      <3>2. CASE DecideCredited(w) \/ DecideNotCredited(w)
        <4>1. \E s \in {"CONFIRMED", "REJECTED", "FAILED"}, reason \in Reasons :
                 tx' = [tx EXCEPT ![t] = Finalize(tx[t], s, reason)]
          BY <3>2, <2>1 DEF DecideCredited, DecideNotCredited, TypeOK, Reasons
        <4> QED
          BY <3>1, <4>1
      <3>3. CASE DecideExhausted(w)
        <4>1. \A outcomes : /\ decideTerminalAtExhaust(outcomes).state \in {"CONFIRMED", "REJECTED", "FAILED"}
                            /\ decideTerminalAtExhaust(outcomes).reason \in Reasons
          BY DEF decideTerminalAtExhaust, Reasons
        <4>2. \E s \in {"CONFIRMED", "REJECTED", "FAILED"}, reason \in Reasons :
                 tx' = [tx EXCEPT ![t] = Finalize(tx[t], s, reason)]
          BY <3>3, <2>1, <4>1 DEF DecideExhausted, TypeOK
        <4> QED
          BY <3>1, <4>2
      <3>4. CASE DecideReschedules(w)
        <4>1. LET row == [tx[t] EXCEPT !.due = FALSE]
              IN /\ row \in Row /\ row.original = tx[t].original
                 /\ row.envelope = tx[t].envelope /\ row.state = tx[t].state
          BY <2>1, DueType DEF Row
        <4>2. tx' = [tx EXCEPT ![t] = [tx[t] EXCEPT !.due = FALSE]]
          BY <3>4, <2>1 DEF DecideReschedules, TypeOK
        <4> QED
          BY <2>1, <4>1, <4>2
      <3> QED
        BY <1>6, <3>2, <3>3, <3>4
    <2>3. row.state \in Committed \ {"ABSENT"}
      BY <2>2 DEF Committed
    <2> HIDE DEF t
    <2>4. row.state # "RECEIVED"
      BY <2>2
    <2> QED
      BY <2>1, <2>2, <2>3, <2>4, UpdateKeepsLockInv
  <1> QED
    BY <1>2, <1>3, <1>4, <1>5, <1>6 DEF runOnceForId, Decide

-----------------------------------------------------------------------------
(* What the rail's rows say is what the participant did.                   *)

RowTruth(t) ==
  /\ tx[t].state \in {"CONFIRMED", "REVERSED"} => participant[t] = "executed"
  /\ posted[t] = IF WasConfirmed(t) THEN 1 ELSE 0
  /\ t \in receipts <=> WasConfirmed(t)
  /\ tx[t].state \in {"ABSENT", "RECEIVED", "PENDING_RECONCILIATION"} =>
       probes[t] \cap {"CREDITED", "NOT_CREDITED"} = {}
  /\ tx[t].reason \in {"REFUSED", "NOT_CREDITED"} =>
       tx[t].state = "REJECTED" /\ (t \in reruns \/ participant[t] = "refused")

\* A conclusive probe stays true until the worker decides on it.
ProbeTruth(w) ==
  worker[w].pc # "idle" =>
    /\ worker[w].outcome = "CREDITED" => participant[worker[w].on] = "executed"
    /\ worker[w].outcome = "NOT_CREDITED" =>
         worker[w].on \in reruns \/ participant[worker[w].on] = "refused"

TruthInv ==
  /\ \A t \in Requests : RowTruth(t)
  /\ \A w \in Workers : ProbeTruth(w)

IInv == TypeOK /\ LockInv /\ TruthInv

LEMMA TruthInit == Init => TruthInv
  BY DEF Init, TruthInv, RowTruth, ProbeTruth, WasConfirmed, IsPayment, Present, NoRow, Resting

\* The participant moves, or an instruction is sent to it.
LEMMA ParticipantKeepsTruth ==
  ASSUME IInv, UNCHANGED <<rail, worker>>, reruns \subseteq reruns',
         \A u \in Requests : participant[u] = "executed" => participant'[u] = "executed",
         \A u \in Requests : participant[u] = "refused" =>
           \/ participant'[u] = "refused"
           \/ u \in reruns'
           \/ tx[u].state \in {"ABSENT", "RECEIVED"}
  PROVE  TruthInv'
  <1>1. ASSUME NEW t \in Requests PROVE RowTruth(t)'
    BY DEF IInv, TruthInv, RowTruth, WasConfirmed, IsPayment, Present, rail
  <1>2. ASSUME NEW w \in Workers PROVE ProbeTruth(w)'
    BY DEF IInv, TruthInv, ProbeTruth, LockInv, WorkerInv, IsPayment, Present, rail
  <1> QED
    BY <1>1, <1>2 DEF TruthInv

LEMMA SendKeepsTruth ==
  ASSUME IInv, NEW t \in Requests, Send(t), UNCHANGED <<rail, worker>>, reruns \subseteq reruns',
         t \in reruns' \/ tx[t].state \in {"ABSENT", "RECEIVED"}
  PROVE  TruthInv'
  <1>1. \A u \in Requests : u # t => participant'[u] = participant[u]
    BY DEF Send, IInv, TypeOK
  <1>2. participant[t] = "executed" => participant'[t] = "executed"
    BY DEF Send, IInv, TypeOK
  <1>3. \A u \in Requests : participant[u] = "executed" => participant'[u] = "executed"
    BY <1>1, <1>2
  <1>4. \A u \in Requests : participant[u] = "refused" =>
           participant'[u] = "refused" \/ u \in reruns' \/ tx[u].state \in {"ABSENT", "RECEIVED"}
    BY <1>1
  <1> QED
    BY <1>3, <1>4, ParticipantKeepsTruth

\* One row changes, and its own clause is kept.
LEMMA RowKeepsTruth ==
  ASSUME IInv, NEW t \in Requests, NEW row \in Row,
         tx' = [tx EXCEPT ![t] = row], UNCHANGED <<participant, reruns>>,
         \A u \in Requests : u # t => /\ posted'[u] = posted[u]
                                      /\ u \in receipts' <=> u \in receipts
                                      /\ probes'[u] = probes[u],
         \A w \in Workers : worker'[w].pc # "idle" =>
           /\ worker[w].pc # "idle"
           /\ worker'[w].on = worker[w].on /\ worker'[w].outcome = worker[w].outcome,
         RowTruth(t)'
  PROVE  TruthInv'
  <1>1. \A u \in Requests : u # t => tx'[u] = tx[u]
    BY DEF IInv, TypeOK
  <1>2. ASSUME NEW u \in Requests PROVE RowTruth(u)'
    <2>1. CASE u = t
      BY <2>1
    <2>2. CASE u # t
      <3>1. RowTruth(u)
        BY DEF IInv, TruthInv
      <3> QED
        BY <1>1, <2>2, <3>1 DEF RowTruth, WasConfirmed, IsPayment, Present
    <2> QED
      BY <2>1, <2>2
  <1>3. ASSUME NEW w \in Workers PROVE ProbeTruth(w)'
    BY DEF IInv, TruthInv, ProbeTruth
  <1> QED
    BY <1>2, <1>3 DEF TruthInv

LEMMA TruthProcessStarts ==
  ASSUME IInv, NEW r \in Requests, NEW e \in Envelopes,
         Ingest(r, e) \/ ProcessDeduped(r, e) \/ ProcessDeclined(r, e)
           \/ ProcessRefused(r, e) \/ ProcessSendsCreditLeg(r, e)
  PROVE  TruthInv'
  <1> USE DEF IInv
  <1>1. CASE Ingest(r, e)
    <2>1. PICK t \in RowFor(e, r) : tx' = [tx EXCEPT ![t] = Stored(t, e)]
      BY <1>1 DEF Ingest
    <2>2. call[r].pc = "new" /\ UNCHANGED <<probes, posted, receipts, worker, participant, reruns>>
      BY <1>1 DEF Ingest
    <2>3. t \in Requests /\ Stored(t, e) \in Row
      BY <2>2, RowForFacts
    <2>4. tx'[t] = Stored(t, e)
      BY <2>1, <2>3 DEF TypeOK
    <2>5. RowTruth(t)'
      <3>1. RowTruth(t)
        BY <2>3 DEF TruthInv
      <3>2. CASE Present(t)
        BY <2>2, <2>4, <3>1, <3>2 DEF RowTruth, Stored, WasConfirmed, IsPayment, Present
      <3>3. CASE ~Present(t)
        BY <2>2, <2>4, <3>1, <3>3 DEF RowTruth, Stored, NoRow, WasConfirmed, IsPayment, Present
      <3> QED
        BY <3>2, <3>3
    <2> QED
      BY <2>1, <2>2, <2>3, <2>5, RowKeepsTruth
  <1>2. CASE ProcessDeduped(r, e) \/ ProcessRefused(r, e)
    <2>1. UNCHANGED <<rail, worker, participant, reruns>>
      BY <1>2 DEF ProcessDeduped, ProcessRefused
    <2> QED
      BY <2>1, ParticipantKeepsTruth
  <1>3. CASE ProcessDeclined(r, e)
    <2>1. PICK t \in RowFor(e, r) :
            /\ canTransition(Stored(t, e).state, "REJECTED")
            /\ tx' = [tx EXCEPT ![t] = Finalize(Stored(t, e), "REJECTED", "DECLINED")]
      BY <1>3 DEF ProcessDeclined
    <2>2. call[r].pc = "new" /\ UNCHANGED <<probes, posted, receipts, worker, participant, reruns>>
      BY <1>3 DEF ProcessDeclined
    <2>3. /\ t \in Requests /\ Stored(t, e) \in Row
          /\ Stored(t, e).state = IF Present(t) THEN tx[t].state ELSE "RECEIVED"
      BY <2>2, RowForFacts
    <2>4. /\ tx'[t].state = "REJECTED" /\ tx'[t].reason = "DECLINED"
          /\ Finalize(Stored(t, e), "REJECTED", "DECLINED") \in Row
      BY <2>1, <2>3, FinalizeType, FinalizeFields DEF TypeOK, STATES, Reasons
    <2>5. ~WasConfirmed(t)
      BY <2>1, <2>3 DEF WasConfirmed, IsPayment, canTransition, isTerminal, TERMINAL_STATES,
                        VALID_TRANSITIONS, Present
    <2>6. RowTruth(t)'
      <3>1. RowTruth(t)
        BY <2>3 DEF TruthInv
      <3> QED
        BY <2>2, <2>4, <2>5, <3>1 DEF RowTruth, WasConfirmed
    <2> QED
      BY <2>1, <2>2, <2>3, <2>4, <2>6, RowKeepsTruth
  <1>4. CASE ProcessSendsCreditLeg(r, e)
    <2>1. PICK t \in RowFor(e, r) : canTransition(Stored(t, e).state, "AUTHORIZED") /\ Send(t)
      BY <1>4 DEF ProcessSendsCreditLeg
    <2>2. call[r].pc = "new" /\ UNCHANGED <<rail, worker, reruns>>
      BY <1>4 DEF ProcessSendsCreditLeg
    <2>3. /\ t \in Requests /\ tx[t].state \in Committed
          /\ Stored(t, e).state = IF Present(t) THEN tx[t].state ELSE "RECEIVED"
      BY <2>2, RowForFacts DEF LockInv, RowInv
    <2>4. tx[t].state \in {"ABSENT", "RECEIVED"}
      BY <2>1, <2>3 DEF canTransition, isTerminal, TERMINAL_STATES, VALID_TRANSITIONS,
                        Present, Committed
    <2> QED
      BY <2>1, <2>2, <2>3, <2>4, SendKeepsTruth
  <1> QED
    BY <1>1, <1>2, <1>3, <1>4

LEMMA EndedFields ==
  ASSUME NEW row \in Row, NEW s, NEW reason, NEW f
  PROVE  /\ Ended(row, s, reason, f).state = s
         /\ Ended(row, s, reason, f).reason = reason
         /\ Ended(row, s, reason, f).original = row.original
  BY DEF Ended, Row

LEMMA BookFacts ==
  ASSUME IInv, NEW t \in Requests, NEW f, BookConfirmed(t, f)
  PROVE  /\ posted'[t] = posted[t] + 1 /\ t \in receipts'
         /\ \A u \in Requests : u # t => posted'[u] = posted[u] /\ (u \in receipts' <=> u \in receipts)
  BY DEF IInv, TypeOK, BookConfirmed

LEMMA TruthProcessEnds ==
  ASSUME IInv, NEW r \in Requests,
         ProcessConfirms(r) \/ ProcessRejects(r) \/ ProcessLeavesPending(r) \/ ProcessFails(r)
  PROVE  TruthInv'
  <1> USE DEF IInv
  <1>1. call[r].pc = "crediting" /\ UNCHANGED <<probes, worker, participant, reruns>>
    BY DEF ProcessConfirms, ProcessRejects, ProcessLeavesPending, ProcessFails, rail
  <1>2. PICK t \in Requests, e \in Envelopes, f \in BOOLEAN :
          t = call[r].on /\ e = call[r].envelope /\ f = call[r].fee
    BY <1>1, HeldRowFacts DEF LockInv, CallInv, Holds
  <1>3. /\ Stored(t, e) \in Row /\ Stored(t, e).original = None
        /\ tx[t].state \in {"ABSENT", "RECEIVED"}
    BY <1>1, <1>2, HeldRowFacts
  <1>4. RowTruth(t) /\ ~WasConfirmed(t)
    BY <1>3 DEF TruthInv, WasConfirmed
  <1>5. posted[t] = 0 /\ t \notin receipts /\ probes[t] \cap {"CREDITED", "NOT_CREDITED"} = {}
    BY <1>3, <1>4 DEF RowTruth
  <1>6. \A s \in STATES, reason \in Reasons :
           LET row == Ended(Stored(t, e), s, reason, f)
           IN row \in Row /\ row.state = s /\ row.reason = reason /\ row.original = None
    BY <1>3, EndedType, EndedFields
  <1>7. CASE ProcessConfirms(r)
    <2>1. PICK row \in Row :
            /\ row.state = "CONFIRMED" /\ row.reason = "SUCCESS" /\ row.original = None
            /\ tx' = [tx EXCEPT ![t] = row]
      <3> DEFINE new == Ended(Stored(t, e), "CONFIRMED", "SUCCESS", f)
      <3>1. new \in Row /\ new.state = "CONFIRMED" /\ new.reason = "SUCCESS" /\ new.original = None
        BY <1>6 DEF STATES, Reasons
      <3>2. tx' = [tx EXCEPT ![t] = new]
        BY <1>2, <1>7 DEF ProcessConfirms
      <3> HIDE DEF new
      <3> QED
        BY <3>1, <3>2
    <2>2. BookConfirmed(t, f) /\ participant[t] = "executed"
      BY <1>2, <1>7 DEF ProcessConfirms
    <2>3. tx'[t] = row
      BY <2>1 DEF TypeOK
    <2>4. posted'[t] = 1 /\ t \in receipts'
      BY <1>5, <2>2, BookFacts
    <2>5. WasConfirmed(t)'
      BY <2>1, <2>3 DEF WasConfirmed, IsPayment, Present
    <2>6. RowTruth(t)'
      BY <1>1, <2>1, <2>2, <2>3, <2>4, <2>5 DEF RowTruth
    <2>7. \A u \in Requests : u # t => posted'[u] = posted[u] /\ (u \in receipts' <=> u \in receipts)
      BY <2>2, BookFacts
    <2> QED
      BY <1>1, <2>1, <2>6, <2>7, RowKeepsTruth
  <1>8. ASSUME NEW s \in {"REJECTED", "PENDING_RECONCILIATION"}, NEW reason \in Reasons,
               tx' = [tx EXCEPT ![t] = Ended(Stored(t, e), s, reason, f)],
               UNCHANGED <<posted, receipts>>,
               \/ /\ reason = "REFUSED" /\ s = "REJECTED"
                  /\ participant[t] = "refused"
               \/ reason = "AMBIGUOUS"
        PROVE  TruthInv'
    <2>1. PICK row \in Row : /\ row.state = s /\ row.reason = reason
                             /\ tx' = [tx EXCEPT ![t] = row]
      <3> DEFINE new == Ended(Stored(t, e), s, reason, f)
      <3>1. new \in Row /\ new.state = s /\ new.reason = reason
        BY <1>6, <1>8 DEF STATES
      <3>2. tx' = [tx EXCEPT ![t] = new]
        BY <1>8
      <3> HIDE DEF new
      <3> QED
        BY <3>1, <3>2
    <2>2. tx'[t] = row
      BY <2>1 DEF TypeOK
    <2>3. ~WasConfirmed(t)'
      BY <2>1, <2>2 DEF WasConfirmed
    <2>4. RowTruth(t)'
      BY <1>1, <1>5, <1>8, <2>1, <2>2, <2>3 DEF RowTruth
    <2> QED
      BY <1>1, <1>8, <2>1, <2>4, RowKeepsTruth
  <1>9. CASE ProcessRejects(r)
    BY <1>2, <1>8, <1>9 DEF ProcessRejects, Reasons
  <1>10. CASE ProcessLeavesPending(r)
    BY <1>2, <1>8, <1>10 DEF ProcessLeavesPending, Reasons
  <1>11. CASE ProcessFails(r)
    <2>1. UNCHANGED <<rail, worker, participant, reruns>>
      BY <1>11 DEF ProcessFails
    <2> QED
      BY <2>1, ParticipantKeepsTruth
  <1> QED
    BY <1>7, <1>9, <1>10, <1>11

LEMMA TruthOperator ==
  ASSUME IInv, NEW t \in Requests,
         operatorKillSwitch(t) \/ runById(t) \/ BackoffElapses(t)
           \/ ParticipantExecutes(t) \/ ParticipantRefuses(t)
  PROVE  TruthInv'
  <1> USE DEF IInv
  <1>0. RowTruth(t) /\ tx[t] \in Row
    BY DEF TruthInv, TypeOK
  <1>1. CASE operatorKillSwitch(t)
    <2>1. /\ IsPayment(t) /\ tx[t].state \notin {"CONFIRMED", "REVERSED"}
          /\ tx' = [tx EXCEPT ![t] = Finalize(tx[t], "REJECTED", "KILLED")]
          /\ UNCHANGED <<probes, posted, receipts, worker, participant, reruns>>
      BY <1>1 DEF operatorKillSwitch, isTerminal, TERMINAL_STATES
    <2>2. PICK row \in Row : /\ row.state = "REJECTED" /\ row.reason = "KILLED"
                             /\ tx' = [tx EXCEPT ![t] = row]
      <3> DEFINE new == Finalize(tx[t], "REJECTED", "KILLED")
      <3>1. new \in Row /\ new.state = "REJECTED" /\ new.reason = "KILLED"
        BY <1>0, FinalizeType, FinalizeFields DEF STATES, Reasons
      <3>2. tx' = [tx EXCEPT ![t] = new]
        BY <2>1
      <3> HIDE DEF new
      <3> QED
        BY <3>1, <3>2
    <2>3. tx'[t] = row
      BY <2>2 DEF TypeOK
    <2>4. ~WasConfirmed(t) /\ ~WasConfirmed(t)'
      BY <2>1, <2>2, <2>3 DEF WasConfirmed
    <2>5. RowTruth(t)'
      BY <1>0, <2>1, <2>2, <2>3, <2>4 DEF RowTruth
    <2> QED
      BY <2>1, <2>2, <2>5, RowKeepsTruth
  <1>2. CASE BackoffElapses(t)
    <2>1. /\ tx[t].state = "PENDING_RECONCILIATION"
          /\ UNCHANGED <<probes, posted, receipts, worker, participant, reruns>>
      BY <1>2 DEF BackoffElapses
    <2>2. PICK row \in Row : /\ row.state = tx[t].state /\ row.reason = tx[t].reason
                             /\ row.original = tx[t].original
                             /\ tx' = [tx EXCEPT ![t] = row]
      BY <1>0, <1>2, DueType DEF BackoffElapses, Row
    <2>3. tx'[t] = row
      BY <2>2 DEF TypeOK
    <2>4. WasConfirmed(t)' <=> WasConfirmed(t)
      BY <2>2, <2>3 DEF WasConfirmed, IsPayment, Present
    <2>5. RowTruth(t)'
      BY <1>0, <2>1, <2>2, <2>3, <2>4 DEF RowTruth
    <2> QED
      BY <2>1, <2>2, <2>5, RowKeepsTruth
  <1>3. CASE runById(t)
    <2>1. Send(t) /\ UNCHANGED <<rail, worker>> /\ reruns' = reruns \cup {t}
      BY <1>3 DEF runById
    <2> QED
      BY <2>1, SendKeepsTruth
  <1>4. CASE ParticipantExecutes(t) \/ ParticipantRefuses(t)
    <2>1. UNCHANGED <<rail, worker, reruns>> /\ participant[t] = "received"
      BY <1>4 DEF ParticipantExecutes, ParticipantRefuses
    <2>2. \A u \in Requests : u # t => participant'[u] = participant[u]
      BY <1>4 DEF ParticipantExecutes, ParticipantRefuses, TypeOK
    <2> QED
      BY <2>1, <2>2, ParticipantKeepsTruth
  <1> QED
    BY <1>1, <1>2, <1>3, <1>4

LEMMA TruthReversal ==
  ASSUME IInv, NEW r \in Requests, Reversal(r)
  PROVE  TruthInv'
  <1> USE DEF IInv
  <1>1. CASE \E o \in Requests : ReversalStarts(r, o)
    <2>1. /\ call[r].pc = "new" /\ Send(r) /\ UNCHANGED <<rail, worker, reruns>>
      BY <1>1 DEF ReversalStarts
    <2>2. tx[r].state = "ABSENT"
      BY <2>1 DEF LockInv, CallInv, Present
    <2> QED
      BY <2>1, <2>2, SendKeepsTruth
  <1>2. CASE ReversalFails(r)
    <2>1. UNCHANGED <<rail, worker, participant, reruns>>
      BY <1>2 DEF ReversalFails
    <2> QED
      BY <2>1, ParticipantKeepsTruth
  <1>3. ASSUME call[r].pc = "reversing"
        PROVE  /\ call[r].on \in Requests /\ tx[r].state = "ABSENT" /\ r # call[r].on
               /\ tx[call[r].on].original = None
               /\ tx[call[r].on].state \in {"CONFIRMED", "REVERSED"}
    BY <1>3 DEF LockInv, CallInv, Present
  <1>4. RowTruth(r)
    BY DEF TruthInv
  <1>5. CASE ReversalRejected(r)
    <2>1. PICK o \in Requests : o = call[r].on
      BY <1>3, <1>5 DEF ReversalRejected
    <2>2. /\ UNCHANGED <<probes, posted, receipts, worker, participant, reruns>>
          /\ tx' = [tx EXCEPT ![r] = ReversalRow(r, o, "REJECTED", "TECH")]
      BY <1>5, <2>1 DEF ReversalRejected
    <2>3. tx[r].state = "ABSENT" /\ ~WasConfirmed(r)
      BY <1>3, <1>5 DEF ReversalRejected, WasConfirmed
    <2>4. PICK row \in Row : /\ row.state = "REJECTED" /\ row.reason = "TECH"
                             /\ tx' = [tx EXCEPT ![r] = row]
      <3> DEFINE new == ReversalRow(r, o, "REJECTED", "TECH")
      <3>1. new \in Row
        BY ReversalRowType DEF Reasons, STATES
      <3>2. new.state = "REJECTED" /\ new.reason = "TECH"
        BY DEF ReversalRow, NoRow
      <3>3. tx' = [tx EXCEPT ![r] = new]
        BY <2>2
      <3> HIDE DEF new
      <3> QED
        BY <3>1, <3>2, <3>3
    <2>5. tx'[r] = row
      BY <2>4 DEF TypeOK
    <2>6. ~WasConfirmed(r)'
      BY <2>4, <2>5 DEF WasConfirmed
    <2>7. RowTruth(r)'
      BY <1>4, <2>2, <2>3, <2>4, <2>5, <2>6 DEF RowTruth
    <2> QED
      BY <2>2, <2>4, <2>7, RowKeepsTruth
  <1>6. CASE ReversalConfirms(r)
    <2>1. PICK o \in Requests : o = call[r].on
      BY <1>3, <1>6 DEF ReversalConfirms
    <2>2. /\ UNCHANGED <<probes, posted, receipts, worker, participant, reruns>>
          /\ participant[r] = "executed"
          /\ tx' = [tx EXCEPT ![r] = ReversalRow(r, o, "CONFIRMED", "SUCCESS"),
                              ![o] = Unwound(tx[o], r)]
      <3>1. /\ UNCHANGED <<probes, posted, receipts, worker, participant, reruns>>
            /\ participant[r] = "executed" /\ call[r].pc = "reversing"
        BY <1>6 DEF ReversalConfirms
      <3>2. r # o
        BY <1>3, <2>1, <3>1
      <3> QED
        BY <1>6, <2>1, <3>1, <3>2 DEF ReversalConfirms, TypeOK
    <2>3. /\ tx[r].state = "ABSENT" /\ r # o /\ tx[o].original = None
          /\ tx[o].state \in {"CONFIRMED", "REVERSED"}
      BY <1>3, <1>6, <2>1 DEF ReversalConfirms
    <2>4. /\ tx'[o].state = "REVERSED" /\ tx'[o].original = None /\ tx'[o].reason = "REVERSED"
      <3>1. tx'[o] = Unwound(tx[o], r) /\ tx[o] \in Row
        BY <2>2, <2>3 DEF TypeOK
      <3> QED
        BY <2>3, <3>1, UnwoundFields
    <2>5. tx'[r].state = "CONFIRMED" /\ tx'[r].original = o /\ tx'[r].reason = "SUCCESS"
      <3>1. tx'[r] = ReversalRow(r, o, "CONFIRMED", "SUCCESS")
        BY <2>2, <2>3 DEF TypeOK
      <3> QED
        BY <3>1 DEF ReversalRow, NoRow
    <2>6. \A u \in Requests \ {r, o} : tx'[u] = tx[u]
      BY <2>2 DEF TypeOK
    <2>7. ASSUME NEW u \in Requests PROVE RowTruth(u)'
      <3>1. RowTruth(u)
        BY DEF TruthInv
      <3>2. CASE u = r
        <4>1. ~WasConfirmed(r) /\ ~WasConfirmed(r)'
          BY <2>3, <2>5, NoneAssumption DEF WasConfirmed, IsPayment
        <4> QED
          BY <2>2, <2>5, <3>1, <3>2, <4>1 DEF RowTruth
      <3>3. CASE u = o
        <4>1. WasConfirmed(o) /\ WasConfirmed(o)'
          BY <2>3, <2>4 DEF WasConfirmed, IsPayment, Present
        <4> QED
          BY <2>2, <2>3, <2>4, <3>1, <3>3, <4>1 DEF RowTruth
      <3>4. CASE u \notin {r, o}
        BY <2>2, <2>6, <3>1, <3>4 DEF RowTruth, WasConfirmed, IsPayment, Present
      <3> QED
        BY <3>2, <3>3, <3>4
    <2>8. ASSUME NEW w \in Workers PROVE ProbeTruth(w)'
      BY <2>2 DEF TruthInv, ProbeTruth
    <2> QED
      BY <2>7, <2>8 DEF TruthInv
  <1> QED
    BY <1>1, <1>2, <1>5, <1>6 DEF Reversal

\* A worker decides, and its row becomes final or stays pending.
LEMMA DecideKeepsTruth ==
  ASSUME IInv, NEW w \in Workers, NEW t \in Requests, t = worker[w].on,
         Deciding(w), UNCHANGED <<participant, reruns>>,
         NEW row \in Row, tx' = [tx EXCEPT ![t] = row],
         \A u \in Requests : u # t => /\ posted'[u] = posted[u]
                                      /\ u \in receipts' <=> u \in receipts
                                      /\ probes'[u] = probes[u],
         RowTruth(t)'
  PROVE  TruthInv'
  <1>1. \A v \in Workers : worker'[v].pc # "idle" =>
          /\ worker[v].pc # "idle"
          /\ worker'[v].on = worker[v].on /\ worker'[v].outcome = worker[v].outcome
    BY DEF IInv, TypeOK, Deciding, PassEnds, Resting
  <1> QED
    BY <1>1, RowKeepsTruth

LEMMA TruthDecide ==
  ASSUME IInv, NEW w \in Workers,
         DecideCredited(w) \/ DecideNotCredited(w) \/ DecideExhausted(w) \/ DecideReschedules(w)
  PROVE  TruthInv'
  <1> USE DEF IInv
  <1>1. /\ Deciding(w) /\ UNCHANGED <<participant, reruns>>
        /\ worker[w].pc = "deciding" /\ tx[worker[w].on].state = "PENDING_RECONCILIATION"
    BY DEF DecideCredited, DecideNotCredited, DecideExhausted, DecideReschedules, Deciding
  <1>2. PICK t \in Requests : t = worker[w].on
    BY <1>1 DEF LockInv, WorkerInv, IsPayment, Present
  <1>3. /\ IsPayment(t) /\ RowTruth(t) /\ tx[t] \in Row /\ tx[t].state = "PENDING_RECONCILIATION"
        /\ ~WasConfirmed(t) /\ ProbeTruth(w)
    BY <1>1, <1>2 DEF LockInv, WorkerInv, TruthInv, TypeOK, WasConfirmed
  <1>4. posted[t] = 0 /\ t \notin receipts /\ probes[t] \cap {"CREDITED", "NOT_CREDITED"} = {}
        /\ tx[t].reason \notin {"REFUSED", "NOT_CREDITED"}
    BY <1>3 DEF RowTruth
  <1>5. \A s \in STATES, reason \in Reasons :
          /\ Finalize(tx[t], s, reason) \in Row
          /\ Finalize(tx[t], s, reason).state = s
          /\ Finalize(tx[t], s, reason).reason = reason
          /\ Finalize(tx[t], s, reason).original = None
    BY <1>3, FinalizeType, FinalizeFields DEF IsPayment
  <1>6. CASE DecideCredited(w)
    <2>1. PICK row \in Row : /\ row.state = "CONFIRMED" /\ row.reason = "SUCCESS" /\ row.original = None
                             /\ tx' = [tx EXCEPT ![t] = row]
      <3> DEFINE new == Finalize(tx[t], "CONFIRMED", "SUCCESS")
      <3>1. new \in Row /\ new.state = "CONFIRMED" /\ new.reason = "SUCCESS" /\ new.original = None
        BY <1>5 DEF STATES, Reasons
      <3>2. tx' = [tx EXCEPT ![t] = new]
        BY <1>2, <1>6 DEF DecideCredited
      <3> HIDE DEF new
      <3> QED
        BY <3>1, <3>2
    <2>2. /\ BookConfirmed(t, FALSE) /\ participant[t] = "executed"
          /\ probes' = [probes EXCEPT ![t] = @ \cup {"CREDITED"}]
      BY <1>1, <1>2, <1>3, <1>6 DEF DecideCredited, ProbeTruth
    <2>3. tx'[t] = row
      BY <2>1 DEF TypeOK
    <2>4. posted'[t] = 1 /\ t \in receipts'
      BY <1>4, <2>2 DEF BookConfirmed, TypeOK
    <2>5. WasConfirmed(t)'
      BY <2>1, <2>3 DEF WasConfirmed, IsPayment, Present
    <2>6. RowTruth(t)'
      BY <1>1, <2>1, <2>2, <2>3, <2>4, <2>5 DEF RowTruth
    <2>7. \A u \in Requests : u # t => /\ posted'[u] = posted[u]
                                       /\ u \in receipts' <=> u \in receipts
                                       /\ probes'[u] = probes[u]
      <3>1. \A u \in Requests : u # t => posted'[u] = posted[u] /\ (u \in receipts' <=> u \in receipts)
        BY <2>2, BookFacts
      <3> QED
        BY <2>2, <3>1 DEF TypeOK
    <2> QED
      BY <1>1, <1>2, <2>1, <2>6, <2>7, DecideKeepsTruth
  <1>7. ASSUME NEW s \in {"REJECTED", "FAILED"}, NEW reason \in Reasons, NEW outcomes,
               tx' = [tx EXCEPT ![t] = Finalize(tx[t], s, reason)],
               probes' = [probes EXCEPT ![t] = outcomes], UNCHANGED <<posted, receipts>>,
               reason # "REFUSED",
               reason = "NOT_CREDITED" =>
                 s = "REJECTED" /\ (t \in reruns \/ participant[t] = "refused")
        PROVE  TruthInv'
    <2>1. PICK row \in Row : /\ row.state = s /\ row.reason = reason
                             /\ tx' = [tx EXCEPT ![t] = row]
      <3> DEFINE new == Finalize(tx[t], s, reason)
      <3>1. new \in Row /\ new.state = s /\ new.reason = reason
        BY <1>5 DEF STATES
      <3>2. tx' = [tx EXCEPT ![t] = new]
        BY <1>7
      <3> HIDE DEF new
      <3> QED
        BY <3>1, <3>2
    <2>2. tx'[t] = row
      BY <2>1 DEF TypeOK
    <2>3. ~WasConfirmed(t)'
      BY <2>1, <2>2 DEF WasConfirmed
    <2>4. RowTruth(t)'
      BY <1>1, <1>4, <1>7, <2>1, <2>2, <2>3 DEF RowTruth
    <2>5. \A u \in Requests : u # t => /\ posted'[u] = posted[u]
                                       /\ u \in receipts' <=> u \in receipts
                                       /\ probes'[u] = probes[u]
      BY <1>7 DEF TypeOK
    <2> QED
      BY <1>1, <1>2, <2>1, <2>4, <2>5, DecideKeepsTruth
  <1>8. CASE DecideNotCredited(w)
    <2>1. worker[w].outcome = "NOT_CREDITED" /\ (t \in reruns \/ participant[t] = "refused")
      BY <1>1, <1>2, <1>3, <1>8 DEF DecideNotCredited, ProbeTruth
    <2>2. /\ tx' = [tx EXCEPT ![t] = Finalize(tx[t], "REJECTED", "NOT_CREDITED")]
          /\ probes' = [probes EXCEPT ![t] = probes[t] \cup {"NOT_CREDITED"}]
          /\ UNCHANGED <<posted, receipts>>
      BY <1>2, <1>8 DEF DecideNotCredited
    <2> QED
      BY <1>7, <2>1, <2>2 DEF Reasons
  <1>9. CASE DecideExhausted(w)
    <2> DEFINE outcomes == probes[t] \cup {worker[w].outcome}
               decision == decideTerminalAtExhaust(outcomes)
    <2>1. outcomes \cap {"CREDITED", "NOT_CREDITED"} = {}
      BY <1>4, <1>9 DEF DecideExhausted, Inconclusive
    <2>2. /\ tx' = [tx EXCEPT ![t] = Finalize(tx[t], decision.state, decision.reason)]
          /\ probes' = [probes EXCEPT ![t] = outcomes]
          /\ UNCHANGED <<posted, receipts>>
      BY <1>2, <1>9 DEF DecideExhausted
    <2> HIDE DEF outcomes
    <2>3. \/ decision = [state |-> "REJECTED", reason |-> "TIMEOUT"]
          \/ decision = [state |-> "FAILED", reason |-> "EXHAUSTED"]
      <3>1. "CREDITED" \notin outcomes /\ "NOT_CREDITED" \notin outcomes
        BY <2>1
      <3> QED
        BY <2>1, <3>1 DEF decideTerminalAtExhaust
    <2>4. /\ decision.state \in {"REJECTED", "FAILED"} /\ decision.reason \in Reasons
          /\ decision.reason \notin {"REFUSED", "NOT_CREDITED"}
      BY <2>3 DEF Reasons
    <2> HIDE DEF decision
    <2> QED
      BY <1>7, <2>2, <2>4
  <1>10. CASE DecideReschedules(w)
    <2>1. PICK row \in Row : /\ row.state = tx[t].state /\ row.reason = tx[t].reason
                             /\ tx' = [tx EXCEPT ![t] = row]
      <3> DEFINE new == [tx[t] EXCEPT !.due = FALSE]
      <3>1. new \in Row /\ new.state = tx[t].state /\ new.reason = tx[t].reason
        BY <1>3, DueType DEF Row
      <3>2. tx' = [tx EXCEPT ![t] = new]
        BY <1>2, <1>10 DEF DecideReschedules
      <3> HIDE DEF new
      <3> QED
        BY <3>1, <3>2
    <2>2. /\ UNCHANGED <<posted, receipts>> /\ Inconclusive(worker[w].outcome)
          /\ probes' = [probes EXCEPT ![t] = probes[t] \cup {worker[w].outcome}]
      BY <1>2, <1>10 DEF DecideReschedules
    <2>3. tx'[t] = row /\ probes'[t] \cap {"CREDITED", "NOT_CREDITED"} = {}
      BY <1>4, <2>1, <2>2 DEF TypeOK, Inconclusive
    <2>4. ~WasConfirmed(t)'
      BY <1>3, <2>1, <2>3 DEF WasConfirmed
    <2>5. RowTruth(t)'
      BY <1>1, <1>3, <1>4, <2>1, <2>2, <2>3, <2>4 DEF RowTruth
    <2>6. \A u \in Requests : u # t => /\ posted'[u] = posted[u]
                                       /\ u \in receipts' <=> u \in receipts
                                       /\ probes'[u] = probes[u]
      BY <2>2 DEF TypeOK
    <2> QED
      BY <1>1, <1>2, <2>1, <2>5, <2>6, DecideKeepsTruth
  <1> QED
    BY <1>6, <1>8, <1>9, <1>10

LEMMA TruthWorker ==
  ASSUME IInv, NEW w \in Workers,
         PickBatch(w) \/ runOnceForId(w) \/ PassFails(w)
  PROVE  TruthInv'
  <1> USE DEF IInv
  <1>1. ASSUME UNCHANGED <<rail, participant, reruns>>,
               \A v \in Workers : v # w => worker'[v] = worker[v],
               ProbeTruth(w)'
        PROVE  TruthInv'
    <2>1. ASSUME NEW u \in Requests PROVE RowTruth(u)'
      BY <1>1 DEF TruthInv, RowTruth, WasConfirmed, IsPayment, Present, rail
    <2>2. ASSUME NEW v \in Workers PROVE ProbeTruth(v)'
      BY <1>1 DEF TruthInv, ProbeTruth
    <2> QED
      BY <2>1, <2>2 DEF TruthInv
  <1>2. CASE \E batch : /\ worker' = [worker EXCEPT ![w] = Resting(batch)]
                        /\ UNCHANGED <<rail, participant, reruns>>
    BY <1>1, <1>2 DEF Resting, ProbeTruth, TypeOK
  <1>3. CASE PickBatch(w) \/ PassFails(w) \/ DecideSkips(w)
               \/ \E t \in Requests : SkipMoved(w, t)
    BY <1>2, <1>3 DEF PickBatch, PassFails, DecideSkips, SkipMoved, PassEnds
  <1>4. CASE \E t \in Requests : probeOnce(w, t)
    <2>1. PICK t \in Requests, outcome \in Outcomes :
            /\ outcome \in StatusOf(participant[t])
            /\ tx[t].state = "PENDING_RECONCILIATION"
            /\ worker' = [worker EXCEPT ![w] = [pc |-> "probed", batch |-> worker[w].batch \ {t},
                                                on |-> t, outcome |-> outcome, attempt |-> 0]]
            /\ UNCHANGED <<rail, participant, reruns>>
      BY <1>4 DEF probeOnce, StatusOf, Outcomes, TypeOK, ParticipantView
    <2>2. participant[t] \in ParticipantView
      BY DEF TypeOK
    <2>3. /\ outcome = "CREDITED" => participant[t] = "executed"
          /\ outcome = "NOT_CREDITED" => participant[t] = "refused"
      BY <2>1, <2>2 DEF StatusOf, ParticipantView
    <2>4. worker'[w].on = t /\ worker'[w].outcome = outcome
      BY <2>1 DEF TypeOK
    <2>5. ProbeTruth(w)'
      BY <2>1, <2>3, <2>4 DEF ProbeTruth
    <2>6. \A v \in Workers : v # w => worker'[v] = worker[v]
      BY <2>1 DEF TypeOK
    <2> QED
      BY <1>1, <2>1, <2>5, <2>6
  <1>5. CASE bumpAttempts(w)
    <2>1. worker[w].pc = "probed" /\ UNCHANGED <<probes, posted, receipts, participant, reruns>>
      BY <1>5 DEF bumpAttempts
    <2>2. PICK t \in Requests : t = worker[w].on
      BY <2>1 DEF LockInv, WorkerInv, IsPayment, Present
    <2>3. RowTruth(t) /\ tx[t] \in Row
      BY DEF TruthInv, TypeOK
    <2>4. PICK row \in Row : /\ row.state = tx[t].state /\ row.reason = tx[t].reason
                             /\ row.original = tx[t].original
                             /\ tx' = [tx EXCEPT ![t] = row]
      <3>1. Bumped(tx[t]) \in Row /\ tx' = [tx EXCEPT ![t] = Bumped(tx[t])]
        BY <1>5, <2>2, <2>3, BumpedType DEF bumpAttempts
      <3>2. /\ Bumped(tx[t]).state = tx[t].state /\ Bumped(tx[t]).reason = tx[t].reason
            /\ Bumped(tx[t]).original = tx[t].original
        BY <2>3 DEF Bumped, Row
      <3> QED
        BY <3>1, <3>2
    <2>5. tx'[t] = row
      BY <2>4 DEF TypeOK
    <2>6. WasConfirmed(t)' <=> WasConfirmed(t)
      BY <2>4, <2>5 DEF WasConfirmed, IsPayment, Present
    <2>7. RowTruth(t)'
      BY <2>1, <2>3, <2>4, <2>5, <2>6 DEF RowTruth
    <2>8. \A v \in Workers : worker'[v].pc # "idle" =>
            /\ worker[v].pc # "idle"
            /\ worker'[v].on = worker[v].on /\ worker'[v].outcome = worker[v].outcome
      BY <1>5, <2>1 DEF bumpAttempts, TypeOK
    <2> QED
      BY <2>1, <2>4, <2>7, <2>8, RowKeepsTruth
  <1> QED
    BY <1>3, <1>4, <1>5, TruthDecide DEF runOnceForId, Decide

-----------------------------------------------------------------------------
(* The inductive invariant, and the theorems.                              *)

LEMMA InitIInv == Init => IInv
  BY TypeInit, LockInit, TruthInit DEF IInv

LEMMA StutterKeepsIInv ==
  ASSUME IInv, UNCHANGED vars
  PROVE  IInv'
  <1> USE DEF vars, rail
  <1>1. TypeOK'
    BY DEF IInv, TypeOK
  <1>2. LockInv'
    BY DEF IInv, LockInv, RowInv, UniqueRow, Exclusive, Crediting, CallInv, Holds, WorkerInv,
           Present, IsPayment
  <1>3. TruthInv'
    BY DEF IInv, TruthInv, RowTruth, ProbeTruth, WasConfirmed, Present, IsPayment
  <1> QED
    BY <1>1, <1>2, <1>3 DEF IInv

\* Every action keeps the types, the locks and the truth of the rows.
LEMMA NextKeepsIInv ==
  ASSUME IInv, [Next]_vars
  PROVE  IInv'
  <1>1. TypeOK /\ LockInv /\ ActorType
    BY LockInvActorType DEF IInv
  <1>2. CASE \E r \in Requests, e \in Envelopes :
               \/ Ingest(r, e)
               \/ ProcessDeduped(r, e) \/ ProcessDeclined(r, e)
               \/ ProcessRefused(r, e) \/ ProcessSendsCreditLeg(r, e)
    BY <1>1, <1>2, TypeProcess, LockProcessStarts, TruthProcessStarts DEF IInv
  <1>3. CASE \E r \in Requests : ProcessConfirms(r) \/ ProcessRejects(r)
                                   \/ ProcessLeavesPending(r) \/ ProcessFails(r)
    BY <1>1, <1>3, TypeProcessEnds, LockProcessEnds, TruthProcessEnds DEF IInv
  <1>4. CASE \E r \in Requests : Reversal(r)
    BY <1>1, <1>4, TypeReversal, LockReversal, TruthReversal DEF IInv
  <1>5. CASE \E t \in Requests : operatorKillSwitch(t) \/ runById(t) \/ BackoffElapses(t)
                                   \/ ParticipantExecutes(t) \/ ParticipantRefuses(t)
    BY <1>1, <1>5, TypeOperator, LockOperator, TruthOperator DEF IInv
  <1>6. CASE \E w \in Workers : PickBatch(w) \/ runOnceForId(w) \/ PassFails(w)
    BY <1>1, <1>6, TypeWorker, LockWorker, TruthWorker DEF IInv
  <1>7. CASE UNCHANGED vars
    BY <1>7, StutterKeepsIInv
  <1> QED
    BY <1>2, <1>3, <1>4, <1>5, <1>6, <1>7 DEF Next, Process

\* IInv is an invariant of every instance.
THEOREM InductiveInvariant == Spec => []IInv
  BY InitIInv, NextKeepsIInv, PTL DEF Spec

\* Every variable keeps its type: no handler writes a state, a reason or a
\* reference the tables do not admit.
THEOREM TypeCorrect == Spec => []TypeOK
  <1>1. IInv => TypeOK
    BY DEF IInv
  <1> QED
    BY <1>1, InductiveInvariant, PTL

\* The orchestrator, the recovery workers and reversals record success only
\* of an instruction the beneficiary has executed.
THEOREM PhantomFree == Spec => []NoPhantomConfirmation
  <1>1. IInv => NoPhantomConfirmation
    BY DEF IInv, TruthInv, RowTruth, NoPhantomConfirmation
  <1> QED
    BY <1>1, InductiveInvariant, PTL

\* Whoever confirms a payment books it exactly once, with both receipts, and
\* nothing else is booked.
THEOREM BookedOnce == Spec => []ConfirmedIsBookedOnce
  <1>1. IInv => ConfirmedIsBookedOnce
    BY DEF IInv, TruthInv, RowTruth, ConfirmedIsBookedOnce
  <1> QED
    BY <1>1, InductiveInvariant, PTL

\* A rejection on the participant's own word is of a payment that was not
\* credited, unless an operator sent the credit leg again.
THEOREM DeclineIsSound == Spec => []DeclinedWasNotCredited
  <1>1. IInv => DeclinedWasNotCredited
    BY DEF IInv, TruthInv, RowTruth, DeclinedWasNotCredited
  <1> QED
    BY <1>1, InductiveInvariant, PTL

\* An envelope has one payment row and one open orchestrator transaction at
\* most, however many calls submit it.
THEOREM OnePerEnvelope == Spec => []OnePaymentPerEnvelope
  <1>1. IInv => OnePaymentPerEnvelope
    <2> SUFFICES ASSUME IInv, NEW e \in Envelopes
                 PROVE  /\ Cardinality(RowsOf(e)) <= 1
                        /\ \A r, s \in Requests : Crediting(r, e) /\ Crediting(s, e) => r = s
      BY DEF OnePaymentPerEnvelope, Crediting
    <2>1. \A r, s \in Requests : Crediting(r, e) /\ Crediting(s, e) => r = s
      BY DEF IInv, LockInv, Exclusive
    <2>2. CASE RowsOf(e) = {}
      BY <2>1, <2>2, FS_EmptySet
    <2>3. CASE RowsOf(e) # {}
      <3>1. PICK t : t \in RowsOf(e)
        BY <2>3
      <3>2. RowsOf(e) = {t}
        BY <3>1 DEF RowsOf, IInv, LockInv, UniqueRow
      <3>3. Cardinality({t}) = 1
        BY FS_Singleton
      <3> QED
        BY <2>1, <3>2, <3>3
    <2> QED
      BY <2>2, <2>3
  <1> QED
    BY <1>1, InductiveInvariant, PTL


-----------------------------------------------------------------------------
(* What a step of the system is to the rows, whoever makes it.             *)

OpenStates == {"ABSENT", "RECEIVED", "PENDING_RECONCILIATION"}

SameBooks(u) ==
  /\ posted'[u] = posted[u]
  /\ probes'[u] = probes[u]
  /\ u \in feeLegs' <=> u \in feeLegs

\* The step touches no row but these, and instructs nobody.
Only(touched) ==
  /\ UNCHANGED participant
  /\ \A u \in Requests \ touched : tx'[u] = tx[u] /\ SameBooks(u)

\* Rows rest; the participant may execute one instruction more.
Rests ==
  /\ UNCHANGED <<tx, posted, probes, feeLegs>>
  /\ \E t \in Requests :
       /\ \A u \in Requests \ {t} : participant'[u] = participant[u]
       /\ participant[t] = "executed" => participant'[t] = "executed"

\* Attempts, due dates and inconclusive probes, and a resubmission that finds
\* its row.
Touches(t) ==
  /\ Only({t})
  /\ Present(t)
  /\ tx'[t].state = tx[t].state /\ tx'[t].envelope = tx[t].envelope
  /\ tx'[t].original = tx[t].original /\ tx'[t].link = tx[t].link
  /\ tx'[t].fee = tx[t].fee
  /\ posted'[t] = posted[t]
  /\ t \in feeLegs' <=> t \in feeLegs
  /\ "CREDITED" \in probes'[t] <=> "CREDITED" \in probes[t]

\* A payment comes to be, is left to recovery, or is decided.
Advances(t) ==
  /\ Only({t})
  /\ tx[t].state \in OpenStates
  /\ IF Present(t) THEN tx[t].original = None /\ tx'[t].envelope = tx[t].envelope
                   ELSE RowsOf(tx'[t].envelope) = {}
  /\ tx'[t].original = None /\ tx'[t].envelope \in Envelopes
  /\ \/ tx'[t].state = "RECEIVED" /\ ~Present(t)
     \/ tx'[t].state = "PENDING_RECONCILIATION" /\ tx[t].state # "PENDING_RECONCILIATION"
     \/ tx'[t].state \in {"REJECTED", "FAILED"}
     \/ tx'[t].state = "CONFIRMED" /\ participant[t] = "executed"
  /\ IF tx'[t].state = "CONFIRMED"
     THEN /\ posted'[t] = posted[t] + 1
          /\ \/ "CREDITED" \in probes'[t] /\ (t \in feeLegs' <=> t \in feeLegs)
             \/ probes'[t] = probes[t] /\ (t \in feeLegs' <=> t \in feeLegs \/ tx'[t].fee)
     ELSE posted'[t] = posted[t] /\ (t \in feeLegs' <=> t \in feeLegs)

\* A reversal that failed is stored beside its original.
Refuses(r) ==
  /\ Only({r})
  /\ ~Present(r) /\ SameBooks(r)
  /\ tx'[r].state = "REJECTED" /\ tx'[r].original \in Requests

\* A reversal that the participant has executed unwinds its original.
Unwinds(r, o) ==
  /\ Only({r, o})
  /\ r # o /\ ~Present(r) /\ SameBooks(r) /\ SameBooks(o)
  /\ participant[r] = "executed"
  /\ tx[o].state = "CONFIRMED" /\ tx[o].original = None
  /\ tx'[r].state = "CONFIRMED" /\ tx'[r].original = o
  /\ tx'[o].state = "REVERSED" /\ tx'[o].original = None /\ tx'[o].link = r
  /\ tx'[o].envelope = tx[o].envelope /\ tx'[o].fee = tx[o].fee

RowStep ==
  \/ Rests
  \/ \E t \in Requests : Touches(t) \/ Advances(t) \/ Refuses(t)
  \/ \E r, o \in Requests : Unwinds(r, o)



LEMMA StoredFacts ==
  ASSUME TypeOK, NEW t \in Requests, NEW e \in Envelopes
  PROVE  Present(t) => Stored(t, e) = tx[t]
  BY DEF Stored

\* The state machine lets the orchestrator start on open rows only.
LEMMA OpenFacts ==
  ASSUME IInv, NEW t \in Requests
  PROVE  /\ tx[t].state \in Committed
         /\ ~isTerminal(tx[t].state) => tx[t].state \in OpenStates
         /\ canTransition(tx[t].state, "REJECTED") => tx[t].state \in OpenStates
         /\ canTransition(tx[t].state, "AUTHORIZED") => tx[t].state \in OpenStates
         /\ canTransition(tx[t].state, "REVERSED") => tx[t].state \in {"CONFIRMED", "ABSENT"}
  <1>1. tx[t].state \in Committed
    BY DEF IInv, LockInv, RowInv
  <1>2. ~isTerminal(tx[t].state) => tx[t].state \in OpenStates
    BY <1>1 DEF Committed, OpenStates, isTerminal, TERMINAL_STATES
  <1>3. \A s \in Committed : canTransition(s, "REJECTED") => s \in OpenStates
    BY DEF Committed, OpenStates, canTransition, isTerminal, TERMINAL_STATES, VALID_TRANSITIONS
  <1>4. \A s \in Committed : canTransition(s, "AUTHORIZED") => s \in OpenStates
    BY DEF Committed, OpenStates, canTransition, VALID_TRANSITIONS
  <1>5. \A s \in Committed : canTransition(s, "REVERSED") => s \in {"CONFIRMED", "ABSENT"}
    BY DEF Committed, canTransition, VALID_TRANSITIONS
  <1> QED
    BY <1>1, <1>2, <1>3, <1>4, <1>5

LEMMA StepIngests ==
  ASSUME IInv, NEW r \in Requests, NEW e \in Envelopes, Ingest(r, e)
  PROVE  RowStep
  <1>1. TypeOK /\ LockInv
    BY DEF IInv
  <1>2. PICK t \in RowFor(e, r) : tx' = [tx EXCEPT ![t] = Stored(t, e)]
    BY DEF Ingest
  <1>3. call[r].pc = "new" /\ UNCHANGED <<probes, posted, feeLegs, participant>>
    BY DEF Ingest
  <1>4. /\ t \in Requests
        /\ Stored(t, e).original = None /\ Stored(t, e).envelope = e
        /\ Stored(t, e).state = IF Present(t) THEN tx[t].state ELSE "RECEIVED"
        /\ \/ t = r /\ ~Present(t) /\ \A u \in Requests : IsPayment(u) => tx[u].envelope # e
           \/ IsPayment(t) /\ tx[t].envelope = e
    BY <1>1, <1>3, RowForFacts
  <1>5. \A u \in Requests : tx'[u] = IF u = t THEN Stored(t, e) ELSE tx[u]
    BY <1>1, <1>2, <1>4 DEF TypeOK
  <1>6. Only({t})
    BY <1>3, <1>5 DEF Only, SameBooks
  <1>7. CASE Present(t)
    <2>1. tx'[t] = tx[t]
      BY <1>1, <1>4, <1>5, <1>7, StoredFacts
    <2> QED
      BY <1>3, <1>4, <1>6, <1>7, <2>1 DEF Touches, RowStep
  <1>8. CASE ~Present(t)
    <2>1. RowsOf(e) = {}
      BY <1>4, <1>8 DEF RowsOf, IsPayment
    <2> QED
      BY <1>3, <1>4, <1>5, <1>6, <1>8, <2>1 DEF Advances, OpenStates, Present, RowStep
  <1> QED
    BY <1>7, <1>8

LEMMA StepSends ==
  ASSUME IInv, NEW t \in Requests, Send(t), UNCHANGED rail
  PROVE  RowStep
  BY DEF Send, IInv, TypeOK, rail, Rests, RowStep

LEMMA StepRests ==
  ASSUME UNCHANGED <<rail, participant>>, NEW t \in Requests
  PROVE  RowStep
  BY DEF rail, Rests, RowStep

\* The row that the orchestrator writes at the end of its transaction.
LEMMA StepWrites ==
  ASSUME IInv, NEW t \in Requests, NEW e \in Envelopes, NEW row \in Row,
         tx' = [tx EXCEPT ![t] = row], UNCHANGED <<probes, participant>>,
         row.original = None, row.envelope = e, tx[t].state \in OpenStates,
         \/ ~Present(t) /\ \A u \in Requests : IsPayment(u) => tx[u].envelope # e
         \/ IsPayment(t) /\ tx[t].envelope = e,
         \/ /\ row.state = "CONFIRMED" /\ participant[t] = "executed"
            /\ BookConfirmed(t, row.fee)
         \/ /\ \/ row.state = "REJECTED"
               \/ row.state = "PENDING_RECONCILIATION" /\ tx[t].state # "PENDING_RECONCILIATION"
            /\ UNCHANGED <<posted, feeLegs>>
  PROVE  RowStep
  <1>1. TypeOK
    BY DEF IInv
  <1>2. \A u \in Requests : tx'[u] = IF u = t THEN row ELSE tx[u]
    BY <1>1 DEF TypeOK
  <1>3. CASE /\ row.state = "CONFIRMED" /\ participant[t] = "executed"
             /\ BookConfirmed(t, row.fee)
    <2>1. /\ \A u \in Requests : posted'[u] = IF u = t THEN posted[u] + 1 ELSE posted[u]
          /\ \A u \in Requests : u \in feeLegs' <=> u \in feeLegs \/ (u = t /\ row.fee)
      BY <1>1, <1>3 DEF BookConfirmed, TypeOK, Row
    <2>2. Only({t})
      BY <1>2, <2>1 DEF Only, SameBooks
    <2>3. ~Present(t) => RowsOf(e) = {}
      BY DEF RowsOf, IsPayment
    <2>4. Advances(t)
      BY <1>2, <1>3, <2>1, <2>2, <2>3 DEF Advances, IsPayment
    <2> QED
      BY <2>4 DEF RowStep
  <1>4. CASE /\ \/ row.state = "REJECTED"
                \/ row.state = "PENDING_RECONCILIATION" /\ tx[t].state # "PENDING_RECONCILIATION"
             /\ UNCHANGED <<posted, feeLegs>>
    <2>2. Only({t})
      BY <1>2, <1>4 DEF Only, SameBooks
    <2>3. ~Present(t) => RowsOf(e) = {}
      BY DEF RowsOf, IsPayment
    <2>4. Advances(t)
      BY <1>2, <1>4, <2>2, <2>3 DEF Advances, IsPayment
    <2> QED
      BY <2>4 DEF RowStep
  <1> QED
    BY <1>3, <1>4

LEMMA StepDeclines ==
  ASSUME IInv, NEW r \in Requests, NEW e \in Envelopes, ProcessDeclined(r, e)
  PROVE  RowStep
  <1>1. TypeOK /\ LockInv
    BY DEF IInv
  <1>2. PICK t \in RowFor(e, r) :
          /\ canTransition(Stored(t, e).state, "REJECTED")
          /\ tx' = [tx EXCEPT ![t] = Finalize(Stored(t, e), "REJECTED", "DECLINED")]
    BY DEF ProcessDeclined
  <1>3. call[r].pc = "new" /\ UNCHANGED <<probes, posted, feeLegs, participant>>
    BY DEF ProcessDeclined
  <1>4. /\ t \in Requests /\ Stored(t, e) \in Row
        /\ Stored(t, e).original = None /\ Stored(t, e).envelope = e
        /\ Stored(t, e).state = IF Present(t) THEN tx[t].state ELSE "RECEIVED"
        /\ \/ t = r /\ ~Present(t) /\ \A u \in Requests : IsPayment(u) => tx[u].envelope # e
           \/ IsPayment(t) /\ tx[t].envelope = e
    BY <1>1, <1>3, RowForFacts
  <1>5. tx[t].state \in OpenStates
    BY <1>2, <1>4, OpenFacts DEF Present, OpenStates
  <1> DEFINE row == Finalize(Stored(t, e), "REJECTED", "DECLINED")
  <1>6. row \in Row /\ row.original = None /\ row.envelope = e /\ row.state = "REJECTED"
    BY <1>4, FinalizeType, FinalizeFields DEF STATES, Reasons
  <1>7. tx' = [tx EXCEPT ![t] = row]
    BY <1>2
  <1> HIDE DEF row
  <1> QED
    BY <1>3, <1>4, <1>5, <1>6, <1>7, StepWrites

LEMMA StepProcessEnds ==
  ASSUME IInv, NEW r \in Requests,
         ProcessConfirms(r) \/ ProcessRejects(r) \/ ProcessLeavesPending(r)
  PROVE  RowStep
  <1>1. TypeOK /\ LockInv
    BY DEF IInv
  <1>2. call[r].pc = "crediting" /\ UNCHANGED <<probes, participant>>
    BY DEF ProcessConfirms, ProcessRejects, ProcessLeavesPending
  <1>3. PICK t \in Requests, e \in Envelopes, f \in BOOLEAN :
          t = call[r].on /\ e = call[r].envelope /\ f = call[r].fee
    BY <1>1, <1>2, HeldRowFacts DEF LockInv, CallInv, Holds
  <1>4. /\ Stored(t, e) \in Row
        /\ Stored(t, e).original = None /\ Stored(t, e).envelope = e
        /\ tx[t].state \in {"ABSENT", "RECEIVED"}
        /\ \/ t = r /\ ~Present(t) /\ \A u \in Requests : IsPayment(u) => tx[u].envelope # e
           \/ IsPayment(t) /\ tx[t].envelope = e
    BY <1>1, <1>2, <1>3, HeldRowFacts
  <1>5. PICK s \in {"CONFIRMED", "REJECTED", "PENDING_RECONCILIATION"}, reason \in Reasons :
          /\ tx' = [tx EXCEPT ![t] = Ended(Stored(t, e), s, reason, f)]
          /\ \/ s = "CONFIRMED" /\ participant[t] = "executed" /\ BookConfirmed(t, f)
             \/ s # "CONFIRMED" /\ UNCHANGED <<posted, feeLegs>>
    BY <1>3 DEF ProcessConfirms, ProcessRejects, ProcessLeavesPending, Reasons
  <1> DEFINE row == Ended(Stored(t, e), s, reason, f)
  <1>6. row \in Row /\ row.original = None /\ row.envelope = e /\ row.state = s /\ row.fee = f
    <2>1. row \in Row
      BY <1>4, EndedType DEF STATES
    <2>2. row.fee = f
      BY <1>4 DEF Ended, Row
    <2> QED
      BY <1>4, <2>1, <2>2, EndedFields DEF Ended, Row
  <1>7. tx' = [tx EXCEPT ![t] = row]
    BY <1>5
  <1> HIDE DEF row
  <1>8. s = "CONFIRMED" => BookConfirmed(t, row.fee)
    BY <1>5, <1>6
  <1>9. tx[t].state \in OpenStates /\ tx[t].state # "PENDING_RECONCILIATION"
    BY <1>4 DEF OpenStates
  <1> QED
    BY <1>2, <1>4, <1>5, <1>6, <1>7, <1>8, <1>9, StepWrites

\* A recovery worker or an operator decides a payment that is there.
LEMMA StepDecides ==
  ASSUME IInv, NEW t \in Requests, NEW s \in {"CONFIRMED", "REJECTED", "FAILED"}, NEW reason \in Reasons,
         IsPayment(t), tx[t].state \in OpenStates,
         tx' = [tx EXCEPT ![t] = Finalize(tx[t], s, reason)], UNCHANGED participant,
         \A u \in Requests \ {t} : probes'[u] = probes[u],
         \/ /\ s = "CONFIRMED" /\ participant[t] = "executed"
            /\ BookConfirmed(t, FALSE) /\ "CREDITED" \in probes'[t]
         \/ s # "CONFIRMED" /\ UNCHANGED <<posted, feeLegs>>
  PROVE  RowStep
  <1>1. TypeOK /\ LockInv
    BY DEF IInv
  <1>2. /\ Finalize(tx[t], s, reason).state = s
        /\ Finalize(tx[t], s, reason).original = None
        /\ Finalize(tx[t], s, reason).envelope = tx[t].envelope
    BY <1>1, FinalizeFields DEF TypeOK, IsPayment
  <1>3. tx[t].envelope \in Envelopes
    BY <1>1 DEF LockInv, RowInv, IsPayment
  <1>4. \A u \in Requests : tx'[u] = IF u = t THEN Finalize(tx[t], s, reason) ELSE tx[u]
    BY <1>1 DEF TypeOK
  <1>5. CASE /\ s = "CONFIRMED" /\ participant[t] = "executed"
             /\ BookConfirmed(t, FALSE) /\ "CREDITED" \in probes'[t]
    <2>1. /\ \A u \in Requests : posted'[u] = IF u = t THEN posted[u] + 1 ELSE posted[u]
          /\ feeLegs' = feeLegs
      BY <1>1, <1>5 DEF BookConfirmed, TypeOK
    <2>2. Only({t})
      BY <1>4, <2>1 DEF Only, SameBooks
    <2>3. Advances(t)
      BY <1>2, <1>3, <1>4, <1>5, <2>1, <2>2 DEF Advances, IsPayment
    <2> QED
      BY <2>3 DEF RowStep
  <1>6. CASE s # "CONFIRMED" /\ UNCHANGED <<posted, feeLegs>>
    <2>2. Only({t})
      BY <1>4, <1>6 DEF Only, SameBooks
    <2>3. Advances(t)
      BY <1>2, <1>3, <1>4, <1>6, <2>2 DEF Advances, IsPayment
    <2> QED
      BY <2>3 DEF RowStep
  <1> QED
    BY <1>5, <1>6

\* A write that leaves the decision to others.
LEMMA StepTouches ==
  ASSUME IInv, NEW t \in Requests, NEW row \in Row, Present(t),
         tx' = [tx EXCEPT ![t] = row], UNCHANGED <<posted, feeLegs, participant>>,
         row.state = tx[t].state, row.envelope = tx[t].envelope, row.original = tx[t].original,
         row.link = tx[t].link, row.fee = tx[t].fee,
         \A u \in Requests \ {t} : probes'[u] = probes[u],
         "CREDITED" \in probes'[t] <=> "CREDITED" \in probes[t]
  PROVE  RowStep
  <1>1. \A u \in Requests : tx'[u] = IF u = t THEN row ELSE tx[u]
    BY DEF IInv, TypeOK
  <1>2. Only({t})
    BY <1>1 DEF Only, SameBooks
  <1> QED
    BY <1>1, <1>2 DEF Touches, RowStep

LEMMA StepOperator ==
  ASSUME IInv, NEW t \in Requests,
         operatorKillSwitch(t) \/ runById(t) \/ BackoffElapses(t)
           \/ ParticipantExecutes(t) \/ ParticipantRefuses(t)
  PROVE  RowStep
  <1>1. tx[t] \in Row /\ tx \in [Requests -> Row]
    BY DEF IInv, TypeOK
  <1>2. CASE operatorKillSwitch(t)
    <2>1. tx[t].state \in OpenStates
      BY <1>2, OpenFacts DEF operatorKillSwitch
    <2>2. /\ tx' = [tx EXCEPT ![t] = Finalize(tx[t], "REJECTED", "KILLED")]
          /\ IsPayment(t) /\ UNCHANGED <<probes, posted, feeLegs, participant>>
      BY <1>2 DEF operatorKillSwitch
    <2> QED
      BY <2>1, <2>2, StepDecides DEF Reasons
  <1>3. CASE runById(t)
    BY <1>3, StepSends DEF runById
  <1>4. CASE BackoffElapses(t)
    <2> DEFINE row == [tx[t] EXCEPT !.due = TRUE]
    <2>1. row \in Row
      BY <1>1, DueType
    <2>2. /\ row.state = tx[t].state /\ row.envelope = tx[t].envelope
          /\ row.original = tx[t].original /\ row.link = tx[t].link /\ row.fee = tx[t].fee
      BY <1>1 DEF Row
    <2>3. /\ tx' = [tx EXCEPT ![t] = row] /\ Present(t)
          /\ UNCHANGED <<probes, posted, feeLegs, participant>>
      BY <1>4 DEF BackoffElapses, Present
    <2> HIDE DEF row
    <2> QED
      BY <2>1, <2>2, <2>3, StepTouches
  <1>5. CASE ParticipantExecutes(t) \/ ParticipantRefuses(t)
    BY <1>5 DEF ParticipantExecutes, ParticipantRefuses, IInv, TypeOK, rail, Rests, RowStep
  <1> QED
    BY <1>2, <1>3, <1>4, <1>5

LEMMA StepWorker ==
  ASSUME IInv, NEW w \in Workers, PickBatch(w) \/ runOnceForId(w) \/ PassFails(w)
  PROVE  RowStep
  <1> USE DEF IInv
  <1>1. CASE bumpAttempts(w)
    <2>1. worker[w].pc = "probed" /\ UNCHANGED <<probes, posted, feeLegs, participant>>
      BY <1>1 DEF bumpAttempts
    <2>2. PICK t \in Requests : t = worker[w].on
      BY <2>1 DEF LockInv, WorkerInv, IsPayment, Present
    <2>3. tx[t] \in Row /\ Present(t)
      BY <2>1, <2>2 DEF TypeOK, LockInv, WorkerInv, IsPayment
    <2> DEFINE row == Bumped(tx[t])
    <2>4. row \in Row /\ tx' = [tx EXCEPT ![t] = row]
      BY <1>1, <2>2, <2>3, BumpedType DEF bumpAttempts
    <2>5. /\ row.state = tx[t].state /\ row.envelope = tx[t].envelope
          /\ row.original = tx[t].original /\ row.link = tx[t].link /\ row.fee = tx[t].fee
      BY <2>3 DEF Row, Bumped
    <2> HIDE DEF row
    <2> QED
      BY <2>1, <2>3, <2>4, <2>5, StepTouches
  <1>2. ASSUME Deciding(w)
        PROVE  /\ worker[w].on \in Requests /\ IsPayment(worker[w].on)
               /\ tx[worker[w].on].state = "PENDING_RECONCILIATION"
               /\ tx[worker[w].on] \in Row /\ ProbeTruth(w) /\ worker[w].pc = "deciding"
               /\ probes[worker[w].on] \cap {"CREDITED", "NOT_CREDITED"} = {}
    BY <1>2 DEF Deciding, LockInv, WorkerInv, TruthInv, RowTruth, TypeOK
  <1>3. CASE DecideCredited(w)
    <2>1. PICK t \in Requests : t = worker[w].on
      BY <1>2, <1>3 DEF DecideCredited
    <2>2. /\ IsPayment(t) /\ tx[t].state \in OpenStates /\ participant[t] = "executed"
      BY <1>2, <1>3, <2>1 DEF DecideCredited, ProbeTruth, OpenStates
    <2>3. /\ tx' = [tx EXCEPT ![t] = Finalize(tx[t], "CONFIRMED", "SUCCESS")]
          /\ BookConfirmed(t, FALSE) /\ UNCHANGED participant
          /\ probes' = [probes EXCEPT ![t] = probes[t] \cup {"CREDITED"}]
      BY <1>3, <2>1 DEF DecideCredited
    <2>4. "CREDITED" \in probes'[t] /\ \A u \in Requests \ {t} : probes'[u] = probes[u]
      BY <2>3 DEF TypeOK
    <2> QED
      BY <2>2, <2>3, <2>4, StepDecides DEF Reasons
  <1>4. CASE DecideNotCredited(w)
    <2>1. PICK t \in Requests : t = worker[w].on
      BY <1>2, <1>4 DEF DecideNotCredited
    <2>2. /\ IsPayment(t) /\ tx[t].state \in OpenStates
      BY <1>2, <1>4, <2>1 DEF DecideNotCredited, OpenStates
    <2>3. /\ tx' = [tx EXCEPT ![t] = Finalize(tx[t], "REJECTED", "NOT_CREDITED")]
          /\ UNCHANGED <<posted, feeLegs, participant>>
          /\ \A u \in Requests \ {t} : probes'[u] = probes[u]
      BY <1>4, <2>1 DEF DecideNotCredited, TypeOK
    <2> QED
      BY <2>2, <2>3, StepDecides DEF Reasons
  <1>5. CASE DecideExhausted(w)
    <2>1. PICK t \in Requests : t = worker[w].on
      BY <1>2, <1>5 DEF DecideExhausted
    <2>2. /\ IsPayment(t) /\ tx[t].state \in OpenStates
          /\ probes[t] \cap {"CREDITED", "NOT_CREDITED"} = {}
      BY <1>2, <1>5, <2>1 DEF DecideExhausted, OpenStates
    <2> DEFINE outcomes == probes[t] \cup {worker[w].outcome}
               decision == decideTerminalAtExhaust(outcomes)
    <2>3. "CREDITED" \notin outcomes /\ "NOT_CREDITED" \notin outcomes
      BY <1>5, <2>2 DEF DecideExhausted, Inconclusive
    <2>4. /\ tx' = [tx EXCEPT ![t] = Finalize(tx[t], decision.state, decision.reason)]
          /\ UNCHANGED <<posted, feeLegs, participant>>
          /\ \A u \in Requests \ {t} : probes'[u] = probes[u]
      BY <1>5, <2>1 DEF DecideExhausted, TypeOK
    <2> HIDE DEF outcomes
    <2>5. \/ decision = [state |-> "REJECTED", reason |-> "TIMEOUT"]
          \/ decision = [state |-> "FAILED", reason |-> "EXHAUSTED"]
      BY <2>3 DEF decideTerminalAtExhaust
    <2>6. decision.state \in {"REJECTED", "FAILED"} /\ decision.reason \in Reasons
      BY <2>5 DEF Reasons
    <2> HIDE DEF decision
    <2> QED
      BY <2>2, <2>4, <2>6, StepDecides
  <1>6. CASE DecideReschedules(w)
    <2>1. PICK t \in Requests : t = worker[w].on
      BY <1>2, <1>6 DEF DecideReschedules
    <2> DEFINE row == [tx[t] EXCEPT !.due = FALSE]
    <2>2. tx[t] \in Row /\ Present(t)
      BY <1>2, <1>6, <2>1 DEF DecideReschedules, IsPayment
    <2>3. row \in Row
      BY <2>2, DueType
    <2>4. /\ row.state = tx[t].state /\ row.envelope = tx[t].envelope
          /\ row.original = tx[t].original /\ row.link = tx[t].link /\ row.fee = tx[t].fee
      BY <2>2 DEF Row
    <2>5. /\ tx' = [tx EXCEPT ![t] = row] /\ UNCHANGED <<posted, feeLegs, participant>>
          /\ probes' = [probes EXCEPT ![t] = probes[t] \cup {worker[w].outcome}]
          /\ worker[w].outcome # "CREDITED"
      BY <1>6, <2>1 DEF DecideReschedules, Inconclusive
    <2> HIDE DEF row
    <2>6. /\ \A u \in Requests \ {t} : probes'[u] = probes[u]
          /\ "CREDITED" \in probes'[t] <=> "CREDITED" \in probes[t]
      BY <2>5 DEF TypeOK
    <2> QED
      BY <2>2, <2>3, <2>4, <2>5, <2>6, StepTouches
  <1>7. CASE \/ PickBatch(w) \/ PassFails(w) \/ DecideSkips(w)
             \/ \E t \in Requests : SkipMoved(w, t) \/ probeOnce(w, t)
    <2>1. UNCHANGED <<rail, participant>>
      BY <1>7 DEF PickBatch, PassFails, DecideSkips, SkipMoved, probeOnce
    <2>2. Requests # {}
      BY <1>7 DEF PickBatch, PassFails, DecideSkips, SkipMoved, probeOnce, Due, LockInv, WorkerInv, TypeOK, Worker
    <2> QED
      BY <2>1, <2>2, StepRests
  <1> QED
    BY <1>1, <1>3, <1>4, <1>5, <1>6, <1>7 DEF runOnceForId, Decide

LEMMA StepReversal ==
  ASSUME IInv, NEW r \in Requests, Reversal(r)
  PROVE  RowStep
  <1> USE DEF IInv
  <1>1. CASE \E o \in Requests : ReversalStarts(r, o)
    BY <1>1, StepSends DEF ReversalStarts
  <1>2. CASE ReversalFails(r)
    BY <1>2, StepRests DEF ReversalFails
  <1>3. ASSUME call[r].pc = "reversing"
        PROVE  /\ call[r].on \in Requests /\ ~Present(r) /\ r # call[r].on
               /\ tx[call[r].on].original = None
               /\ tx[call[r].on].state \in {"CONFIRMED", "REVERSED"}
    BY <1>3 DEF LockInv, CallInv, Present
  <1>4. CASE ReversalRejected(r)
    <2>1. PICK o \in Requests : o = call[r].on
      BY <1>3, <1>4 DEF ReversalRejected
    <2>2. /\ UNCHANGED <<probes, posted, feeLegs, participant>> /\ ~Present(r)
          /\ tx' = [tx EXCEPT ![r] = ReversalRow(r, o, "REJECTED", "TECH")]
      BY <1>3, <1>4, <2>1 DEF ReversalRejected
    <2>3. \A u \in Requests : tx'[u] = IF u = r THEN ReversalRow(r, o, "REJECTED", "TECH") ELSE tx[u]
      BY <2>2 DEF TypeOK
    <2>4. Only({r}) /\ SameBooks(r)
      BY <2>2, <2>3 DEF Only, SameBooks
    <2>5. tx'[r].state = "REJECTED" /\ tx'[r].original = o
      BY <2>3 DEF ReversalRow, NoRow
    <2> QED
      BY <2>2, <2>4, <2>5 DEF Refuses, RowStep
  <1>5. CASE ReversalConfirms(r)
    <2>1. PICK o \in Requests : o = call[r].on
      BY <1>3, <1>5 DEF ReversalConfirms
    <2>2. /\ UNCHANGED <<probes, posted, feeLegs, participant>> /\ participant[r] = "executed"
          /\ tx' = [tx EXCEPT ![r] = ReversalRow(r, o, "CONFIRMED", "SUCCESS"), ![o] = Unwound(@, r)]
          /\ canTransition(tx[o].state, "REVERSED")
      BY <1>5, <2>1 DEF ReversalConfirms
    <2>3. /\ ~Present(r) /\ r # o /\ tx[o].original = None /\ tx[o].state = "CONFIRMED"
      BY <1>3, <1>5, <2>1, <2>2, OpenFacts DEF ReversalConfirms
    <2>4. /\ tx[o] \in Row
          /\ \A u \in Requests : tx'[u] = IF u = o THEN Unwound(tx[o], r)
                                   ELSE IF u = r THEN ReversalRow(r, o, "CONFIRMED", "SUCCESS") ELSE tx[u]
      BY <2>2, <2>3 DEF TypeOK
    <2>5. Only({r, o}) /\ SameBooks(r) /\ SameBooks(o)
      BY <2>2, <2>4 DEF Only, SameBooks
    <2>6. tx'[r].state = "CONFIRMED" /\ tx'[r].original = o
      BY <2>3, <2>4 DEF ReversalRow, NoRow
    <2>7. /\ tx'[o].state = "REVERSED" /\ tx'[o].original = None /\ tx'[o].link = r
          /\ tx'[o].envelope = tx[o].envelope /\ tx'[o].fee = tx[o].fee
      <3>1. Unwound(tx[o], r).fee = tx[o].fee
        BY <2>4 DEF Unwound, Row
      <3> QED
        BY <2>3, <2>4, <3>1, UnwoundFields
    <2> QED
      BY <2>2, <2>3, <2>5, <2>6, <2>7 DEF Unwinds, RowStep
  <1> QED
    BY <1>1, <1>2, <1>4, <1>5 DEF Reversal

\* Every step of every actor is one of the row steps.
LEMMA NextIsRowStep ==
  ASSUME IInv, Next
  PROVE  RowStep
  <1>1. ASSUME NEW r \in Requests, NEW e \in Envelopes,
               ProcessDeduped(r, e) \/ ProcessRefused(r, e) \/ ProcessFails(r)
        PROVE  RowStep
    BY <1>1, StepRests DEF ProcessDeduped, ProcessRefused, ProcessFails
  <1>2. ASSUME NEW r \in Requests, ProcessFails(r)
        PROVE  RowStep
    BY <1>2, StepRests DEF ProcessFails
  <1>3. ASSUME NEW r \in Requests, NEW e \in Envelopes, ProcessSendsCreditLeg(r, e)
        PROVE  RowStep
    <2>1. PICK t \in RowFor(e, r) : Send(t)
      BY <1>3 DEF ProcessSendsCreditLeg
    <2>2. t \in Requests
      BY <2>1, RowForType
    <2> QED
      BY <1>3, <2>1, <2>2, StepSends DEF ProcessSendsCreditLeg
  <1>4. ASSUME NEW r \in Requests, Process(r)
        PROVE  RowStep
    BY <1>1, <1>2, <1>3, <1>4, StepDeclines, StepProcessEnds DEF Process
  <1> QED
    BY <1>4, StepIngests, StepReversal, StepOperator, StepWorker DEF Next

LEMMA VarsStepIsRowStep ==
  ASSUME IInv, [Next]_vars
  PROVE  RowStep \/ UNCHANGED <<rail, participant>>
  BY NextIsRowStep DEF vars

-----------------------------------------------------------------------------
(* Theorems about steps and books.                                         *)

\* A final state stays, but for the reversal of a confirmed payment: the kill
\* switch, resubmissions, late workers and failed reversals respect it.
THEOREM FinalStays == Spec => TerminalIsFinal
  <1> DEFINE Final(t) ==
        isTerminal(tx[t].state) =>
          \/ tx'[t].state = tx[t].state
          \/ tx[t].state = "CONFIRMED" /\ tx'[t].state = "REVERSED" /\ tx'[t].link # None
  <1>1. ASSUME IInv, [Next]_vars, NEW t \in Requests
        PROVE  Final(t)
    <2>1. CASE UNCHANGED <<rail, participant>>
      BY <2>1 DEF rail
    <2>2. CASE Rests
      BY <2>2 DEF Rests
    <2>3. ASSUME NEW u \in Requests, Touches(u) \/ Advances(u) \/ Refuses(u)
          PROVE  Final(t)
      <3>1. CASE u = t
        BY <2>3, <3>1 DEF Touches, Advances, Refuses, OpenStates, Present, isTerminal, TERMINAL_STATES
      <3>2. CASE u # t
        BY <2>3, <3>2 DEF Touches, Advances, Refuses, Only
      <3> QED
        BY <3>1, <3>2
    <2>4. ASSUME NEW r \in Requests, NEW o \in Requests, Unwinds(r, o)
          PROVE  Final(t)
      <3>1. CASE t = o
        BY <2>4, <3>1, NoneAssumption DEF Unwinds
      <3>2. CASE t = r
        BY <2>4, <3>2 DEF Unwinds, Present, isTerminal, TERMINAL_STATES
      <3>3. CASE t \notin {r, o}
        BY <2>4, <3>3 DEF Unwinds, Only
      <3> QED
        BY <3>1, <3>2, <3>3
    <2> QED
      BY <1>1, <2>1, <2>2, <2>3, <2>4, VarsStepIsRowStep DEF RowStep
  <1>2. IInv /\ [Next]_vars => [\A t \in Requests : Final(t)]_vars
    BY <1>1
  <1> QED
    BY <1>2, InductiveInvariant, PTL DEF Spec, TerminalIsFinal

FeeFollows(t) ==
  t \in feeLegs <=> WasConfirmed(t) /\ tx[t].fee /\ "CREDITED" \notin probes[t]

ConfirmedReversals(o) == {r \in Requests : tx[r].original = o /\ tx[r].state = "CONFIRMED"}

ReversalFollows(o) ==
  ConfirmedReversals(o) = IF tx[o].state = "REVERSED" THEN {tx[o].link} ELSE {}

LEMMA BookingsFollowEach ==
  ASSUME TypeOK
  PROVE  BookingsFollowPayments <=> \A t \in Requests : FeeFollows(t) /\ ReversalFollows(t)
  BY DEF TypeOK, BookingsFollowPayments, FeeIsPostedUnlessRecovered, OneReversalPerPayment,
         FeeFollows, ReversalFollows, ConfirmedReversals

\* A step that changes no row, seen by these properties, changes nothing.
LEMMA RestKeepsBookings ==
  ASSUME UNCHANGED <<tx, probes, feeLegs>>, NEW t \in Requests, FeeFollows(t), ReversalFollows(t)
  PROVE  FeeFollows(t)' /\ ReversalFollows(t)'
  BY DEF FeeFollows, ReversalFollows, ConfirmedReversals, WasConfirmed, IsPayment, Present

LEMMA StepKeepsFee ==
  ASSUME IInv, RowStep, NEW t \in Requests, FeeFollows(t)
  PROVE  FeeFollows(t)'
  <1>1. RowTruth(t)
    BY DEF IInv, TruthInv
  <1>2. CASE Rests
    BY <1>2 DEF Rests, FeeFollows, WasConfirmed, IsPayment, Present
  <1>3. ASSUME tx'[t] = tx[t] /\ SameBooks(t)
        PROVE  FeeFollows(t)'
    BY <1>3 DEF FeeFollows, SameBooks, WasConfirmed, IsPayment, Present
  <1>4. CASE Touches(t)
    BY <1>4 DEF Touches, FeeFollows, WasConfirmed, IsPayment, Present
  <1>5. CASE Advances(t)
    <2>1. ~WasConfirmed(t) /\ t \notin feeLegs /\ "CREDITED" \notin probes[t]
      BY <1>1, <1>5 DEF Advances, OpenStates, WasConfirmed, FeeFollows, RowTruth
    <2>2. CASE tx'[t].state = "CONFIRMED"
      BY <1>5, <2>1, <2>2 DEF Advances, FeeFollows, WasConfirmed, IsPayment, Present
    <2>3. CASE tx'[t].state # "CONFIRMED"
      BY <1>5, <2>1, <2>3 DEF Advances, FeeFollows, WasConfirmed
    <2> QED
      BY <2>2, <2>3
  <1>6. CASE Refuses(t)
    BY <1>6 DEF Refuses, SameBooks, FeeFollows, WasConfirmed, IsPayment, Present
  <1>7. ASSUME NEW r \in Requests, NEW o \in Requests, Unwinds(r, o)
        PROVE  FeeFollows(t)'
    <2>1. CASE t = o
      BY <1>7, <2>1 DEF Unwinds, SameBooks, FeeFollows, WasConfirmed, IsPayment, Present
    <2>2. CASE t = r
      BY <1>7, <2>2, NoneAssumption DEF Unwinds, SameBooks, FeeFollows, WasConfirmed, IsPayment, Present
    <2>3. CASE t \notin {r, o}
      BY <1>3, <1>7, <2>3 DEF Unwinds, Only
    <2> QED
      BY <2>1, <2>2, <2>3
  <1>8. ASSUME NEW u \in Requests \ {t}, Touches(u) \/ Advances(u) \/ Refuses(u)
        PROVE  FeeFollows(t)'
    BY <1>3, <1>8 DEF Touches, Advances, Refuses, Only
  <1> QED
    BY <1>2, <1>4, <1>5, <1>6, <1>7, <1>8 DEF RowStep

LEMMA StepKeepsReversal ==
  ASSUME IInv, RowStep, \A u \in Requests : ReversalFollows(u), NEW t \in Requests
  PROVE  ReversalFollows(t)'
  <1> USE DEF ReversalFollows, ConfirmedReversals
  <1>1. CASE Rests
    BY <1>1 DEF Rests
  \* A row that is confirmed as a reversal, or no more, is what matters.
  <1>2. ASSUME NEW u \in Requests, Only({u}),
               tx'[u].original \notin Requests \/ tx'[u].state # "CONFIRMED",
               tx[u].original \notin Requests \/ tx[u].state # "CONFIRMED",
               tx'[u].state = "REVERSED" <=> tx[u].state = "REVERSED",
               tx[u].state = "REVERSED" => tx'[u].link = tx[u].link
        PROVE  ReversalFollows(t)'
    <2>1. ConfirmedReversals(t)' = ConfirmedReversals(t)
      BY <1>2 DEF Only
    <2>2. /\ tx'[t].state = "REVERSED" <=> tx[t].state = "REVERSED"
          /\ tx[t].state = "REVERSED" => tx'[t].link = tx[t].link
      BY <1>2 DEF Only
    <2> QED
      BY <2>1, <2>2
  <1>3. ASSUME NEW u \in Requests, Touches(u)
        PROVE  ReversalFollows(t)'
    <2>1. \A v \in Requests : tx'[v].original = tx[v].original /\ tx'[v].state = tx[v].state
                               /\ tx'[v].link = tx[v].link
      BY <1>3 DEF Touches, Only
    <2> QED
      BY <2>1
  <1>4. ASSUME NEW u \in Requests, Advances(u) \/ Refuses(u)
        PROVE  ReversalFollows(t)'
    BY <1>2, <1>4, NoneAssumption DEF Advances, Refuses, OpenStates, Present
  <1>5. ASSUME NEW r \in Requests, NEW o \in Requests, Unwinds(r, o)
        PROVE  ReversalFollows(t)'
    <2>1. \A u \in Requests \ {r, o} : tx'[u] = tx[u]
      BY <1>5 DEF Unwinds, Only
    <2>2. \A u \in Requests \ {r} :
            (tx'[u].original = t /\ tx'[u].state = "CONFIRMED")
              <=> (tx[u].original = t /\ tx[u].state = "CONFIRMED")
      BY <1>5, <2>1, NoneAssumption DEF Unwinds
    <2>3. tx'[r].original = o /\ tx'[r].state = "CONFIRMED" /\ tx[r].state = "ABSENT"
      BY <1>5 DEF Unwinds, Present
    <2>4. CASE t = o
      BY <1>5, <2>2, <2>3, <2>4 DEF Unwinds
    <2>5. CASE t # o
      <3>1. ConfirmedReversals(t)' = ConfirmedReversals(t)
        BY <2>2, <2>3, <2>5
      <3>2. /\ tx'[t].state = "REVERSED" <=> tx[t].state = "REVERSED"
            /\ tx[t].state = "REVERSED" => tx'[t].link = tx[t].link
        BY <2>1, <2>3, <2>5
      <3> QED
        BY <3>1, <3>2
    <2> QED
      BY <2>4, <2>5
  <1> QED
    BY <1>1, <1>3, <1>4, <1>5 DEF RowStep

\* The fee leg and the confirmed reversal follow the payment: a leg for every
\* fee the orchestrator has posted and for no other, one confirmed reversal
\* for every reversed payment and none for any other.
THEOREM BookingsFollow == Spec => []BookingsFollowPayments
  <1>1. Init => BookingsFollowPayments
    <2> SUFFICES ASSUME Init, NEW t \in Requests
                 PROVE  FeeFollows(t) /\ ReversalFollows(t)
      BY TypeInit, BookingsFollowEach
    <2>1. \A u \in Requests : tx[u].state = "ABSENT"
      BY DEF Init, NoRow
    <2> QED
      BY <2>1 DEF Init, FeeFollows, ReversalFollows, ConfirmedReversals, WasConfirmed
  <1>2. IInv /\ IInv' /\ BookingsFollowPayments /\ [Next]_vars => BookingsFollowPayments'
    <2> SUFFICES ASSUME IInv, IInv', BookingsFollowPayments, [Next]_vars
                 PROVE  BookingsFollowPayments'
      OBVIOUS
    <2>1. \A t \in Requests : FeeFollows(t) /\ ReversalFollows(t)
      BY BookingsFollowEach DEF IInv
    <2>2. \A t \in Requests : FeeFollows(t)' /\ ReversalFollows(t)'
      <3>1. CASE RowStep
        BY <2>1, <3>1, StepKeepsFee, StepKeepsReversal
      <3>2. CASE UNCHANGED <<rail, participant>>
        BY <2>1, <3>2, RestKeepsBookings DEF rail
      <3> QED
        BY <3>1, <3>2, VarsStepIsRowStep
    <2>3. TypeOK'
      BY DEF IInv
    <2>4. (\A t \in Requests : FeeFollows(t) /\ ReversalFollows(t))' => BookingsFollowPayments'
      BY <2>3, BookingsFollowEach, PTL
    <2> QED
      BY <2>2, <2>4
  <1> QED
    BY <1>1, <1>2, InductiveInvariant, PTL DEF Spec

-----------------------------------------------------------------------------
(* The detailed specification implements InstantPayment and PaymentPort.   *)

PhaseView == [t \in Requests |-> PhaseOf(tx[t].state)]
ExecutedView == {t \in Requests : participant[t] = "executed"}

LEMMA PhaseFacts ==
  /\ PhaseOf("ABSENT") = "absent"
  /\ PhaseOf("RECEIVED") = "open" /\ PhaseOf("PENDING_RECONCILIATION") = "open"
  /\ PhaseOf("CONFIRMED") = "settled" /\ PhaseOf("REVERSED") = "unwound"
  /\ PhaseOf("REJECTED") = "declined" /\ PhaseOf("FAILED") = "declined"
  BY DEF PhaseOf

LEMMA PromiseExecutes ==
  ASSUME Rests
  PROVE  Promise!Next \/ UNCHANGED <<PhaseView, ExecutedView, posted>>
  <1> USE DEF PhaseView, ExecutedView
  <1>1. PICK t \in Requests :
          /\ \A u \in Requests \ {t} : participant'[u] = participant[u]
          /\ participant[t] = "executed" => participant'[t] = "executed"
    BY DEF Rests
  <1>2. UNCHANGED <<PhaseView, posted>>
    BY DEF Rests
  <1>3. CASE participant'[t] = "executed"
    <2>1. ExecutedView' = ExecutedView \cup {t}
      BY <1>1, <1>3
    <2> QED
      BY <1>2, <2>1 DEF Promise!Next, Promise!Execute
  <1>4. CASE participant'[t] # "executed"
    <2>1. ExecutedView' = ExecutedView
      BY <1>1, <1>4
    <2> QED
      BY <1>2, <2>1
  <1> QED
    BY <1>3, <1>4

\* One row changes its state, and the promise's phase with it.
LEMMA PromiseMoves ==
  ASSUME IInv, TypeOK', NEW t \in Requests, Touches(t) \/ Advances(t) \/ Refuses(t)
  PROVE  Promise!Next \/ UNCHANGED <<PhaseView, ExecutedView, posted>>
  <1>1. Only({t})
    BY DEF Touches, Advances, Refuses
  <1>2. ExecutedView' = ExecutedView
    BY <1>1 DEF Only, ExecutedView
  <1>3. ASSUME posted'[t] = posted[t]
        PROVE  posted' = posted
    BY <1>1, <1>3 DEF Only, SameBooks, IInv, TypeOK
  <1>4. PhaseView' = [PhaseView EXCEPT ![t] = PhaseOf(tx'[t].state)]
    BY <1>1 DEF Only, PhaseView
  <1>5. PhaseView[t] = PhaseOf(tx[t].state)
    BY DEF PhaseView
  <1>6. CASE Touches(t)
    <2>1. PhaseView' = PhaseView
      BY <1>4, <1>6 DEF Touches, PhaseView
    <2> QED
      BY <1>2, <1>3, <1>6, <2>1 DEF Touches
  <1>7. CASE Refuses(t)
    <2>1. /\ PhaseView[t] = "absent" /\ PhaseView' = [PhaseView EXCEPT ![t] = "declined"]
          /\ posted' = posted
      BY <1>3, <1>4, <1>5, <1>7, PhaseFacts DEF Refuses, Present, SameBooks
    <2>2. Promise!Decline(t)
      BY <1>2, <2>1 DEF Promise!Decline, Promise!Undecided, PhaseView, ExecutedView
    <2> QED
      BY <2>2 DEF Promise!Next
  <1>8. CASE Advances(t)
    <2>1. PhaseView[t] \in {"absent", "open"}
      BY <1>5, <1>8, PhaseFacts DEF Advances, OpenStates
    <2>2. CASE tx'[t].state = "CONFIRMED"
      <3>1. PhaseView' = [PhaseView EXCEPT ![t] = "settled"] /\ t \in ExecutedView
        BY <1>4, <1>8, <2>2, PhaseFacts DEF Advances, ExecutedView
      <3>2. posted' = [posted EXCEPT ![t] = posted[t] + 1]
        BY <1>1, <1>8, <2>2 DEF Advances, Only, SameBooks, IInv, TypeOK
      <3>3. Promise!Settle(t)
        BY <1>2, <2>1, <3>1, <3>2 DEF Promise!Settle, Promise!Undecided, PhaseView, ExecutedView
      <3> QED
        BY <3>3 DEF Promise!Next
    <2>3. CASE tx'[t].state \in {"REJECTED", "FAILED"}
      <3>1. PhaseView' = [PhaseView EXCEPT ![t] = "declined"] /\ posted' = posted
        BY <1>3, <1>4, <1>8, <2>3, PhaseFacts DEF Advances
      <3>2. Promise!Decline(t)
        BY <1>2, <2>1, <3>1 DEF Promise!Decline, Promise!Undecided, PhaseView, ExecutedView
      <3> QED
        BY <3>2 DEF Promise!Next
    <2>4. CASE tx'[t].state \in {"RECEIVED", "PENDING_RECONCILIATION"}
      <3>1. PhaseView' = [PhaseView EXCEPT ![t] = "open"] /\ posted' = posted
        BY <1>3, <1>4, <1>8, <2>4, PhaseFacts DEF Advances
      <3>2. CASE PhaseView[t] = "absent"
        <4>1. Promise!Open(t)
          BY <1>2, <3>1, <3>2 DEF Promise!Open, PhaseView, ExecutedView
        <4> QED
          BY <4>1 DEF Promise!Next
      <3>3. CASE PhaseView[t] = "open"
        BY <1>2, <3>1, <3>3 DEF PhaseView
      <3> QED
        BY <2>1, <3>2, <3>3
    <2> QED
      BY <1>8, <2>2, <2>3, <2>4 DEF Advances
  <1> QED
    BY <1>6, <1>7, <1>8

LEMMA PromiseUnwinds ==
  ASSUME IInv, TypeOK', NEW r \in Requests, NEW o \in Requests, Unwinds(r, o)
  PROVE  Promise!Next
  <1>1. ExecutedView' = ExecutedView /\ r \in ExecutedView
    BY DEF Unwinds, Only, ExecutedView
  <1>2. posted' = posted
    BY DEF Unwinds, Only, SameBooks, IInv, TypeOK
  <1>3. PhaseView[o] = "settled" /\ PhaseView[r] = "absent"
    BY PhaseFacts DEF Unwinds, Present, PhaseView
  <1>4. PhaseView' = [PhaseView EXCEPT ![o] = "unwound", ![r] = "settled"]
    BY PhaseFacts DEF Unwinds, Only, PhaseView
  <1>5. Promise!Unwind(o, r)
    BY <1>1, <1>2, <1>3, <1>4 DEF Promise!Unwind, PhaseView, ExecutedView
  <1> QED
    BY <1>5 DEF Promise!Next

\* Every behaviour of the payment system is one of InstantPayment: settled
\* after execution and booked in the same step, final but for one reversal.
THEOREM KeepsThePromise == Spec => Promise!Spec
  <1>1. Init => Promise!Init
    BY PhaseFacts DEF Init, NoRow, Promise!Init
  <1>2. IInv /\ TypeOK' /\ [Next]_vars => [Promise!Next]_(Promise!vars)
    <2> SUFFICES ASSUME IInv, TypeOK', [Next]_vars
                 PROVE  Promise!Next \/ UNCHANGED <<PhaseView, ExecutedView, posted>>
      BY DEF Promise!vars, PhaseView, ExecutedView
    <2>1. CASE RowStep
      BY <2>1, PromiseExecutes, PromiseMoves, PromiseUnwinds DEF RowStep
    <2>2. CASE UNCHANGED <<rail, participant>>
      BY <2>2 DEF rail, PhaseView, ExecutedView
    <2> QED
      BY <2>1, <2>2, VarsStepIsRowStep
  <1> QED
    BY <1>1, <1>2, InductiveInvariant, TypeCorrect, PTL DEF Spec, Promise!Spec

-----------------------------------------------------------------------------

Seen(e) == IF RowsOf(e) = {} THEN "NONE" ELSE AsSeen(tx[CHOOSE t \in RowsOf(e) : TRUE].state)

PortView == [e \in Envelopes |-> Seen(e)]

LEMMA SeenFacts ==
  /\ AsSeen("RECEIVED") = "NONE" /\ AsSeen("PENDING_RECONCILIATION") = "PENDING_RECONCILIATION"
  /\ AsSeen("CONFIRMED") = "CONFIRMED" /\ AsSeen("REVERSED") = "CONFIRMED"
  /\ AsSeen("REJECTED") = "REJECTED" /\ AsSeen("FAILED") = "REJECTED"
  BY DEF AsSeen

\* An envelope is seen as its one payment row is.
LEMMA SeenIs ==
  ASSUME LockInv, NEW t \in Requests, IsPayment(t)
  PROVE  Seen(tx[t].envelope) = AsSeen(tx[t].state)
  <1>1. RowsOf(tx[t].envelope) = {t}
    BY DEF RowsOf, LockInv, UniqueRow
  <1> QED
    BY <1>1 DEF Seen

\* Rows of other envelopes are seen as before.
LEMMA OthersSeen ==
  ASSUME LockInv, NEW e \in Envelopes,
         \A t \in Requests : IsPayment(t)' /\ tx'[t].envelope = e
                               <=> IsPayment(t) /\ tx[t].envelope = e,
         \A t \in Requests : IsPayment(t) /\ tx[t].envelope = e => AsSeen(tx'[t].state) = AsSeen(tx[t].state)
  PROVE  Seen(e)' = Seen(e)
  <1>1. RowsOf(e)' = RowsOf(e)
    BY DEF RowsOf
  <1>2. ASSUME RowsOf(e) # {}
        PROVE  AsSeen(tx'[CHOOSE t \in RowsOf(e) : TRUE].state)
                 = AsSeen(tx[CHOOSE t \in RowsOf(e) : TRUE].state)
    <2>1. (CHOOSE t \in RowsOf(e) : TRUE) \in RowsOf(e)
      BY <1>2
    <2> QED
      BY <2>1 DEF RowsOf
  <1> QED
    BY <1>1, <1>2 DEF Seen

\* One payment row is written: its envelope's view moves, the others stay.
LEMMA PortMoves ==
  ASSUME IInv, LockInv', NEW t \in Requests, Advances(t)
  PROVE  Port!PortNext \/ UNCHANGED PortView
  <1>0. LockInv
    BY DEF IInv
  <1> PICK e \in Envelopes : e = tx'[t].envelope
    BY DEF Advances, IsPayment, Present
  <1>1. IsPayment(t)'
    BY DEF Advances, IsPayment, Present
  <1>2. ASSUME NEW d \in Envelopes \ {e}
        PROVE  Seen(d)' = Seen(d)
    <2>1. \A u \in Requests \ {t} : tx'[u] = tx[u]
      BY DEF Advances, Only
    <2>2. IsPayment(t) => tx[t].envelope = e
      BY DEF Advances, IsPayment
    <2> QED
      BY <1>0, <1>1, <1>2, <2>1, <2>2, OthersSeen DEF IsPayment, Present
  <1>3. PortView' = [PortView EXCEPT ![e] = Seen(e)'] /\ PortView[e] = Seen(e)
    BY <1>1, <1>2 DEF PortView
  <1>4. Seen(e)' = AsSeen(tx'[t].state)
    <2>1. RowsOf(e)' = {t}
      BY <1>1 DEF RowsOf, LockInv, UniqueRow
    <2> QED
      BY <2>1 DEF Seen
  <1>5. Seen(e) = IF Present(t) THEN AsSeen(tx[t].state) ELSE "NONE"
    <2>1. CASE Present(t)
      BY <1>0, <2>1, SeenIs DEF Advances, IsPayment
    <2>2. CASE ~Present(t)
      BY <2>2 DEF Advances, Seen
    <2> QED
      BY <2>1, <2>2
  <1>6. CASE tx[t].state \in {"ABSENT", "RECEIVED"}
    <2>1. Seen(e) = "NONE"
      BY <1>5, <1>6, SeenFacts DEF Present
    <2>2. CASE tx'[t].state = "RECEIVED"
      BY <1>3, <1>4, <2>1, <2>2, SeenFacts DEF PortView
    <2>3. CASE tx'[t].state # "RECEIVED"
      <3>1. Seen(e)' \in Port!TxStates \ {"NONE"}
        BY <1>4, <2>3, SeenFacts DEF Advances, Port!TxStates
      <3>2. Port!process(e, Seen(e)')
        BY <1>1, <1>3, <2>1, <3>1 DEF Port!process, PortView, Seen
      <3>3. Seen(e)' \in Port!Answers
        BY <3>1 DEF Port!Answers
      <3> QED
        BY <1>1, <3>2, <3>3 DEF Port!PortNext
    <2> QED
      BY <2>2, <2>3
  <1>7. CASE tx[t].state = "PENDING_RECONCILIATION"
    <2>1. Seen(e) = "PENDING_RECONCILIATION"
      BY <1>5, <1>7, SeenFacts DEF Present
    <2>2. Seen(e)' \in {"CONFIRMED", "REJECTED"}
      BY <1>4, <1>7, SeenFacts DEF Advances, Present
    <2>3. Port!Recovers(e)
      BY <1>1, <1>3, <2>1, <2>2 DEF Port!Recovers, PortView, Seen
    <2> QED
      BY <1>1, <2>3 DEF Port!PortNext
  <1> QED
    BY <1>6, <1>7 DEF Advances, OpenStates

\* A step that moves no payment row out of what callers see of it.
LEMMA PortRests ==
  ASSUME IInv, RowStep \/ UNCHANGED tx, ~\E t \in Requests : Advances(t)
  PROVE  UNCHANGED PortView
  <1> SUFFICES ASSUME NEW e \in Envelopes
               PROVE  Seen(e)' = Seen(e)
    BY DEF PortView
  <1>0. LockInv
    BY DEF IInv
  <1>1. CASE Rests \/ UNCHANGED tx
    <2>1. tx' = tx
      BY <1>1 DEF Rests
    <2>2. RowsOf(e)' = RowsOf(e)
      BY <2>1 DEF RowsOf, IsPayment, Present
    <2> QED
      BY <2>1, <2>2 DEF Seen
  <1>2. ASSUME NEW t \in Requests, Touches(t)
        PROVE  Seen(e)' = Seen(e)
    <2>1. \A u \in Requests : tx'[u].original = tx[u].original /\ tx'[u].state = tx[u].state
                             /\ tx'[u].envelope = tx[u].envelope
      BY <1>2 DEF Touches, Only
    <2> QED
      BY <1>0, <2>1, OthersSeen DEF IsPayment, Present
  <1>3. ASSUME NEW r \in Requests, Refuses(r)
        PROVE  Seen(e)' = Seen(e)
    <2>1. /\ \A u \in Requests \ {r} : tx'[u] = tx[u]
          /\ tx[r].state = "ABSENT" /\ tx'[r].original # None
      BY <1>3, NoneAssumption DEF Refuses, Only, Present
    <2> QED
      BY <1>0, <2>1, OthersSeen DEF IsPayment, Present
  <1>4. ASSUME NEW r \in Requests, NEW o \in Requests, Unwinds(r, o)
        PROVE  Seen(e)' = Seen(e)
    <2>1. /\ \A u \in Requests \ {r, o} : tx'[u] = tx[u]
          /\ r # o /\ tx[r].state = "ABSENT" /\ tx'[r].original # None
          /\ tx[o].state = "CONFIRMED" /\ tx'[o].state = "REVERSED"
          /\ tx[o].original = None /\ tx'[o].original = None /\ tx'[o].envelope = tx[o].envelope
      BY <1>4, NoneAssumption DEF Unwinds, Only, Present
    <2> QED
      BY <1>0, <2>1, SeenFacts, OthersSeen DEF IsPayment, Present
  <1> QED
    BY <1>1, <1>2, <1>3, <1>4 DEF RowStep

\* What the overlays are built on is what the orchestrator, recovery and
\* reversals do, seen from outside.
THEOREM ServesThePort == Spec => Port!PortSpec
  <1>1. Init => Port!PortInit
    BY DEF Init, NoRow, Port!PortInit, RowsOf, IsPayment, Present
  <1>2. IInv /\ IInv' /\ [Next]_vars => [Port!PortNext]_PortView
    <2> SUFFICES ASSUME IInv, IInv', [Next]_vars
                 PROVE  Port!PortNext \/ UNCHANGED PortView
      OBVIOUS
    <2>1. CASE \E t \in Requests : Advances(t)
      BY <2>1, PortMoves DEF IInv
    <2>2. CASE ~\E t \in Requests : Advances(t)
      BY <2>2, PortRests, VarsStepIsRowStep DEF rail
    <2> QED
      BY <2>1, <2>2
  <1>3. IInv /\ IInv' /\ [Next]_vars
          => [Port!PortNext]_[e \in Envelopes |-> IF RowsOf(e) = {} THEN "NONE"
                               ELSE AsSeen(tx[CHOOSE t \in RowsOf(e) : TRUE].state)]
    BY <1>2 DEF PortView, Seen
  <1> QED
    BY <1>1, <1>3, InductiveInvariant, PTL DEF Spec, Port!PortSpec

\* The two refinements together.
THEOREM PromisesImplemented == Spec => ImplementsItsPromises
  BY KeepsThePromise, ServesThePort DEF ImplementsItsPromises

-----------------------------------------------------------------------------
(* Recovery keeps to its schedule.                                         *)

GivenUp == {"EXHAUSTED", "TIMEOUT"}

\* Workers that are about to count a probe of t.
Probed(t) == {w \in Workers : worker[w].pc = "probed" /\ worker[w].on = t}

\* Workers whose probe of t has used up the schedule, before they decide.
Late(t) == {w \in Workers : /\ worker[w].pc = "deciding" /\ worker[w].on = t
                            /\ worker[w].attempt >= MaxAttempts}

\* A row that is still pending has gone past the schedule only by workers that
\* have not decided and by passes that failed; a row that is decided may be
\* counted once more by every worker that had probed it before.
Tally(t) ==
  /\ tx[t].state \in {"ABSENT", "RECEIVED"} => tx[t].attempts = 0
  /\ tx[t].state = "PENDING_RECONCILIATION" =>
       tx[t].attempts <= MaxAttempts - 1 + Cardinality(Late(t)) + faults
  /\ tx[t].attempts + Cardinality(Probed(t)) <= MaxAttempts - 1 + Cardinality(Workers) + faults

GaveUp(t) ==
  tx[t].reason \in GivenUp =>
    /\ tx[t].state \in {"REJECTED", "FAILED"}
    /\ tx[t].attempts >= MaxAttempts
    /\ probes[t] \cap {"CREDITED", "NOT_CREDITED"} = {}
    /\ probes[t] # {}

\* What a worker has counted is not more than the row's count.
Counted(w) == worker[w].pc = "deciding" => worker[w].attempt <= tx[worker[w].on].attempts

RetryInv ==
  /\ \A t \in Requests : Tally(t) /\ GaveUp(t)
  /\ \A w \in Workers : Counted(w)

LEMMA CardSplit ==
  ASSUME NEW S, IsFiniteSet(S), NEW w
  PROVE  /\ Cardinality(S) \in Nat /\ Cardinality(S \ {w}) \in Nat
         /\ Cardinality(S) = Cardinality(S \ {w}) + (IF w \in S THEN 1 ELSE 0)
  <1>1. IsFiniteSet(S \ {w}) /\ Cardinality(S \ {w}) = IF w \in S THEN Cardinality(S) - 1 ELSE Cardinality(S)
    BY FS_RemoveElement
  <1>2. Cardinality(S) \in Nat /\ Cardinality(S \ {w}) \in Nat
    BY <1>1, FS_CardinalityType
  <1> QED
    BY <1>1, <1>2

LEMMA DisjointSum ==
  ASSUME NEW S, NEW T, IsFiniteSet(S), IsFiniteSet(T), S \cap T = {}
  PROVE  IsFiniteSet(S \cup T) /\ Cardinality(S \cup T) = Cardinality(S) + Cardinality(T)
  <1>1. /\ IsFiniteSet(S \cup T)
        /\ Cardinality(S \cup T) = Cardinality(S) + Cardinality(T) - Cardinality(S \cap T)
    BY FS_Union
  <1>2. Cardinality(S \cap T) = 0
    BY FS_EmptySet
  <1>3. Cardinality(S) \in Nat /\ Cardinality(T) \in Nat
    BY FS_CardinalityType
  <1> QED
    BY <1>1, <1>2, <1>3

LEMMA WorkerSets ==
  ASSUME NEW t
  PROVE  /\ IsFiniteSet(Late(t)) /\ IsFiniteSet(Probed(t))
         /\ Cardinality(Workers) \in Nat
         /\ Cardinality(Late(t)) \in Nat /\ Cardinality(Probed(t)) \in Nat
         /\ Cardinality(Late(t)) + Cardinality(Probed(t)) <= Cardinality(Workers)
  <1>1. Late(t) \in SUBSET Workers /\ Probed(t) \in SUBSET Workers
    BY DEF Late, Probed
  <1>2. IsFiniteSet(Late(t)) /\ IsFiniteSet(Probed(t))
    BY <1>1, WorkersAssumption, FS_Subset
  <1>3. Late(t) \cap Probed(t) = {}
    BY DEF Late, Probed
  <1>5. Late(t) \cup Probed(t) \in SUBSET Workers
    BY <1>1
  <1>6. /\ IsFiniteSet(Late(t) \cup Probed(t))
        /\ Cardinality(Late(t) \cup Probed(t)) = Cardinality(Late(t)) + Cardinality(Probed(t))
    BY <1>2, <1>3, DisjointSum
  <1>7. Cardinality(Late(t) \cup Probed(t)) <= Cardinality(Workers)
    BY <1>5, WorkersAssumption, FS_Subset
  <1> QED
    BY <1>2, <1>6, <1>7, WorkersAssumption, FS_CardinalityType

LEMMA WorkerSetsNext ==
  ASSUME NEW t
  PROVE  /\ Cardinality(Late(t)') \in Nat /\ Cardinality(Probed(t)') \in Nat
         /\ Cardinality(Late(t)') + Cardinality(Probed(t)') <= Cardinality(Workers)
  <1>1. Late(t)' \in SUBSET Workers /\ Probed(t)' \in SUBSET Workers
    BY DEF Late, Probed
  <1>2. IsFiniteSet(Late(t)') /\ IsFiniteSet(Probed(t)')
    BY <1>1, WorkersAssumption, FS_Subset
  <1>3. Late(t)' \cap Probed(t)' = {}
    BY DEF Late, Probed
  <1>5. Late(t)' \cup Probed(t)' \in SUBSET Workers
    BY <1>1
  <1>6. Cardinality(Late(t)' \cup Probed(t)') = Cardinality(Late(t)') + Cardinality(Probed(t)')
    BY <1>2, <1>3, DisjointSum
  <1>7. Cardinality(Late(t)' \cup Probed(t)') <= Cardinality(Workers)
    BY <1>5, WorkersAssumption, FS_Subset
  <1> QED
    BY <1>2, <1>6, <1>7, FS_CardinalityType

\* One worker moves: the others are counted as before.
Others(w) == \A v \in Workers \ {w} : worker'[v] = worker[v]

LEMMA LateMoves ==
  ASSUME NEW w \in Workers, Others(w), NEW t
  PROVE  /\ Cardinality(Late(t) \ {w}) \in Nat
         /\ Cardinality(Late(t)') = Cardinality(Late(t) \ {w}) + (IF w \in Late(t)' THEN 1 ELSE 0)
         /\ Cardinality(Late(t)) = Cardinality(Late(t) \ {w}) + (IF w \in Late(t) THEN 1 ELSE 0)
  <1>1. Late(t)' \ {w} = Late(t) \ {w} /\ Late(t)' \in SUBSET Workers
    BY DEF Late, Others
  <1>2. IsFiniteSet(Late(t)') /\ IsFiniteSet(Late(t))
    BY <1>1, WorkerSets, WorkersAssumption, FS_Subset
  <1> QED
    BY <1>1, <1>2, CardSplit

LEMMA ProbedMoves ==
  ASSUME NEW w \in Workers, Others(w), NEW t
  PROVE  /\ Cardinality(Probed(t) \ {w}) \in Nat
         /\ Cardinality(Probed(t)') = Cardinality(Probed(t) \ {w}) + (IF w \in Probed(t)' THEN 1 ELSE 0)
         /\ Cardinality(Probed(t)) = Cardinality(Probed(t) \ {w}) + (IF w \in Probed(t) THEN 1 ELSE 0)
  <1>1. Probed(t)' \ {w} = Probed(t) \ {w} /\ Probed(t)' \in SUBSET Workers
    BY DEF Probed, Others
  <1>2. IsFiniteSet(Probed(t)') /\ IsFiniteSet(Probed(t))
    BY <1>1, WorkerSets, WorkersAssumption, FS_Subset
  <1> QED
    BY <1>1, <1>2, CardSplit

\* What callers, operators and clocks do to a row.
Calm(u) ==
  /\ tx'[u].attempts = tx[u].attempts /\ probes'[u] = probes[u]
  /\ \/ tx'[u].state = tx[u].state /\ tx'[u].reason = tx[u].reason
     \/ /\ tx'[u].reason \notin GivenUp
        /\ \/ tx[u].state \in {"ABSENT", "RECEIVED"}
           \/ tx'[u].state \in {"CONFIRMED", "REJECTED", "REVERSED"}

LEMMA CalmKeepsRetries ==
  ASSUME IInv, TypeOK', RetryInv, UNCHANGED <<worker, faults>>, \A u \in Requests : Calm(u)
  PROVE  RetryInv'
  <1>1. ASSUME NEW t \in Requests
        PROVE  Tally(t)' /\ GaveUp(t)'
    <2>1. Late(t)' = Late(t) /\ Probed(t)' = Probed(t)
      BY DEF Late, Probed
    <2>2. /\ Cardinality(Late(t)) \in Nat /\ Cardinality(Probed(t)) \in Nat
          /\ Cardinality(Late(t)) + Cardinality(Probed(t)) <= Cardinality(Workers)
          /\ Cardinality(Workers) \in Nat /\ faults \in Nat /\ tx[t].attempts \in Nat
      BY WorkerSets DEF IInv, TypeOK, Row
    <2>3. Tally(t) /\ GaveUp(t) /\ Calm(t)
      BY DEF RetryInv
    <2>4. Tally(t)'
      BY <2>1, <2>2, <2>3, BoundsAssumption DEF Tally, Calm
    <2>5. GaveUp(t)'
      BY <2>3 DEF GaveUp, Calm
    <2> QED
      BY <2>4, <2>5
  <1>2. ASSUME NEW w \in Workers
        PROVE  Counted(w)'
    BY <1>2 DEF RetryInv, Counted, Calm, IInv, LockInv, WorkerInv
  <1> QED
    BY <1>1, <1>2 DEF RetryInv

\* A worker that writes no row.
LEMMA MoveKeepsRetries ==
  ASSUME IInv, TypeOK', RetryInv, UNCHANGED rail, NEW w \in Workers,
         Others(w),
         worker'[w].pc # "deciding", faults' >= faults,
         \A t \in Requests : w \in Late(t) /\ tx[t].state = "PENDING_RECONCILIATION"
                               => faults' = faults + 1,
         \A t \in Requests : w \in Probed(t)' => tx[t].state = "PENDING_RECONCILIATION"
  PROVE  RetryInv'
  <1>1. ASSUME NEW t \in Requests
        PROVE  Tally(t)' /\ GaveUp(t)'
    <2>1. tx'[t] = tx[t] /\ probes'[t] = probes[t]
      BY DEF rail
    <2>2. /\ faults \in Nat /\ faults' \in Nat /\ tx[t].attempts \in Nat
      BY DEF IInv, TypeOK, Row
    <2>3. Tally(t) /\ GaveUp(t)
      BY DEF RetryInv
    <2>4. w \notin Late(t)'
      BY DEF Late
    <2>5. /\ Cardinality(Late(t)') \in Nat /\ Cardinality(Probed(t)') \in Nat
          /\ Cardinality(Late(t)') + Cardinality(Probed(t)') <= Cardinality(Workers)
          /\ Cardinality(Workers) \in Nat
      BY WorkerSets, WorkerSetsNext
    <2>6. CASE tx[t].state = "PENDING_RECONCILIATION"
      <3>1. tx[t].attempts <= MaxAttempts - 1 + Cardinality(Late(t)') + faults'
        <4>1. /\ Cardinality(Late(t)') = Cardinality(Late(t) \ {w})
              /\ Cardinality(Late(t)) = Cardinality(Late(t) \ {w}) + (IF w \in Late(t) THEN 1 ELSE 0)
              /\ Cardinality(Late(t) \ {w}) \in Nat
          BY <2>4, LateMoves
        <4>2. tx[t].attempts <= MaxAttempts - 1 + Cardinality(Late(t)) + faults
          BY <2>3, <2>6 DEF Tally
        <4>3. CASE w \in Late(t)
          <5>1. faults' = faults + 1
            BY <2>6, <4>3
          <5> QED
            BY <2>2, <4>1, <4>2, <4>3, <5>1, BoundsAssumption
        <4>4. CASE w \notin Late(t)
          BY <2>2, <4>1, <4>2, <4>4, BoundsAssumption
        <4> QED
          BY <4>3, <4>4
      <3>2. tx[t].attempts + Cardinality(Probed(t)') <= MaxAttempts - 1 + Cardinality(Workers) + faults'
        BY <2>2, <2>5, <3>1, BoundsAssumption
      <3> QED
        BY <2>1, <2>3, <2>6, <3>1, <3>2 DEF Tally, GaveUp
    <2>7. CASE tx[t].state # "PENDING_RECONCILIATION"
      <3>1. w \notin Probed(t)'
        BY <2>7
      <3>2. Cardinality(Probed(t)') <= Cardinality(Probed(t))
        <4>1. /\ Cardinality(Probed(t)') = Cardinality(Probed(t) \ {w})
              /\ Cardinality(Probed(t)) = Cardinality(Probed(t) \ {w}) + (IF w \in Probed(t) THEN 1 ELSE 0)
              /\ Cardinality(Probed(t) \ {w}) \in Nat
          BY <3>1, ProbedMoves
        <4> QED
          BY <4>1
      <3>3. Cardinality(Probed(t)) \in Nat
        BY WorkerSets
      <3>4. tx[t].attempts + Cardinality(Probed(t)') <= MaxAttempts - 1 + Cardinality(Workers) + faults'
        BY <2>2, <2>3, <2>5, <3>2, <3>3, BoundsAssumption DEF Tally
      <3> QED
        BY <2>1, <2>3, <2>7, <3>4 DEF Tally, GaveUp
    <2> QED
      BY <2>6, <2>7
  <1>2. ASSUME NEW v \in Workers
        PROVE  Counted(v)'
    BY DEF RetryInv, Counted, rail, Others
  <1> QED
    BY <1>1, <1>2 DEF RetryInv

LEMMA BumpKeepsRetries ==
  ASSUME IInv, TypeOK', RetryInv, NEW w \in Workers, bumpAttempts(w)
  PROVE  RetryInv'
  <1>1. TypeOK /\ LockInv /\ worker[w].pc = "probed" /\ UNCHANGED <<probes, faults>>
    BY DEF IInv, bumpAttempts
  <1>2. PICK b \in Requests : b = worker[w].on
    BY <1>1 DEF LockInv, WorkerInv
  <1>3. tx[b] \in Row /\ tx[b].state \notin {"ABSENT", "RECEIVED"} /\ tx[b].attempts \in Nat
    BY <1>1, <1>2 DEF TypeOK, LockInv, WorkerInv, IsPayment, Present, Row
  <1>4. /\ Bumped(tx[b]).state = tx[b].state /\ Bumped(tx[b]).reason = tx[b].reason
        /\ Bumped(tx[b]).attempts = tx[b].attempts + 1
    BY <1>3 DEF Bumped, Row
  <1>5. \A u \in Requests : tx'[u] = IF u = b THEN Bumped(tx[b]) ELSE tx[u]
    BY <1>1, <1>2 DEF bumpAttempts, TypeOK
  <1>6. /\ Others(w) /\ worker'[w].pc = "deciding" /\ worker'[w].on = b
        /\ worker'[w].attempt = tx[b].attempts + 1
    BY <1>1, <1>2 DEF bumpAttempts, TypeOK, Others
  <1>7. ASSUME NEW t \in Requests
        PROVE  Tally(t)' /\ GaveUp(t)'
    <2>1. /\ w \notin Late(t) /\ w \notin Probed(t)'
          /\ w \in Probed(t) <=> t = b
          /\ w \in Late(t)' <=> t = b /\ tx[b].attempts + 1 >= MaxAttempts
      BY <1>1, <1>2, <1>6 DEF Late, Probed
    <2>2. /\ Cardinality(Late(t) \ {w}) \in Nat /\ Cardinality(Probed(t) \ {w}) \in Nat
          /\ Cardinality(Late(t)) = Cardinality(Late(t) \ {w})
          /\ Cardinality(Late(t)') = Cardinality(Late(t) \ {w}) + (IF w \in Late(t)' THEN 1 ELSE 0)
          /\ Cardinality(Probed(t)') = Cardinality(Probed(t) \ {w})
          /\ Cardinality(Probed(t)) = Cardinality(Probed(t) \ {w}) + (IF t = b THEN 1 ELSE 0)
      <3>1. /\ Cardinality(Late(t) \ {w}) \in Nat
            /\ Cardinality(Late(t)') = Cardinality(Late(t) \ {w}) + (IF w \in Late(t)' THEN 1 ELSE 0)
            /\ Cardinality(Late(t)) = Cardinality(Late(t) \ {w}) + (IF w \in Late(t) THEN 1 ELSE 0)
        BY <1>6, LateMoves
      <3>2. /\ Cardinality(Probed(t) \ {w}) \in Nat
            /\ Cardinality(Probed(t)') = Cardinality(Probed(t) \ {w}) + (IF w \in Probed(t)' THEN 1 ELSE 0)
            /\ Cardinality(Probed(t)) = Cardinality(Probed(t) \ {w}) + (IF w \in Probed(t) THEN 1 ELSE 0)
        BY <1>6, ProbedMoves
      <3> QED
        BY <2>1, <3>1, <3>2
    <2>3. /\ Tally(t) /\ GaveUp(t) /\ faults \in Nat /\ tx[t].attempts \in Nat
          /\ Cardinality(Workers) \in Nat /\ faults' = faults /\ probes'[t] = probes[t]
      BY <1>1, WorkerSets DEF RetryInv, TypeOK, Row
    <2>4. CASE t # b
      <3>1. tx'[t] = tx[t]
        BY <1>5, <2>4
      <3> QED
        BY <2>1, <2>2, <2>3, <2>4, <3>1 DEF Tally, GaveUp
    <2>5. CASE t = b
      <3>1. /\ tx'[t].state = tx[t].state /\ tx'[t].reason = tx[t].reason
            /\ tx'[t].attempts = tx[t].attempts + 1
        BY <1>4, <1>5, <2>5
      <3>2. GaveUp(t)'
        BY <2>3, <3>1, BoundsAssumption DEF GaveUp
      <3>3. CASE w \in Late(t)'
        BY <1>3, <2>2, <2>3, <2>5, <3>1, <3>2, <3>3, BoundsAssumption DEF Tally
      <3>4. CASE w \notin Late(t)'
        <4>1. tx[t].attempts + 1 <= MaxAttempts - 1
          BY <2>1, <2>3, <2>5, <3>4, BoundsAssumption
        <4> QED
          BY <1>3, <2>2, <2>3, <2>5, <3>1, <3>2, <3>4, <4>1, BoundsAssumption DEF Tally
      <3> QED
        BY <3>3, <3>4
    <2> QED
      BY <2>4, <2>5
  <1>8. ASSUME NEW v \in Workers
        PROVE  Counted(v)'
    <2>1. CASE v = w
      BY <1>3, <1>4, <1>5, <1>6, <2>1 DEF Counted
    <2>2. CASE v # w /\ worker[v].pc = "deciding"
      <3>1. worker'[v] = worker[v] /\ worker[v].on \in Requests
        BY <1>1, <1>6, <2>2 DEF Others, LockInv, WorkerInv
      <3>2. /\ worker[v].attempt <= tx[worker[v].on].attempts /\ worker[v].attempt \in Nat
            /\ tx[worker[v].on].attempts \in Nat
        BY <1>1, <2>2, <3>1 DEF RetryInv, Counted, TypeOK, Row, Worker
      <3>3. tx'[worker[v].on].attempts >= tx[worker[v].on].attempts
        BY <1>3, <1>4, <1>5, <3>1, <3>2
      <3>4. tx'[worker[v].on].attempts \in Nat
        BY <3>1 DEF TypeOK, Row
      <3> QED
        BY <3>1, <3>2, <3>3, <3>4 DEF Counted
    <2>3. CASE v # w /\ worker[v].pc # "deciding"
      BY <1>6, <2>3 DEF Counted, Others
    <2> QED
      BY <2>1, <2>2, <2>3
  <1> QED
    BY <1>7, <1>8 DEF RetryInv

\* A worker decides on a row that is still pending.
LEMMA DecideKeepsRetries ==
  ASSUME IInv, TypeOK', RetryInv, NEW w \in Workers, Deciding(w), NEW d \in Requests, d = worker[w].on,
         UNCHANGED faults, \A u \in Requests \ {d} : tx'[u] = tx[u] /\ probes'[u] = probes[u],
         tx'[d].attempts = tx[d].attempts,
         \/ tx'[d].state \in {"CONFIRMED", "REJECTED", "FAILED"}
         \/ tx'[d].state = tx[d].state /\ worker[w].attempt < MaxAttempts,
         GaveUp(d)'
  PROVE  RetryInv'
  <1>1. TypeOK /\ worker[w].pc = "deciding" /\ tx[d].state = "PENDING_RECONCILIATION"
    BY DEF IInv, Deciding
  <1>2. Others(w) /\ worker'[w].pc = "idle"
    BY <1>1 DEF Deciding, PassEnds, Resting, TypeOK, Others
  <1>3. ASSUME NEW t \in Requests
        PROVE  Tally(t)' /\ GaveUp(t)'
    <2>1. /\ w \notin Late(t)' /\ w \notin Probed(t)' /\ w \notin Probed(t)
          /\ t # d \/ worker[w].attempt < MaxAttempts => w \notin Late(t)
      <3>1. worker[w].attempt \in Nat /\ MaxAttempts \in Nat
        BY <1>1, BoundsAssumption DEF TypeOK, Worker
      <3> QED
        BY <1>1, <1>2, <3>1 DEF Late, Probed
    <2>2. /\ Cardinality(Late(t) \ {w}) \in Nat
          /\ Cardinality(Late(t)') = Cardinality(Late(t) \ {w}) + (IF w \in Late(t)' THEN 1 ELSE 0)
          /\ Cardinality(Late(t)) = Cardinality(Late(t) \ {w}) + (IF w \in Late(t) THEN 1 ELSE 0)
      BY <1>2, LateMoves
    <2>3. /\ Cardinality(Probed(t) \ {w}) \in Nat
          /\ Cardinality(Probed(t)') = Cardinality(Probed(t) \ {w}) + (IF w \in Probed(t)' THEN 1 ELSE 0)
          /\ Cardinality(Probed(t)) = Cardinality(Probed(t) \ {w}) + (IF w \in Probed(t) THEN 1 ELSE 0)
      BY <1>2, ProbedMoves
    <2>4. /\ Tally(t) /\ GaveUp(t) /\ faults \in Nat /\ tx[t].attempts \in Nat
          /\ Cardinality(Workers) \in Nat /\ faults' = faults
      BY <1>1, WorkerSets DEF RetryInv, TypeOK, Row
    <2>5. CASE t # d
      <3>1. tx'[t] = tx[t] /\ probes'[t] = probes[t]
        BY <2>5
      <3> QED
        BY <2>1, <2>2, <2>3, <2>4, <2>5, <3>1 DEF Tally, GaveUp
    <2>6. CASE t = d
      BY <1>1, <2>1, <2>2, <2>3, <2>4, <2>6 DEF Tally
    <2> QED
      BY <2>5, <2>6
  <1>4. ASSUME NEW v \in Workers
        PROVE  Counted(v)'
    <2>1. CASE v = w
      BY <1>2, <2>1 DEF Counted
    <2>2. CASE v # w /\ worker[v].pc = "deciding"
      <3>1. worker'[v] = worker[v] /\ worker[v].on \in Requests
        BY <1>2, <2>2 DEF Others, IInv, LockInv, WorkerInv
      <3>2. tx'[worker[v].on].attempts = tx[worker[v].on].attempts
        BY <3>1
      <3> QED
        BY <2>2, <3>1, <3>2 DEF Counted, RetryInv
    <2>3. CASE v # w /\ worker[v].pc # "deciding"
      BY <1>2, <2>3 DEF Counted, Others
    <2> QED
      BY <2>1, <2>2, <2>3
  <1> QED
    BY <1>3, <1>4 DEF RetryInv

LEMMA RowFieldFacts ==
  ASSUME NEW row \in Row, NEW s, NEW reason, NEW f, NEW r
  PROVE  /\ Finalize(row, s, reason).attempts = row.attempts
         /\ Finalize(row, s, reason).state = s /\ Finalize(row, s, reason).reason = reason
         /\ Ended(row, s, reason, f).attempts = row.attempts
         /\ Ended(row, s, reason, f).state = s /\ Ended(row, s, reason, f).reason = reason
         /\ Unwound(row, r).attempts = row.attempts
  BY DEF Finalize, Ended, Unwound, Row

LEMMA FinalizeCount ==
  ASSUME NEW row \in Row, NEW s, NEW reason
  PROVE  /\ Finalize(row, s, reason).attempts = row.attempts
         /\ Finalize(row, s, reason).state = s /\ Finalize(row, s, reason).reason = reason
  BY DEF Finalize, Row

LEMMA StoredCount ==
  ASSUME IInv, RetryInv, NEW t \in Requests, NEW e \in Envelopes
  PROVE  /\ Stored(t, e) \in Row /\ Stored(t, e).attempts = tx[t].attempts
         /\ Present(t) => Stored(t, e) = tx[t]
         /\ ~Present(t) => Stored(t, e).reason = "NONE"
  BY StoredType DEF IInv, RetryInv, Tally, Stored, Present, NoRow

LEMMA CalmIngests ==
  ASSUME IInv, RetryInv, NEW r \in Requests, NEW e \in Envelopes,
         Ingest(r, e) \/ ProcessDeclined(r, e)
  PROVE  UNCHANGED <<worker, faults>> /\ \A u \in Requests : Calm(u)
  <1>1. UNCHANGED <<worker, faults, probes>>
    BY DEF Ingest, ProcessDeclined
  <1>2. PICK t \in RowFor(e, r) :
          \/ tx' = [tx EXCEPT ![t] = Stored(t, e)]
          \/ tx' = [tx EXCEPT ![t] = Finalize(Stored(t, e), "REJECTED", "DECLINED")]
    BY DEF Ingest, ProcessDeclined
  <1>3. t \in Requests
    BY RowForType
  <1>4. /\ Stored(t, e) \in Row /\ Stored(t, e).attempts = tx[t].attempts
        /\ Present(t) => Stored(t, e) = tx[t]
        /\ ~Present(t) => Stored(t, e).reason = "NONE"
    BY <1>3, StoredCount
  <1>5. PICK row : /\ row.attempts = tx[t].attempts
                   /\ \/ Present(t) /\ row = tx[t]
                      \/ ~Present(t) /\ row.reason = "NONE"
                      \/ row.state = "REJECTED" /\ row.reason = "DECLINED"
                   /\ tx' = [tx EXCEPT ![t] = row]
    BY <1>2, <1>4, RowFieldFacts
  <1>6. \A u \in Requests : tx'[u] = IF u = t THEN row ELSE tx[u]
    BY <1>3, <1>5 DEF IInv, TypeOK
  <1> QED
    BY <1>1, <1>5, <1>6 DEF Calm, GivenUp, Present

LEMMA CalmProcessEnds ==
  ASSUME IInv, RetryInv, NEW r \in Requests,
         ProcessConfirms(r) \/ ProcessRejects(r) \/ ProcessLeavesPending(r)
  PROVE  UNCHANGED <<worker, faults>> /\ \A u \in Requests : Calm(u)
  <1>1. call[r].pc = "crediting" /\ UNCHANGED <<worker, faults, probes>>
    BY DEF ProcessConfirms, ProcessRejects, ProcessLeavesPending
  <1>2. PICK t \in Requests, e \in Envelopes :
          t = call[r].on /\ e = call[r].envelope /\ tx[t].state \in {"ABSENT", "RECEIVED"}
    BY <1>1, HeldRowFacts DEF IInv
  <1>3. PICK s \in STATES, reason \in Reasons \ GivenUp, f \in BOOLEAN :
          tx' = [tx EXCEPT ![t] = Ended(Stored(t, e), s, reason, f)]
    <2>1. call[r].fee \in BOOLEAN
      BY DEF IInv, TypeOK, Call
    <2> QED
      BY <1>2, <2>1 DEF ProcessConfirms, ProcessRejects, ProcessLeavesPending, Reasons, GivenUp, STATES
  <1>4. /\ Ended(Stored(t, e), s, reason, f).attempts = tx[t].attempts
        /\ Ended(Stored(t, e), s, reason, f).reason = reason
    BY StoredCount, RowFieldFacts
  <1>5. \A u \in Requests : tx'[u] = IF u = t THEN Ended(Stored(t, e), s, reason, f) ELSE tx[u]
    BY <1>3 DEF IInv, TypeOK
  <1> QED
    BY <1>1, <1>2, <1>4, <1>5 DEF Calm

LEMMA CalmOperator ==
  ASSUME IInv, RetryInv, NEW t \in Requests,
         operatorKillSwitch(t) \/ runById(t) \/ BackoffElapses(t)
           \/ ParticipantExecutes(t) \/ ParticipantRefuses(t)
  PROVE  UNCHANGED <<worker, faults>> /\ \A u \in Requests : Calm(u)
  <1>1. UNCHANGED <<worker, faults, probes>>
    BY DEF operatorKillSwitch, runById, BackoffElapses, ParticipantExecutes, ParticipantRefuses, rail
  <1>2. tx[t] \in Row /\ tx \in [Requests -> Row]
    BY DEF IInv, TypeOK
  <1>3. CASE operatorKillSwitch(t)
    <2>1. \A u \in Requests : tx'[u] = IF u = t THEN Finalize(tx[t], "REJECTED", "KILLED") ELSE tx[u]
      BY <1>2, <1>3 DEF operatorKillSwitch
    <2> QED
      BY <1>1, <1>2, <2>1, RowFieldFacts DEF Calm, GivenUp
  <1>4. CASE BackoffElapses(t)
    <2>1. \A u \in Requests : tx'[u] = IF u = t THEN [tx[t] EXCEPT !.due = TRUE] ELSE tx[u]
      BY <1>2, <1>4 DEF BackoffElapses
    <2>2. /\ [tx[t] EXCEPT !.due = TRUE].attempts = tx[t].attempts
          /\ [tx[t] EXCEPT !.due = TRUE].state = tx[t].state
          /\ [tx[t] EXCEPT !.due = TRUE].reason = tx[t].reason
      BY <1>2 DEF Row
    <2> QED
      BY <1>1, <2>1, <2>2 DEF Calm
  <1>5. CASE runById(t) \/ ParticipantExecutes(t) \/ ParticipantRefuses(t)
    BY <1>1, <1>5 DEF runById, ParticipantExecutes, ParticipantRefuses, rail, Calm
  <1> QED
    BY <1>3, <1>4, <1>5

LEMMA CalmReversal ==
  ASSUME IInv, RetryInv, NEW r \in Requests, Reversal(r)
  PROVE  UNCHANGED <<worker, faults>> /\ \A u \in Requests : Calm(u)
  <1>1. CASE (\E o \in Requests : ReversalStarts(r, o)) \/ ReversalFails(r)
    BY <1>1 DEF ReversalStarts, ReversalFails, rail, Calm
  <1>2. CASE ReversalConfirms(r) \/ ReversalRejected(r)
    <2>1. call[r].pc = "reversing" /\ UNCHANGED <<worker, faults, probes>>
      BY <1>2 DEF ReversalConfirms, ReversalRejected
    <2>2. PICK o \in Requests : /\ o = call[r].on /\ ~Present(r) /\ r # o
                                /\ tx[o].state \in {"CONFIRMED", "REVERSED"}
      BY <2>1 DEF IInv, LockInv, CallInv, Present
    <2>3. tx[o] \in Row /\ tx[r].state = "ABSENT" /\ tx[r].attempts = 0 /\ tx \in [Requests -> Row]
      BY <2>2 DEF IInv, TypeOK, RetryInv, Tally, Present
    <2>4. \A s, reason : /\ ReversalRow(r, o, s, reason).attempts = 0
                         /\ ReversalRow(r, o, s, reason).reason = reason
      BY DEF ReversalRow, NoRow
    <2>5. CASE ReversalRejected(r)
      <3>1. \A u \in Requests : tx'[u] = IF u = r THEN ReversalRow(r, o, "REJECTED", "TECH") ELSE tx[u]
        BY <2>2, <2>3, <2>5 DEF ReversalRejected
      <3> QED
        BY <2>1, <2>3, <2>4, <3>1 DEF Calm, GivenUp
    <2>6. CASE ReversalConfirms(r)
      <3>1. \A u \in Requests : tx'[u] = IF u = o THEN Unwound(tx[o], r)
                                   ELSE IF u = r THEN ReversalRow(r, o, "CONFIRMED", "SUCCESS") ELSE tx[u]
        BY <2>2, <2>3, <2>6 DEF ReversalConfirms
      <3> QED
        BY <2>1, <2>2, <2>3, <2>4, <3>1, RowFieldFacts, UnwoundFields DEF Calm, GivenUp
    <2> QED
      BY <1>2, <2>5, <2>6
  <1> QED
    BY <1>1, <1>2 DEF Reversal

LEMMA WorkerKeepsRetries ==
  ASSUME IInv, TypeOK', RetryInv, NEW w \in Workers, PickBatch(w) \/ runOnceForId(w) \/ PassFails(w)
  PROVE  RetryInv'
  <1>0. TypeOK /\ LockInv /\ worker \in [Workers -> Worker] /\ faults \in Nat
    BY DEF IInv, TypeOK
  <1>1. CASE PickBatch(w) \/ \E t \in Requests : SkipMoved(w, t)
    <2>1. UNCHANGED rail /\ faults' = faults /\ worker[w].pc = "idle" /\ worker'[w].pc = "idle" /\ Others(w)
      BY <1>0, <1>1 DEF PickBatch, SkipMoved, Resting, Others
    <2> QED
      BY <1>0, <2>1, MoveKeepsRetries DEF Late, Probed
  <1>2. ASSUME NEW t \in Requests, probeOnce(w, t)
        PROVE  RetryInv'
    <2>1. /\ UNCHANGED rail /\ faults' = faults /\ worker[w].pc = "idle" /\ Others(w)
          /\ worker'[w].pc = "probed" /\ worker'[w].on = t /\ tx[t].state = "PENDING_RECONCILIATION"
      BY <1>0, <1>2 DEF probeOnce, Others
    <2> QED
      BY <1>0, <2>1, MoveKeepsRetries DEF Late, Probed
  <1>3. CASE DecideSkips(w)
    <2>1. /\ UNCHANGED rail /\ faults' = faults /\ worker'[w].pc = "idle" /\ Others(w)
          /\ tx[worker[w].on].state # "PENDING_RECONCILIATION"
      BY <1>0, <1>3 DEF DecideSkips, PassEnds, Resting, Others
    <2> QED
      BY <1>0, <2>1, MoveKeepsRetries DEF Late, Probed
  <1>4. CASE PassFails(w)
    <2>1. UNCHANGED rail /\ faults' = faults + 1 /\ worker'[w].pc = "idle" /\ Others(w)
      BY <1>0, <1>4 DEF PassFails, PassEnds, Resting, Others
    <2>2. faults' >= faults
      BY <1>0, <2>1
    <2> QED
      BY <2>1, <2>2, MoveKeepsRetries DEF Probed
  <1>5. ASSUME Deciding(w)
        PROVE  \E d \in Requests :
                 /\ d = worker[w].on /\ tx[d] \in Row /\ tx[d].state = "PENDING_RECONCILIATION"
                 /\ probes[d] \cap {"CREDITED", "NOT_CREDITED"} = {}
                 /\ worker[w].attempt <= tx[d].attempts
                 /\ worker[w].attempt \in Nat /\ tx[d].attempts \in Nat
                 /\ tx[d].reason \notin GivenUp
    <2>1. PICK d \in Requests : d = worker[w].on /\ tx[d].state = "PENDING_RECONCILIATION"
      BY <1>0, <1>5 DEF Deciding, LockInv, WorkerInv
    <2>2. RowTruth(d) /\ Counted(w) /\ GaveUp(d)
      BY DEF IInv, TruthInv, RetryInv
    <2>3. tx[d] \in Row /\ worker[w].attempt \in Nat /\ tx[d].attempts \in Nat
      BY <1>0 DEF TypeOK, Row, Worker
    <2> QED
      BY <1>5, <2>1, <2>2, <2>3 DEF RowTruth, Counted, GaveUp, Deciding
  <1>6. CASE DecideCredited(w) \/ DecideNotCredited(w)
    <2>1. Deciding(w) /\ UNCHANGED faults
      BY <1>6 DEF DecideCredited, DecideNotCredited
    <2>2. PICK d \in Requests : d = worker[w].on /\ tx[d] \in Row
      BY <1>5, <2>1
    <2>3. PICK s \in {"CONFIRMED", "REJECTED"}, reason \in Reasons \ GivenUp :
            tx' = [tx EXCEPT ![d] = Finalize(tx[d], s, reason)]
      BY <1>6, <2>2 DEF DecideCredited, DecideNotCredited, Reasons, GivenUp
    <2>4. \A u \in Requests : tx'[u] = IF u = d THEN Finalize(tx[d], s, reason) ELSE tx[u]
      BY <1>0, <2>3 DEF TypeOK
    <2>5. \A u \in Requests \ {d} : probes'[u] = probes[u]
      BY <1>0, <1>6, <2>2 DEF DecideCredited, DecideNotCredited, TypeOK
    <2>6. tx'[d].state = s /\ tx'[d].reason = reason /\ tx'[d].attempts = tx[d].attempts
      BY <2>2, <2>4, FinalizeCount
    <2>7. GaveUp(d)'
      BY <2>3, <2>6 DEF GaveUp
    <2> QED
      BY <2>1, <2>2, <2>4, <2>5, <2>6, <2>7, DecideKeepsRetries
  <1>7. CASE DecideExhausted(w)
    <2>1. Deciding(w) /\ UNCHANGED faults /\ worker[w].outcome \notin {"CREDITED", "NOT_CREDITED"}
      BY <1>7 DEF DecideExhausted, Inconclusive
    <2>2. PICK d \in Requests :
            /\ d = worker[w].on /\ tx[d] \in Row
            /\ probes[d] \cap {"CREDITED", "NOT_CREDITED"} = {}
            /\ worker[w].attempt <= tx[d].attempts
            /\ worker[w].attempt \in Nat /\ tx[d].attempts \in Nat
      BY <1>5, <2>1
    <2> DEFINE outcomes == probes[d] \cup {worker[w].outcome}
    <2>3. outcomes \cap {"CREDITED", "NOT_CREDITED"} = {} /\ outcomes # {}
      BY <2>1, <2>2
    <2>4. /\ tx' = [tx EXCEPT ![d] = Finalize(tx[d], decideTerminalAtExhaust(outcomes).state,
                                               decideTerminalAtExhaust(outcomes).reason)]
          /\ probes' = [probes EXCEPT ![d] = outcomes] /\ isExhausted(worker[w].attempt)
      BY <1>7, <2>2 DEF DecideExhausted
    <2> HIDE DEF outcomes
    <2>5. PICK s \in {"REJECTED", "FAILED"} :
            \E reason : tx' = [tx EXCEPT ![d] = Finalize(tx[d], s, reason)]
      <3>1. decideTerminalAtExhaust(outcomes).state \in {"REJECTED", "FAILED"}
        BY <2>3 DEF decideTerminalAtExhaust
      <3> QED
        BY <2>4, <3>1
    <2> PICK reason : tx' = [tx EXCEPT ![d] = Finalize(tx[d], s, reason)]
      BY <2>5
    <2>6. \A u \in Requests : /\ tx'[u] = IF u = d THEN Finalize(tx[d], s, reason) ELSE tx[u]
                              /\ probes'[u] = IF u = d THEN outcomes ELSE probes[u]
      BY <1>0, <2>4, <2>5 DEF TypeOK
    <2>7. tx'[d].state = s /\ tx'[d].attempts = tx[d].attempts
      BY <2>2, <2>6, FinalizeCount
    <2>8. GaveUp(d)'
      <3>1. tx[d].attempts >= MaxAttempts
        BY <2>2, <2>4, BoundsAssumption DEF isExhausted
      <3> QED
        BY <2>3, <2>6, <2>7, <3>1 DEF GaveUp
    <2> QED
      BY <2>1, <2>2, <2>6, <2>7, <2>8, DecideKeepsRetries
  <1>8. CASE DecideReschedules(w)
    <2>1. Deciding(w) /\ UNCHANGED faults /\ ~isExhausted(worker[w].attempt)
      BY <1>8 DEF DecideReschedules
    <2>2. PICK d \in Requests : /\ d = worker[w].on /\ tx[d] \in Row /\ tx[d].reason \notin GivenUp
                                /\ worker[w].attempt \in Nat
      BY <1>5, <2>1
    <2>3. /\ \A u \in Requests : tx'[u] = IF u = d THEN [tx[d] EXCEPT !.due = FALSE] ELSE tx[u]
          /\ \A u \in Requests \ {d} : probes'[u] = probes[u]
      BY <1>0, <1>8, <2>2 DEF DecideReschedules, TypeOK
    <2>4. /\ tx'[d].state = tx[d].state /\ tx'[d].reason = tx[d].reason
          /\ tx'[d].attempts = tx[d].attempts
      BY <2>2, <2>3 DEF Row
    <2>5. GaveUp(d)' /\ worker[w].attempt < MaxAttempts
      BY <2>1, <2>2, <2>4, BoundsAssumption DEF GaveUp, isExhausted
    <2> QED
      BY <2>1, <2>2, <2>3, <2>4, <2>5, DecideKeepsRetries
  <1> QED
    BY <1>1, <1>2, <1>3, <1>4, <1>6, <1>7, <1>8, BumpKeepsRetries DEF runOnceForId, Decide

LEMMA RetryInit == Init => RetryInv
  <1> SUFFICES ASSUME Init PROVE RetryInv
    OBVIOUS
  <1>1. ASSUME NEW t \in Requests
        PROVE  Tally(t) /\ GaveUp(t)
    <2>1. /\ tx[t] = NoRow /\ faults = 0 /\ Probed(t) = {}
          /\ Cardinality(Probed(t)) = 0
      BY FS_EmptySet DEF Init, Probed, Resting
    <2>2. Cardinality(Workers) \in Nat
      BY WorkerSets
    <2> QED
      BY <2>1, <2>2, BoundsAssumption DEF Tally, GaveUp, GivenUp, NoRow
  <1> QED
    BY <1>1 DEF RetryInv, Counted, Init, Resting

LEMMA RetryStep ==
  ASSUME IInv, TypeOK', RetryInv, [Next]_vars
  PROVE  RetryInv'
  <1>1. CASE UNCHANGED vars
    BY <1>1, CalmKeepsRetries DEF vars, rail, Calm
  <1>2. ASSUME NEW r \in Requests, Process(r) \/ \E e \in Envelopes : Ingest(r, e)
        PROVE  RetryInv'
    <2>1. ASSUME NEW e \in Envelopes,
                 ProcessDeduped(r, e) \/ ProcessRefused(r, e) \/ ProcessSendsCreditLeg(r, e) \/ ProcessFails(r)
          PROVE  RetryInv'
      BY <2>1, CalmKeepsRetries
         DEF ProcessDeduped, ProcessRefused, ProcessSendsCreditLeg, ProcessFails, rail, Calm
    <2>2. CASE ProcessFails(r)
      BY <2>2, CalmKeepsRetries DEF ProcessFails, rail, Calm
    <2> QED
      BY <1>2, <2>1, <2>2, CalmIngests, CalmProcessEnds, CalmKeepsRetries DEF Process
  <1>3. ASSUME NEW r \in Requests, Reversal(r)
        PROVE  RetryInv'
    BY <1>3, CalmReversal, CalmKeepsRetries
  <1>4. ASSUME NEW t \in Requests,
               operatorKillSwitch(t) \/ runById(t) \/ BackoffElapses(t)
                 \/ ParticipantExecutes(t) \/ ParticipantRefuses(t)
        PROVE  RetryInv'
    BY <1>4, CalmOperator, CalmKeepsRetries
  <1> QED
    BY <1>1, <1>2, <1>3, <1>4, WorkerKeepsRetries DEF Next

\* Recovery tries as often as its schedule says, overshooting by no more than
\* the workers that race and the passes that fail, and gives up on a payment
\* only after a full schedule of probes without a conclusive answer.
THEOREM RetriesOnSchedule == Spec => []RetriesFollowThePolicy
  <1>1. IInv /\ RetryInv => RetriesFollowThePolicy
    <2> SUFFICES ASSUME IInv, RetryInv, NEW t \in Requests
                 PROVE  /\ tx[t].attempts <= MaxAttempts + Cardinality(Workers) - 1 + faults
                        /\ GaveUp(t)
      BY DEF RetriesFollowThePolicy, AttemptsBounded, GivesUpOnlyWhenExhausted, GaveUp, GivenUp
    <2>1. Tally(t) /\ GaveUp(t) /\ tx[t].attempts \in Nat /\ faults \in Nat
      BY DEF RetryInv, IInv, TypeOK, Row
    <2>2. Cardinality(Workers) \in Nat /\ Cardinality(Probed(t)) \in Nat
      BY WorkerSets
    <2> QED
      BY <2>1, <2>2, BoundsAssumption DEF Tally
  <1>2. IInv /\ TypeOK' /\ RetryInv /\ [Next]_vars => RetryInv'
    BY RetryStep
  <1> QED
    BY <1>1, <1>2, RetryInit, InductiveInvariant, TypeCorrect, PTL DEF Spec
=============================================================================
