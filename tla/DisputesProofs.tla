---------------------------- MODULE DisputesProofs ----------------------------
(***************************************************************************)
(* Proofs about the dispute cases: that the reserve of a case is taken and *)
(* paid once, that maker and checker differ, that a fraud verdict stands   *)
(* on frozen money, and that a case moves along its table.                 *)
(*                                                                         *)
(* The invariant has three parts: what the rows of a case say about each   *)
(* other (RowOK, CheckedOK, FraudOK, PaidOK), what a worker may still rely *)
(* on of what it has read (WorkerOK), and what a fast-track reversal says  *)
(* of the freeze behind it (FreezeOK).  A write is proved once for the     *)
(* worker that does it and its case (Written); what it leaves to the other *)
(* workers is one fact about all writes (Wrote, OthersStay).               *)
(***************************************************************************)
EXTENDS Disputes, TLAPS

\* What a fast-track reversal rests on is frozen, from the bank's answer on.
FreezeOK(f) ==
  /\ handler[f].at # "idle" => handler[f].of \in Payments
  /\ fastTrack[f].state # "absent" => fastTrack[f].of \in Payments
  /\ fastTrack[f].state \in {"completed", "frozen"} => fastTrack[f].of \in frozen
  /\ handler[f].at = "frozen" => handler[f].of \in frozen
  /\ handler[f].at \in {"confirming", "handedOff"} =>
       fastTrack[f].state = "frozen" /\ fastTrack[f].of \in frozen

FrozenInv == \A f \in FastTracks : FreezeOK(f)

Settling == {"settleAutoResolved", "confirmSettlement"}

AfterTheHold == {"upload", "expireWindowAndAdvance", "decideManually"} \cup Settling

HeldStates == {"EVIDENCE_PENDING", "ADJUDICATING", "AUTO_RESOLVED", "UPHELD", "PARTIAL_UPHELD", "SETTLED"}

\* What the row says goes with what was posted and decided.
RowOK(c) ==
  /\ reserve[c].holds = IF kase[c].held THEN 1 ELSE 0
  /\ reserve[c].releases > 0 => kase[c].held
  /\ kase[c].state = "ABSENT" => ~kase[c].held
  /\ kase[c].state \in HeldStates => kase[c].held
  /\ decision[c].type # "NONE" => kase[c].held
  /\ kase[c].state = "AUTO_RESOLVED" => kase[c].outcome # "NONE"
  /\ kase[c].state = "UPHELD" => kase[c].outcome = "UPHOLD"
  /\ kase[c].state = "PARTIAL_UPHELD" => kase[c].outcome = "PARTIAL"

CheckedOK(c) ==
  confirmedBy[c] # None => decision[c].type # "NONE" /\ decision[c].by # confirmedBy[c]

FraudOK(c) ==
  kase[c].reason = "FRAUD" /\ decision[c].type = "AUTO" => kase[c].of \in frozen

PaidOK(c) ==
  c \notin overwritten =>
    IF kase[c].state = "SETTLED"
      THEN /\ reserve[c].releases = 1
           /\ reserve[c].toOriginator + reserve[c].toBeneficiary = Amount
           /\ reserve[c].toOriginator > 0 =>
                reserve[c].toOriginator = ShareOf(kase[c].outcome, kase[c].share)
      ELSE /\ reserve[c].releases = 0
           /\ reserve[c].toOriginator = 0
           /\ reserve[c].toBeneficiary = 0

\* What a worker that settles has read is still so, or the case has gone on.
StillSo(w) ==
  LET row == kase[worker[w].on]  seen == worker[w].seen IN
  \/ seen = copyOf(row)
  \/ row.state = "SETTLED"
  \/ row.state = "DENIED" /\ seen.state # "DENIED"

WorkerOK(w) ==
  LET k == worker[w] IN
  /\ k.at = "idle" => k.on = None /\ k.op = "none"
  /\ k.at # "idle" =>
       /\ k.on \in Cases
       /\ k.op \in Operations
       /\ k.op = "file" =>
            /\ k.at = "read" /\ kase[k.on].state = "ABSENT"
            /\ \A v \in Workers \ {w} : worker[v].on # k.on
       /\ k.op # "file" => kase[k.on].state # "ABSENT" /\ k.seen.state \in StartsIn(k.op)
       /\ k.op \in AfterTheHold => kase[k.on].held
       /\ k.at \in {"same", "checked"} => k.op \in AfterTheHold
       /\ k.at = "settled" => k.op \in Settling
       /\ k.at = "checked" /\ k.op = "upload" => k.seen.state = "EVIDENCE_PENDING"
       /\ k.op = "upload" => k.side \in Sides
       /\ k.op = "decideManually" => k.outcome # "NONE" /\ k.by # None
       /\ k.op = "settleAutoResolved" => k.seen.outcome # "NONE"
       /\ k.op = "confirmSettlement" =>
            k.by # None /\ decision[k.on].type # "NONE" /\ decision[k.on].by # k.by
       /\ k.op \in Settling /\ k.at # "settled" /\ k.on \notin overwritten =>
            /\ StillSo(w)
            /\ k.at = "same" => kase[k.on].state = "SETTLED"

IInv ==
  /\ TypeOK
  /\ FrozenInv
  /\ \A c \in Cases : RowOK(c) /\ CheckedOK(c) /\ FraudOK(c) /\ PaidOK(c)
  /\ \A w \in Workers : WorkerOK(w)

-----------------------------------------------------------------------------
(* The fast-track reversals.                                               *)

LEMMA FastTrackTypes ==
  ASSUME FTypeOK, FrozenInv, NEW f \in FastTracks,
         \/ \E p \in Payments : invoke(f, p)
         \/ callFreeze(f) \/ FreezeAnswered(f) \/ confirmReversal(f)
         \/ HandsOff(f) \/ Completes(f) \/ HandlerFails(f)
  PROVE  FTypeOK'
<1> USE DEF FTypeOK, Handler, FastTrackRow, STATES, PaymentStates
<1>1. ASSUME NEW p \in Payments, invoke(f, p) PROVE FTypeOK'
  BY <1>1 DEF invoke
<1>2. CASE callFreeze(f)
  <2>1. handler[f].of \in Payments
    BY <1>2 DEF callFreeze, FrozenInv, FreezeOK
  <2>2. PICK at \in {"frozen", "rejected", "timeout", "expired"} :
          handler' = [handler EXCEPT ![f].at = at]
    BY <1>2 DEF callFreeze, Goes
  <2> QED
    BY <1>2, <2>1, <2>2 DEF callFreeze
<1>3. CASE FreezeAnswered(f)
  BY <1>3 DEF FreezeAnswered, Idle
<1>4. CASE confirmReversal(f)
  BY <1>4 DEF confirmReversal
<1>5. CASE HandsOff(f)
  BY <1>5 DEF HandsOff, Reverses, Goes
<1>6. CASE Completes(f)
  BY <1>6 DEF Completes, Idle
<1>7. CASE HandlerFails(f)
  BY <1>7 DEF HandlerFails, Idle
<1> QED
  BY <1>1, <1>2, <1>3, <1>4, <1>5, <1>6, <1>7

LEMMA FastTrackKeeps ==
  ASSUME FTypeOK, FrozenInv, FNext
  PROVE  FTypeOK' /\ FrozenInv' /\ frozen \subseteq frozen'
<1>0. PICK f \in FastTracks :
         \/ \E p \in Payments : invoke(f, p)
         \/ callFreeze(f) \/ FreezeAnswered(f) \/ confirmReversal(f)
         \/ HandsOff(f) \/ Completes(f) \/ HandlerFails(f)
  BY DEF FNext
<1>1. FTypeOK'
  BY <1>0, FastTrackTypes
<1>t. fastTrack \in [FastTracks -> FastTrackRow] /\ handler \in [FastTracks -> Handler]
  BY DEF FTypeOK
<1>2. frozen \subseteq frozen'
  BY <1>0 DEF invoke, callFreeze, FreezeAnswered, confirmReversal, HandsOff, Completes, HandlerFails
<1>3. \A g \in FastTracks \ {f} : fastTrack'[g] = fastTrack[g] /\ handler'[g] = handler[g]
  BY <1>0, <1>t DEF invoke, callFreeze, FreezeAnswered, confirmReversal, HandsOff, Completes, HandlerFails, Goes
<1>4. FreezeOK(f)
  BY DEF FrozenInv
<1>5. FreezeOK(f)'
  <2>1. ASSUME NEW p \in Payments, invoke(f, p) PROVE FreezeOK(f)'
    BY <2>1, <1>4, <1>t DEF FreezeOK, invoke
  <2>2. CASE callFreeze(f)
    <3>1. fastTrack' = fastTrack /\ handler'[f].of = handler[f].of
      BY <2>2, <1>t DEF callFreeze, Goes, Handler
    <3>2. handler'[f].at \in {"frozen", "rejected", "timeout", "expired"}
      BY <2>2, <1>t DEF callFreeze, Goes, Handler
    <3>3. handler'[f].at = "frozen" => handler[f].of \in frozen'
      BY <2>2, <1>t DEF callFreeze, Goes, Handler
    <3> QED
      BY <2>2, <3>1, <3>2, <3>3, <1>4, <1>2 DEF callFreeze, FreezeOK
  <2>3. CASE FreezeAnswered(f)
    BY <2>3, <1>4, <1>t DEF FreezeOK, FreezeAnswered, Idle
  <2>4. CASE confirmReversal(f)
    BY <2>4, <1>4, <1>t DEF FreezeOK, confirmReversal
  <2>5. CASE HandsOff(f)
    BY <2>5, <1>4, <1>t DEF FreezeOK, HandsOff, Goes, Handler
  <2>6. CASE Completes(f)
    BY <2>6, <1>4, <1>t DEF FreezeOK, Completes, Idle, FastTrackRow
  <2>7. CASE HandlerFails(f)
    BY <2>7, <1>4, <1>t DEF FreezeOK, HandlerFails, Idle
  <2> QED
    BY <1>0, <2>1, <2>2, <2>3, <2>4, <2>5, <2>6, <2>7
<1>6. \A g \in FastTracks \ {f} : FreezeOK(g)'
  BY <1>2, <1>3 DEF FrozenInv, FreezeOK
<1> QED
  BY <1>1, <1>2, <1>5, <1>6 DEF FrozenInv

-----------------------------------------------------------------------------
(* Workers on a case: reading, and leaving without a write.                *)

LEMMA RowTypes ==
  /\ Absent \in Case
  /\ Resting \in Worker
  /\ \A row \in Case : copyOf(row) \in Copy
<1>1. 0 \in 0..Amount
  BY AmountAssumption
<1>2. Absent \in Case
  BY <1>1 DEF Absent, Case
<1>3. \A row \in Case : copyOf(row) \in Copy
  BY DEF copyOf, Copy, Case
<1>4. copyOf(Absent) \in Copy
  BY <1>2, <1>3
<1> QED
  BY <1>1, <1>2, <1>3, <1>4 DEF Resting, Worker

\* What a transaction starts with.
LEMMA RequestsAre ==
  ASSUME TypeOK, NEW c \in Cases, NEW op \in Operations \ {"file"}, NEW r \in Requests(op, c)
  PROVE  /\ r \in Worker
         /\ r.op = op /\ r.at = "read" /\ r.on = c /\ r.seen = copyOf(kase[c])
         /\ op = "upload" => r.side \in Sides
         /\ op = "decideManually" => r.outcome # "NONE" /\ r.by # None
         /\ op = "confirmSettlement" => r.by # None /\ MayConfirm(c, r.by)
<1>1. copyOf(kase[c]) \in Copy
  BY RowTypes DEF TypeOK
<1> DEFINE q == Request(op, c)
<1>3. q.op = op /\ q.at = "read" /\ q.on = c /\ q.seen = copyOf(kase[c])
  BY DEF Request, Resting
<1>4. q \in Worker
  <2>1. Resting \in Worker
    BY RowTypes
  <2> QED
    BY <1>1, <2>1 DEF Request, Worker
<1> HIDE DEF q
<1>5. CASE op = "processFiled"
  <2>1. PICK ok \in {FALSE, validate(c)} : r = [q EXCEPT !.ok = ok]
    BY <1>5 DEF Requests, q
  <2>2. ok \in BOOLEAN
    BY <2>1 DEF validate
  <2> QED
    BY <1>3, <1>4, <1>5, <2>1, <2>2 DEF Worker
<1>6. CASE op = "upload"
  <2>1. PICK side \in Sides : r = [q EXCEPT !.side = side]
    BY <1>6 DEF Requests, q
  <2> QED
    BY <1>3, <1>4, <1>6, <2>1 DEF Worker
<1>7. CASE op = "decideManually"
  <2>1. PICK d \in Users \X OUTCOMES \X (0..Amount) :
          r = [q EXCEPT !.by = d[1], !.outcome = d[2], !.share = d[3]]
    BY <1>7 DEF Requests, q
  <2>2. d[1] \in Users /\ d[2] \in OUTCOMES /\ d[3] \in 0..Amount
    BY <2>1
  <2> QED
    BY <1>3, <1>4, <1>7, <2>1, <2>2, NoCase DEF Worker, OUTCOMES
<1>8. CASE op = "confirmSettlement"
  <2>1. PICK user \in Users : r = [q EXCEPT !.by = user] /\ MayConfirm(c, user)
    BY <1>8 DEF Requests, q
  <2> QED
    BY <1>3, <1>4, <1>8, <2>1, NoCase DEF Worker
<1>9. CASE op \in {"expireWindowAndAdvance", "operatorKill", "settleAutoResolved"}
  <2>1. r = q
    BY <1>9 DEF Requests, q
  <2> QED
    BY <1>3, <1>4, <1>9, <2>1
<1> QED
  BY <1>5, <1>6, <1>7, <1>8, <1>9 DEF Operations

\* A worker that has not written, next to the others.
LEMMA ReadersStay ==
  ASSUME UNCHANGED <<kase, decision, overwritten>>, NEW v \in Workers, WorkerOK(v),
         worker'[v] = worker[v],
         NEW w \in Workers, v # w,
         \A u \in Workers \ {w} : worker'[u] = worker[u],
         \/ worker'[w].on \in {worker[w].on, None}
         \/ worker[v].op = "file" /\ worker[v].at # "idle" => worker'[w].on # worker[v].on
  PROVE  WorkerOK(v)'
<1>1. worker[v].at # "idle" /\ worker[v].op = "file" =>
        \A u \in Workers \ {v} : worker'[u].on # worker[v].on
  BY NoCase DEF WorkerOK
<1>2. StillSo(v)' <=> StillSo(v)
  BY DEF StillSo
<1> QED
  BY <1>1, <1>2 DEF WorkerOK

LEMMA RestingIsOK ==
  ASSUME NEW w \in Workers, worker'[w] = Resting
  PROVE  WorkerOK(w)'
  BY DEF WorkerOK, Resting

LEMMA RowsStay ==
  ASSUME IInv, UNCHANGED <<kase, decision, reserve, overwritten, confirmedBy>>, frozen \subseteq frozen'
  PROVE  \A c \in Cases : RowOK(c)' /\ CheckedOK(c)' /\ FraudOK(c)' /\ PaidOK(c)'
  BY DEF IInv, RowOK, CheckedOK, FraudOK, PaidOK

LEMMA StartingKeeps ==
  ASSUME IInv, NEW w \in Workers, NEW c \in Cases, NEW op \in Operations \ {"file"}, Starts(w, op, c)
  PROVE  TypeOK' /\ \A v \in Workers : WorkerOK(v)'
<1>0. PICK r \in Requests(op, c) : worker' = [worker EXCEPT ![w] = r]
  BY DEF Starts
<1>1. /\ kase[c].state \in StartsIn(op) /\ worker[w].at = "idle"
      /\ UNCHANGED <<kase, filings, evidence, decision, reserve, overwritten, confirmedBy, fvars>>
  BY DEF Starts, UnchangedRows
<1>2. /\ r \in Worker
      /\ r.op = op /\ r.at = "read" /\ r.on = c /\ r.seen = copyOf(kase[c])
      /\ op = "upload" => r.side \in Sides
      /\ op = "decideManually" => r.outcome # "NONE" /\ r.by # None
      /\ op = "confirmSettlement" => r.by # None /\ MayConfirm(c, r.by)
  BY RequestsAre DEF IInv
<1>3. worker \in [Workers -> Worker]
  BY DEF IInv, TypeOK
<1>4. TypeOK'
  BY <1>0, <1>1, <1>2 DEF IInv, TypeOK, FTypeOK, fvars
<1>5. worker'[w] = r /\ \A u \in Workers \ {w} : worker'[u] = worker[u]
  BY <1>0, <1>3
<1>6. kase[c].state # "ABSENT"
  BY <1>1 DEF StartsIn, CASE_STATES, TERMINAL_STATES, Operations
<1>7. WorkerOK(w)'
  <2>1. r.seen.state = kase[c].state /\ r.seen.outcome = kase[c].outcome
    BY <1>2 DEF copyOf
  <2>2. op \in AfterTheHold => kase[c].held
    <3>1. RowOK(c)
      BY DEF IInv
    <3>2. CASE op = "confirmSettlement"
      BY <1>2, <3>1, <3>2 DEF RowOK, MayConfirm
    <3>3. CASE op \in {"upload", "expireWindowAndAdvance", "decideManually", "settleAutoResolved"}
      BY <1>1, <3>1, <3>3 DEF RowOK, HeldStates, StartsIn
    <3> QED
      BY <3>2, <3>3 DEF AfterTheHold, Settling
  <2>3. op = "settleAutoResolved" => kase[c].outcome # "NONE"
    BY <1>1 DEF IInv, RowOK, StartsIn
  <2>4. op = "confirmSettlement" => decision[c].type # "NONE" /\ decision[c].by # r.by
    BY <1>2 DEF MayConfirm
  <2>5. StillSo(w)'
    BY <1>1, <1>2, <1>5 DEF StillSo
  <2> QED
    BY <1>1, <1>2, <1>5, <1>6, <2>1, <2>2, <2>3, <2>4, <2>5 DEF WorkerOK
<1>8. ASSUME NEW v \in Workers, v # w PROVE WorkerOK(v)'
  <2>1. WorkerOK(v) /\ worker'[v] = worker[v]
    BY <1>5, <1>8 DEF IInv
  <2>2. worker[v].op = "file" /\ worker[v].at # "idle" => worker'[w].on # worker[v].on
    BY <2>1, <1>2, <1>5, <1>6 DEF WorkerOK
  <2> QED
    BY <1>1, <1>5, <1>8, <2>1, <2>2, ReadersStay
<1> QED
  BY <1>4, <1>7, <1>8

LEMMA FilingStarts ==
  ASSUME IInv, NEW w \in Workers, NEW c \in Cases, StartsFiling(w, c)
  PROVE  TypeOK' /\ \A v \in Workers : WorkerOK(v)'
<1>0. PICK ok \in {FALSE, Len(filings) < FilingLimit} :
        worker' = [worker EXCEPT ![w] = [Request("file", c) EXCEPT !.ok = ok]]
  BY DEF StartsFiling
<1>1. /\ kase[c].state = "ABSENT" /\ worker[w].at = "idle" /\ \A v \in Workers : worker[v].on # c
      /\ UNCHANGED <<kase, filings, evidence, decision, reserve, overwritten, confirmedBy, fvars>>
  BY DEF StartsFiling, UnchangedRows
<1> DEFINE r == [Request("file", c) EXCEPT !.ok = ok]
<1>2. r \in Worker /\ r.op = "file" /\ r.at = "read" /\ r.on = c
  <2>1. ok \in BOOLEAN
    <3>1. (Len(filings) < FilingLimit) \in BOOLEAN
      OBVIOUS
    <3> QED
      BY <1>0, <3>1
  <2>2. Resting \in Worker /\ copyOf(kase[c]) \in Copy
    BY RowTypes DEF IInv, TypeOK
  <2> QED
    BY <2>1, <2>2 DEF Request, Worker, Operations
<1>3. worker \in [Workers -> Worker] /\ worker' = [worker EXCEPT ![w] = r]
  BY <1>0 DEF IInv, TypeOK
<1> HIDE DEF r
<1>4. TypeOK'
  BY <1>1, <1>2, <1>3 DEF IInv, TypeOK, FTypeOK, fvars
<1>5. worker'[w] = r /\ \A u \in Workers \ {w} : worker'[u] = worker[u]
  BY <1>3
<1>6. WorkerOK(w)'
  BY <1>1, <1>2, <1>5 DEF WorkerOK, Operations, AfterTheHold, Settling
<1>7. ASSUME NEW v \in Workers, v # w PROVE WorkerOK(v)'
  <2>1. WorkerOK(v) /\ worker'[v] = worker[v] /\ worker'[w].on # worker[v].on
    BY <1>1, <1>2, <1>5, <1>7 DEF IInv
  <2> QED
    BY <1>1, <1>5, <1>7, <2>1, ReadersStay
<1> QED
  BY <1>4, <1>6, <1>7

LEMMA TransitionKeeps ==
  ASSUME IInv, NEW w \in Workers, transition(w)
  PROVE  TypeOK' /\ \A v \in Workers : WorkerOK(v)'
<1>1. /\ worker[w].at = "read" /\ worker[w].op \notin {"file", "processFiled", "operatorKill"}
      /\ UNCHANGED <<kase, filings, evidence, decision, reserve, overwritten, confirmedBy, fvars>>
  BY DEF transition, UnchangedRows
<1>2. worker \in [Workers -> Worker] /\ Resting \in Worker
  BY RowTypes DEF IInv, TypeOK
<1>3. WorkerOK(w)
  BY DEF IInv
<1>4. worker[w].op \in AfterTheHold
  BY <1>1, <1>3 DEF WorkerOK, Operations, AfterTheHold, Settling
<1>5. PICK r : worker' = [worker EXCEPT ![w] = r] /\ r \in {[worker[w] EXCEPT !.at = "same"],
                 [worker[w] EXCEPT !.at = "checked"], Resting}
  BY DEF transition
<1>6. r \in Worker
  BY <1>2, <1>5 DEF Worker
<1>7. TypeOK'
  BY <1>1, <1>5, <1>6 DEF IInv, TypeOK, FTypeOK, fvars
<1>8. worker'[w] = r /\ \A u \in Workers \ {w} : worker'[u] = worker[u]
  BY <1>2, <1>5
<1>9. WorkerOK(w)'
  <2>1. CASE r = Resting
    BY <1>8, <2>1, RestingIsOK
  <2>2. CASE r # Resting
    <3>1. PICK at \in {"same", "checked"} : r = [worker[w] EXCEPT !.at = at]
      BY <1>5, <2>2
    <3>2. /\ r.at = at /\ r.op = worker[w].op /\ r.on = worker[w].on /\ r.seen = worker[w].seen
          /\ r.outcome = worker[w].outcome /\ r.by = worker[w].by /\ r.side = worker[w].side
      BY <1>2, <3>1 DEF Worker
    <3>3. at = "checked" /\ worker[w].op = "upload" => worker[w].seen.state = "EVIDENCE_PENDING"
      BY <1>2, <1>8, <2>2, <3>2 DEF transition, NeedsTransition, Worker
    <3>4. at = "same" /\ worker[w].op \in Settling => kase[worker[w].on].state = "SETTLED"
      BY <1>2, <1>8, <2>2, <3>2 DEF transition, NeedsTransition, Target, Settling, Worker
    <3>5. StillSo(w)' <=> StillSo(w)
      BY <1>1, <1>8, <3>2 DEF StillSo
    <3> QED
      BY <1>1, <1>3, <1>4, <1>8, <3>2, <3>3, <3>4, <3>5 DEF WorkerOK, AfterTheHold, Settling
  <2> QED
    BY <2>1, <2>2
<1>10. ASSUME NEW v \in Workers, v # w PROVE WorkerOK(v)'
  <2>1. WorkerOK(v) /\ worker'[v] = worker[v]
    BY <1>8, <1>10 DEF IInv
  <2>2. worker'[w].on \in {worker[w].on, None}
    BY <1>2, <1>5, <1>8 DEF Resting, Worker
  <2> QED
    BY <1>1, <1>8, <1>10, <2>1, <2>2, ReadersStay
<1> QED
  BY <1>7, <1>9, <1>10

\* Leaving with nothing written, or after the settlement.
LEMMA LeavingKeeps ==
  ASSUME IInv, NEW w \in Workers, InitiatesReversal(w) \/ WorkerFails(w)
  PROVE  TypeOK' /\ \A v \in Workers : WorkerOK(v)'
<1>1. UNCHANGED <<kase, filings, evidence, decision, reserve, overwritten, confirmedBy,
                  fastTrack, handler, frozen>> /\ Leaves(w)
  BY DEF InitiatesReversal, WorkerFails, UnchangedRows, fvars
<1>2. worker \in [Workers -> Worker] /\ Resting \in Worker
  BY RowTypes DEF IInv, TypeOK
<1>3. payment' \in [Payments -> PaymentStates]
  BY DEF InitiatesReversal, WorkerFails, UnchangedRows, fvars, Reverses, IInv, TypeOK, FTypeOK, PaymentStates
<1>4. TypeOK'
  BY <1>1, <1>2, <1>3 DEF IInv, TypeOK, FTypeOK, Leaves
<1>5. worker'[w] = Resting /\ \A u \in Workers \ {w} : worker'[u] = worker[u]
  BY <1>1, <1>2 DEF Leaves
<1>6. WorkerOK(w)'
  BY <1>5, RestingIsOK
<1>7. ASSUME NEW v \in Workers, v # w PROVE WorkerOK(v)'
  <2>1. WorkerOK(v) /\ worker'[v] = worker[v] /\ worker'[w].on = None
    BY <1>5, <1>7 DEF IInv, Resting
  <2> QED
    BY <1>1, <1>5, <1>7, <2>1, ReadersStay
<1> QED
  BY <1>4, <1>6, <1>7

-----------------------------------------------------------------------------
(* Workers on a case: the write, with the commit.                          *)

\* Where a row may go while no handler writes over a state it has not read.
Onward(from, to) ==
  /\ from # "SETTLED"
  /\ \/ to = "SETTLED"
     \/ to = "DENIED" /\ from # "DENIED"
     \/ from \notin {"AUTO_RESOLVED", "UPHELD", "PARTIAL_UPHELD", "DENIED"}

\* What the write of a worker leaves to the others.
Wrote(w, c) ==
  /\ \A u \in Workers \ {w} : worker'[u] = worker[u]
  /\ worker'[w].on \in {None, c}
  /\ overwritten \subseteq overwritten' /\ overwritten' \subseteq overwritten \cup {c}
  /\ \A d \in Cases \ {c} : /\ kase'[d] = kase[d] /\ decision'[d] = decision[d]
                            /\ reserve'[d] = reserve[d] /\ confirmedBy'[d] = confirmedBy[d]
  /\ kase'[c].state # "ABSENT"
  /\ kase[c].held => kase'[c].held
  /\ decision[c].type # "NONE" => decision'[c] = decision[c]
  /\ \/ c \in overwritten'
     \/ copyOf(kase'[c]) = copyOf(kase[c])
     \/ Onward(kase[c].state, kase'[c].state)
  /\ UNCHANGED fvars

LEMMA OthersStay ==
  ASSUME NEW c \in Cases, NEW w \in Workers, NEW v \in Workers, v # w,
         worker[w].on = c, Wrote(w, c), WorkerOK(v)
  PROVE  WorkerOK(v)'
<1>1. worker'[v] = worker[v]
  BY DEF Wrote
<1>2. SUFFICES ASSUME worker[v].at # "idle" PROVE WorkerOK(v)'
  BY <1>1 DEF WorkerOK
<1>3. PICK d \in Cases : worker[v].on = d
  BY <1>2 DEF WorkerOK
<1>4. CASE d # c
  <2>1. kase'[d] = kase[d] /\ decision'[d] = decision[d] /\ (d \in overwritten' <=> d \in overwritten)
    BY <1>4 DEF Wrote
  <2>2. worker[v].op = "file" => \A u \in Workers \ {v} : worker'[u].on # d
    BY <1>2, <1>3, <1>4, NoCase DEF WorkerOK, Wrote
  <2>3. StillSo(v)' <=> StillSo(v)
    BY <1>1, <1>3, <2>1 DEF StillSo
  <2> QED
    BY <1>1, <1>2, <1>3, <2>1, <2>2, <2>3 DEF WorkerOK
<1>5. CASE d = c
  <2>1. worker[v].op # "file"
    BY <1>2, <1>3, <1>5 DEF WorkerOK
  <2>2. kase'[c].state # "ABSENT"
    BY DEF Wrote
  <2>3. ASSUME worker[v].op \in Settling, worker[v].at # "settled", c \notin overwritten'
        PROVE  StillSo(v)' /\ (worker[v].at = "same" => kase'[c].state = "SETTLED")
    <3>1. StillSo(v) /\ (worker[v].at = "same" => kase[c].state = "SETTLED")
      BY <1>2, <1>3, <1>5, <2>3 DEF WorkerOK, Wrote
    <3>2. worker[v].seen.state \in {"AUTO_RESOLVED", "UPHELD", "PARTIAL_UPHELD", "DENIED"}
      BY <1>2, <2>1, <2>3 DEF WorkerOK, StartsIn, Settling
    <3>3. CASE copyOf(kase'[c]) = copyOf(kase[c])
      <4>1. kase'[c].state = kase[c].state
        BY <3>3 DEF copyOf
      <4> QED
        BY <1>1, <1>3, <1>5, <3>1, <3>3, <4>1 DEF StillSo
    <3>4. CASE Onward(kase[c].state, kase'[c].state)
      <4>1. worker[v].seen = copyOf(kase[c]) => worker[v].seen.state = kase[c].state
        BY DEF copyOf
      <4> QED
        BY <1>1, <1>3, <1>5, <3>1, <3>2, <3>4, <4>1 DEF StillSo, Onward
    <3> QED
      BY <2>3, <3>3, <3>4 DEF Wrote
  <2>4. kase[c].held => kase'[c].held
    BY DEF Wrote
  <2>5. decision[c].type # "NONE" => decision'[c] = decision[c]
    BY DEF Wrote
  <2> QED
    BY <1>1, <1>2, <1>3, <1>5, <2>1, <2>2, <2>3, <2>4, <2>5 DEF WorkerOK
<1> QED
  BY <1>4, <1>5

CaseOK(c) == RowOK(c) /\ CheckedOK(c) /\ FraudOK(c) /\ PaidOK(c)

Written(w, c) == TypeOK' /\ Wrote(w, c) /\ CaseOK(c)' /\ WorkerOK(w)'

LEMMA WrittenKeeps ==
  ASSUME IInv, NEW w \in Workers, NEW c \in Cases, worker[w].on = c, Written(w, c)
  PROVE  IInv'
<1>1. \A v \in Workers : WorkerOK(v)'
  BY OthersStay DEF IInv, Written
<1>2. ASSUME NEW d \in Cases, d # c PROVE CaseOK(d)'
  BY <1>2 DEF IInv, CaseOK, RowOK, CheckedOK, FraudOK, PaidOK, Written, Wrote, fvars
<1>3. FrozenInv'
  BY DEF IInv, FrozenInv, FreezeOK, Written, Wrote, fvars
<1> QED
  BY <1>1, <1>2, <1>3 DEF IInv, Written, CaseOK

LEMMA Noted ==
  ASSUME NEW w, NEW c, worker[w].on = c, Notes(w)
  PROVE  /\ overwritten \subseteq overwritten' /\ overwritten' \subseteq overwritten \cup {c}
         /\ c \notin overwritten' => c \notin overwritten /\ kase[c].state = worker[w].seen.state
BY DEF Notes

LEMMA Left ==
  ASSUME TypeOK, NEW w \in Workers, Leaves(w)
  PROVE  /\ worker' \in [Workers -> Worker] /\ worker'[w].on = None /\ WorkerOK(w)'
         /\ \A u \in Workers \ {w} : worker'[u] = worker[u]
<1>1. worker' \in [Workers -> Worker] /\ worker'[w] = Resting
  BY RowTypes DEF Leaves, TypeOK
<1> QED
  BY <1>1, RestingIsOK DEF Leaves, TypeOK, Resting

LEMMA FileKeeps ==
  ASSUME IInv, NEW w \in Workers, NEW c \in Cases, worker[w].on = c, file(w)
  PROVE  Written(w, c)
<1>1. PICK p \in Payments, reason \in Reasons, state \in {"FILED", "REJECTED"} :
        kase' = [kase EXCEPT ![c] = [Absent EXCEPT !.state = state, !.of = p, !.reason = reason]]
  BY DEF file, RateLimits, WindowExpired, Files, Inserts
<1>2. filings' = Append(filings, c) /\ UNCHANGED <<evidence, decision, reserve, overwritten, confirmedBy, fvars>>
  BY DEF file, RateLimits, WindowExpired, Files, Inserts
<1>3. kase[c].state = "ABSENT"
  BY NoCase DEF IInv, WorkerOK, file
<1>4. RowOK(c) /\ CheckedOK(c) /\ PaidOK(c) /\ TypeOK
  BY DEF IInv
<1>5. kase[c] \in Case /\ kase \in [Cases -> Case] /\ filings \in Seq(Cases)
  BY <1>4 DEF TypeOK
<1> DEFINE row == [Absent EXCEPT !.state = state, !.of = p, !.reason = reason]
<1>6. /\ row \in Case /\ row.state = state /\ ~row.held /\ row.outcome = "NONE"
  BY RowTypes DEF Absent, Case, CASE_STATES
<1> HIDE DEF row
<1>7. kase' = [kase EXCEPT ![c] = row] /\ kase'[c] = row
  BY <1>1, <1>5 DEF row
<1>8. worker' \in [Workers -> Worker] /\ worker'[w].on = None /\ WorkerOK(w)'
      /\ \A u \in Workers \ {w} : worker'[u] = worker[u]
  BY <1>4, Left DEF file
<1>9. TypeOK'
  <2>1. filings' \in Seq(Cases)
    BY <1>2, <1>5
  <2>2. kase' \in [Cases -> Case]
    BY <1>5, <1>6, <1>7
  <2> QED
    BY <1>2, <1>4, <1>8, <2>1, <2>2 DEF TypeOK, FTypeOK, fvars
<1>10. Wrote(w, c)
  BY <1>2, <1>3, <1>4, <1>5, <1>6, <1>7, <1>8 DEF Wrote, Onward, RowOK
<1>11. CaseOK(c)'
  <2>1. RowOK(c)'
    BY <1>2, <1>3, <1>4, <1>6, <1>7 DEF RowOK, HeldStates
  <2>2. CheckedOK(c)'
    BY <1>2, <1>4 DEF CheckedOK
  <2>3. FraudOK(c)'
    BY <1>2, <1>3, <1>4 DEF RowOK, FraudOK
  <2>4. PaidOK(c)'
    BY <1>2, <1>3, <1>4, <1>6, <1>7 DEF PaidOK
  <2> QED
    BY <2>1, <2>2, <2>3, <2>4 DEF CaseOK
<1> QED
  BY <1>8, <1>9, <1>10, <1>11 DEF Written

\* A filing refused at the second look.
LEMMA RejectsKeeps ==
  ASSUME IInv, NEW w \in Workers, NEW c \in Cases, worker[w].on = c, RejectsFiling(w)
  PROVE  Written(w, c)
<1>1. /\ kase' = [kase EXCEPT ![c].state = "REJECTED"] /\ Notes(w) /\ Leaves(w)
      /\ UNCHANGED <<filings, evidence, decision, reserve, confirmedBy, fvars>>
      /\ worker[w].op = "processFiled"
  BY DEF RejectsFiling
<1>2. RowOK(c) /\ CheckedOK(c) /\ FraudOK(c) /\ PaidOK(c) /\ TypeOK
  BY DEF IInv
<1>3. kase[c] \in Case /\ kase \in [Cases -> Case]
  BY <1>2 DEF TypeOK
<1>4. worker[w].seen.state = "FILED"
  BY <1>1, NoCase DEF IInv, WorkerOK, StartsIn
<1> DEFINE row == [kase[c] EXCEPT !.state = "REJECTED"]
<1>5. /\ row \in Case /\ row.state = "REJECTED" /\ row.held = kase[c].held
      /\ row.of = kase[c].of /\ row.reason = kase[c].reason
  BY <1>3 DEF Case, CASE_STATES
<1>6. kase' = [kase EXCEPT ![c] = row]
  BY <1>1
<1> HIDE DEF row
<1>7. kase'[c] = row /\ kase' \in [Cases -> Case] /\ \A d \in Cases \ {c} : kase'[d] = kase[d]
  BY <1>3, <1>5, <1>6
<1>8. worker' \in [Workers -> Worker] /\ worker'[w].on = None /\ WorkerOK(w)'
      /\ \A u \in Workers \ {w} : worker'[u] = worker[u]
  BY <1>1, <1>2, Left
<1>9. /\ overwritten \subseteq overwritten' /\ overwritten' \subseteq overwritten \cup {c}
      /\ c \notin overwritten' => c \notin overwritten /\ kase[c].state = "FILED"
  BY <1>1, <1>4, Noted
<1>10. TypeOK'
  BY <1>1, <1>2, <1>7, <1>8, <1>9 DEF TypeOK, FTypeOK, fvars
<1>11. Wrote(w, c)
  BY <1>1, <1>5, <1>7, <1>8, <1>9 DEF Wrote, Onward
<1>12. CaseOK(c)'
  <2>1. RowOK(c)'
    BY <1>1, <1>2, <1>5, <1>7 DEF RowOK, HeldStates
  <2>2. CheckedOK(c)'
    BY <1>1, <1>2 DEF CheckedOK
  <2>3. FraudOK(c)'
    BY <1>1, <1>2, <1>5, <1>7 DEF FraudOK, fvars
  <2>4. PaidOK(c)'
    BY <1>1, <1>2, <1>5, <1>7, <1>9 DEF PaidOK
  <2> QED
    BY <2>1, <2>2, <2>3, <2>4 DEF CaseOK
<1> QED
  BY <1>8, <1>10, <1>11, <1>12 DEF Written

\* A filing that passes the second look.
LEMMA AcceptKeeps ==
  ASSUME IInv, NEW w \in Workers, NEW c \in Cases, worker[w].on = c, processFiled(w)
  PROVE  Written(w, c)
<1>1. /\ holdAmount(c) /\ Notes(w) /\ Leaves(w)
      /\ UNCHANGED <<filings, evidence, confirmedBy, fvars>>
      /\ worker[w].op = "processFiled"
  BY DEF processFiled
<1>2. RowOK(c) /\ CheckedOK(c) /\ FraudOK(c) /\ PaidOK(c) /\ TypeOK /\ FrozenInv
  BY DEF IInv
<1>3. /\ kase[c] \in Case /\ kase \in [Cases -> Case] /\ reserve \in [Cases -> Reserve]
      /\ reserve[c] \in Reserve /\ decision \in [Cases -> Decision]
  BY <1>2 DEF TypeOK
<1>4. worker[w].seen.state = "FILED"
  BY <1>1, NoCase DEF IInv, WorkerOK, StartsIn
<1>5. PICK found \in Findings(c) :
        IF found = "NONE" THEN AwaitsEvidence(c) ELSE AutoResolves(c, found)
  BY DEF processFiled
<1>6. /\ found \in {"UPHOLD", "REJECT", "NONE"}
      /\ kase[c].reason = "FRAUD" /\ found # "NONE" => kase[c].of \in frozen
  <2>1. kase[c].reason = "FRAUD" /\ found # "NONE" => kase[c].of \in frozen
    BY <1>2 DEF Findings, rFraud, FrozenInv, FreezeOK
  <2> QED
    BY <2>1 DEF Findings, rFraud, rDuplicate, rTechnical, rWrongBeneficiary
<1>7. PICK row \in Case :
        /\ kase' = [kase EXCEPT ![c] = row]
        /\ row.state \in {"EVIDENCE_PENDING", "AUTO_RESOLVED"}
        /\ row.held /\ row.of = kase[c].of /\ row.reason = kase[c].reason
        /\ row.state = "AUTO_RESOLVED" => row.outcome # "NONE"
  <2>1. Accepted(c) \in Case /\ Accepted(c).held /\ Accepted(c).of = kase[c].of
        /\ Accepted(c).reason = kase[c].reason
    BY <1>3 DEF Accepted, Case, CASE_STATES
  <2>2. CASE found = "NONE"
    <3> DEFINE r == [Accepted(c) EXCEPT !.state = "EVIDENCE_PENDING"]
    <3>1. /\ r \in Case /\ r.state = "EVIDENCE_PENDING" /\ r.held
          /\ r.of = kase[c].of /\ r.reason = kase[c].reason
      BY <2>1 DEF Case, CASE_STATES
    <3>2. kase' = [kase EXCEPT ![c] = r]
      BY <1>5, <2>2 DEF AwaitsEvidence
    <3> HIDE DEF r
    <3> QED
      BY <3>1, <3>2
  <2>3. CASE found # "NONE"
    <3> DEFINE r == [Accepted(c) EXCEPT !.state = "AUTO_RESOLVED", !.outcome = found, !.share = 0]
    <3>1. /\ r \in Case /\ r.state = "AUTO_RESOLVED" /\ r.held /\ r.outcome # "NONE"
          /\ r.of = kase[c].of /\ r.reason = kase[c].reason
      <4>1. 0 \in 0..Amount /\ found \in OUTCOMES /\ found # "NONE"
        BY <1>6, <2>3, AmountAssumption DEF OUTCOMES
      <4> QED
        BY <2>1, <4>1 DEF Case, CASE_STATES
    <3>2. kase' = [kase EXCEPT ![c] = r]
      BY <1>5, <2>3 DEF AutoResolves
    <3> HIDE DEF r
    <3> QED
      BY <3>1, <3>2
  <2> QED
    BY <2>2, <2>3
<1>8. /\ decision' \in [Cases -> Decision]
      /\ \A d \in Cases \ {c} : decision'[d] = decision[d]
      /\ decision[c].type # "NONE" => decision'[c] = decision[c]
      /\ decision'[c].type = "AUTO" => decision[c].type = "AUTO" \/ found # "NONE"
  BY <1>3, <1>5 DEF AwaitsEvidence, AutoResolves, Decision
<1>9. /\ reserve' \in [Cases -> Reserve]
      /\ \A d \in Cases \ {c} : reserve'[d] = reserve[d]
      /\ reserve'[c].holds = 1
      /\ reserve'[c].releases = reserve[c].releases
      /\ reserve'[c].toOriginator = reserve[c].toOriginator
      /\ reserve'[c].toBeneficiary = reserve[c].toBeneficiary
  BY <1>1, <1>2, <1>3 DEF holdAmount, RowOK, Reserve
<1>10. kase'[c] = row /\ kase' \in [Cases -> Case] /\ \A d \in Cases \ {c} : kase'[d] = kase[d]
  BY <1>3, <1>7
<1>11. worker' \in [Workers -> Worker] /\ worker'[w].on = None /\ WorkerOK(w)'
       /\ \A u \in Workers \ {w} : worker'[u] = worker[u]
  BY <1>1, <1>2, Left
<1>12. /\ overwritten \subseteq overwritten' /\ overwritten' \subseteq overwritten \cup {c}
       /\ c \notin overwritten' => c \notin overwritten /\ kase[c].state = "FILED"
  BY <1>1, <1>4, Noted
<1>13. TypeOK'
  BY <1>1, <1>2, <1>8, <1>9, <1>10, <1>11, <1>12 DEF TypeOK, FTypeOK, fvars
<1>14. Wrote(w, c)
  BY <1>1, <1>7, <1>8, <1>9, <1>10, <1>11, <1>12 DEF Wrote, Onward
<1>15. CaseOK(c)'
  <2>1. RowOK(c)'
    BY <1>7, <1>9, <1>10 DEF RowOK
  <2>2. CheckedOK(c)'
    BY <1>1, <1>2, <1>8 DEF CheckedOK
  <2>3. FraudOK(c)'
    BY <1>1, <1>2, <1>6, <1>7, <1>8, <1>10 DEF FraudOK, fvars
  <2>4. PaidOK(c)'
    BY <1>2, <1>7, <1>9, <1>10, <1>12 DEF PaidOK
  <2> QED
    BY <2>1, <2>2, <2>3, <2>4 DEF CaseOK
<1> QED
  BY <1>11, <1>13, <1>14, <1>15 DEF Written

\* The writes that leave the reserve and the decisions as they are, and a
\* case that is held: evidence, the end of the window, a kill.
LEMMA PlainWrite ==
  ASSUME IInv, NEW w \in Workers, NEW c \in Cases, worker[w].on = c, Leaves(w),
         NEW to \in {"ADJUDICATING", "DENIED"},
         kase[c].state # "ABSENT",
         \/ /\ kase' = [kase EXCEPT ![c] = [kase[c] EXCEPT !.state = to]] /\ Notes(w)
            /\ to = "ADJUDICATING" => kase[c].held /\ worker[w].seen.state = "EVIDENCE_PENDING"
            /\ to = "DENIED" => worker[w].seen.state # "SETTLED"
         \/ UNCHANGED <<kase, overwritten>>,
         evidence' \in [Cases -> SUBSET Sides],
         UNCHANGED <<filings, decision, reserve, confirmedBy, fvars>>
  PROVE  Written(w, c)
<1>1. RowOK(c) /\ CheckedOK(c) /\ FraudOK(c) /\ PaidOK(c) /\ TypeOK
  BY DEF IInv
<1>2. kase[c] \in Case /\ kase \in [Cases -> Case]
  BY <1>1 DEF TypeOK
<1>3. worker' \in [Workers -> Worker] /\ worker'[w].on = None /\ WorkerOK(w)'
      /\ \A u \in Workers \ {w} : worker'[u] = worker[u]
  BY <1>1, Left
<1>4. CASE UNCHANGED <<kase, overwritten>>
  <2>1. TypeOK'
    BY <1>1, <1>3, <1>4 DEF TypeOK, FTypeOK, fvars
  <2>2. Wrote(w, c)
    BY <1>3, <1>4 DEF Wrote
  <2>3. CaseOK(c)'
    BY <1>1, <1>4 DEF CaseOK, RowOK, CheckedOK, FraudOK, PaidOK, fvars
  <2> QED
    BY <1>3, <2>1, <2>2, <2>3 DEF Written
<1>5. CASE /\ kase' = [kase EXCEPT ![c] = [kase[c] EXCEPT !.state = to]] /\ Notes(w)
           /\ to = "ADJUDICATING" => kase[c].held /\ worker[w].seen.state = "EVIDENCE_PENDING"
           /\ to = "DENIED" => worker[w].seen.state # "SETTLED"
  <2> DEFINE row == [kase[c] EXCEPT !.state = to]
  <2>1. /\ row \in Case /\ row.state = to /\ row.held = kase[c].held
        /\ row.of = kase[c].of /\ row.reason = kase[c].reason
        /\ kase[c].state = to => copyOf(row) = copyOf(kase[c])
    BY <1>2 DEF Case, CASE_STATES, copyOf
  <2>2. kase' = [kase EXCEPT ![c] = row]
    BY <1>5
  <2> HIDE DEF row
  <2>3. kase'[c] = row /\ kase' \in [Cases -> Case] /\ \A d \in Cases \ {c} : kase'[d] = kase[d]
    BY <1>2, <2>1, <2>2
  <2>4. /\ overwritten \subseteq overwritten' /\ overwritten' \subseteq overwritten \cup {c}
        /\ c \notin overwritten' => c \notin overwritten /\ kase[c].state = worker[w].seen.state
    BY <1>5, Noted
  <2>5. TypeOK'
    BY <1>1, <1>3, <2>3, <2>4 DEF TypeOK, FTypeOK, fvars
  <2>6. Wrote(w, c)
    BY <1>3, <2>1, <2>3, <2>4 DEF Wrote, Onward
  <2>7. RowOK(c)'
    BY <1>1, <2>1, <2>3 DEF RowOK, HeldStates
  <2>8. CheckedOK(c)' /\ FraudOK(c)'
    BY <1>1, <2>1, <2>3 DEF CheckedOK, FraudOK, fvars
  <2>9. PaidOK(c)'
    BY <1>1, <2>1, <2>3, <2>4 DEF PaidOK
  <2> QED
    BY <1>3, <2>5, <2>6, <2>7, <2>8, <2>9 DEF Written, CaseOK
<1> QED
  BY <1>4, <1>5

LEMMA UploadKeeps ==
  ASSUME IInv, NEW w \in Workers, NEW c \in Cases, worker[w].on = c,
         upload(w) \/ expireWindowAndAdvance(w) \/ operatorKill(w)
  PROVE  Written(w, c)
<1>0. /\ kase \in [Cases -> Case] /\ evidence \in [Cases -> SUBSET Sides]
      /\ worker[w] \in Worker /\ WorkerOK(w) /\ worker[w].at # "idle"
  BY NoCase DEF IInv, TypeOK, WorkerOK
<1>1. CASE upload(w)
  <2>1. /\ worker[w].op = "upload" /\ kase[c].held /\ kase[c].state # "ABSENT"
        /\ worker[w].at = "checked" => worker[w].seen.state = "EVIDENCE_PENDING"
        /\ Leaves(w)
    BY <1>0, <1>1 DEF upload, WorkerOK, AfterTheHold
  <2>2. evidence' \in [Cases -> SUBSET Sides]
    <3>1. worker[w].side \in Sides
      BY <1>0, <2>1 DEF WorkerOK
    <3> QED
      BY <1>0, <1>1, <3>1 DEF upload
  <2> QED
    <3>1. \/ /\ kase' = [kase EXCEPT ![c] = [kase[c] EXCEPT !.state = "ADJUDICATING"]] /\ Notes(w)
             /\ worker[w].at = "checked"
          \/ UNCHANGED <<kase, overwritten>>
      BY <1>1 DEF upload, WritesIfChecked
    <3>2. UNCHANGED <<filings, decision, reserve, confirmedBy, fvars>>
      BY <1>1 DEF upload
    <3>3. CASE worker[w].at = "checked"
      BY <2>1, <2>2, <3>1, <3>2, <3>3, PlainWrite
    <3>4. CASE worker[w].at # "checked"
      <4>1. UNCHANGED <<kase, overwritten>>
        BY <3>1, <3>4
      <4> QED
        BY <2>1, <2>2, <3>2, <4>1, PlainWrite
    <3> QED
      BY <3>3, <3>4
<1>2. CASE expireWindowAndAdvance(w)
  <2>1. /\ worker[w].op = "expireWindowAndAdvance" /\ kase[c].held /\ kase[c].state # "ABSENT"
        /\ worker[w].seen.state = "EVIDENCE_PENDING" /\ Leaves(w)
    BY <1>0, <1>2 DEF expireWindowAndAdvance, WorkerOK, AfterTheHold, StartsIn
  <2> QED
    BY <1>0, <1>2, <2>1, PlainWrite DEF expireWindowAndAdvance, WritesIfChecked
<1>3. CASE operatorKill(w)
  <2>1. /\ kase[c].state # "ABSENT" /\ worker[w].seen.state # "SETTLED" /\ Leaves(w) /\ Notes(w)
    BY <1>0, <1>3 DEF operatorKill, WorkerOK, StartsIn, TERMINAL_STATES
  <2>2. kase' = [kase EXCEPT ![c] = [kase[c] EXCEPT !.state = "DENIED"]]
    BY <1>3 DEF operatorKill
  <2> QED
    BY <1>0, <1>3, <2>1, <2>2, PlainWrite DEF operatorKill
<1> QED
  BY <1>1, <1>2, <1>3

LEMMA DecideKeeps ==
  ASSUME IInv, NEW w \in Workers, NEW c \in Cases, worker[w].on = c, decideManually(w)
  PROVE  Written(w, c)
<1>1. /\ decision[c].type = "NONE"
      /\ decision' = [decision EXCEPT ![c] = [type |-> "MANUAL", by |-> worker[w].by]]
      /\ Leaves(w) /\ worker[w].op = "decideManually" /\ Transitioned(w)
      /\ UNCHANGED <<filings, evidence, reserve, confirmedBy, fvars>>
  BY DEF decideManually
<1>2. RowOK(c) /\ CheckedOK(c) /\ FraudOK(c) /\ PaidOK(c) /\ TypeOK /\ WorkerOK(w)
  BY DEF IInv
<1>3. kase[c] \in Case /\ kase \in [Cases -> Case] /\ worker[w] \in Worker
  BY <1>2 DEF TypeOK
<1>4. kase[c].state # "ABSENT" /\ kase[c].held /\ worker[w].seen.state = "ADJUDICATING"
      /\ worker[w].outcome \in OUTCOMES
  BY <1>1, <1>2, <1>3, NoCase DEF WorkerOK, AfterTheHold, StartsIn, Worker
<1>5. PICK outcome \in OUTCOMES, share \in 0..Amount :
        outcome = worker[w].outcome /\ share = worker[w].share
  BY <1>3, <1>4 DEF Worker
<1>6. PICK to : to = Target(w) /\ to = stateForOutcome(outcome)
  BY <1>1, <1>5 DEF Target
<1>7. /\ to \in {"UPHELD", "PARTIAL_UPHELD", "DENIED"}
      /\ to = "UPHELD" => outcome = "UPHOLD"
      /\ to = "PARTIAL_UPHELD" => outcome = "PARTIAL"
  BY <1>6 DEF stateForOutcome, OUTCOMES
<1>8. worker' \in [Workers -> Worker] /\ worker'[w].on = None /\ WorkerOK(w)'
      /\ \A u \in Workers \ {w} : worker'[u] = worker[u]
  BY <1>1, <1>2, Left
<1>9. /\ decision' \in [Cases -> Decision] /\ decision'[c].type = "MANUAL"
      /\ \A d \in Cases \ {c} : decision'[d] = decision[d]
  <2>1. worker[w].by \in Users \cup {None} /\ decision \in [Cases -> Decision]
    BY <1>2, <1>3 DEF TypeOK, Worker
  <2> QED
    BY <1>1, <2>1 DEF Decision
<1>10. PICK row \in Case :
         /\ \/ row = kase[c] /\ UNCHANGED <<kase, overwritten>>
            \/ /\ kase' = [kase EXCEPT ![c] = row] /\ Notes(w)
               /\ row.state = to /\ row.outcome = outcome
         /\ row.held
  <2>1. CASE worker[w].at = "checked"
    <3> DEFINE r == [kase[c] EXCEPT !.state = to, !.outcome = outcome, !.share = share]
    <3>1. r \in Case /\ r.state = to /\ r.outcome = outcome /\ r.held
      BY <1>3, <1>4, <1>7 DEF Case, CASE_STATES
    <3>2. kase' = [kase EXCEPT ![c] = r] /\ Notes(w)
      BY <1>5, <1>6, <2>1 DEF decideManually, WritesIfChecked
    <3> HIDE DEF r
    <3> QED
      BY <3>1, <3>2
  <2>2. CASE worker[w].at # "checked"
    BY <1>3, <1>4, <2>2 DEF decideManually, WritesIfChecked
  <2> QED
    BY <2>1, <2>2
<1>11. /\ kase'[c] = row /\ kase' \in [Cases -> Case]
       /\ \A d \in Cases \ {c} : kase'[d] = kase[d]
       /\ row = kase[c] \/ (row.state = to /\ row.outcome = outcome)
  BY <1>3, <1>10
<1>12. /\ overwritten \subseteq overwritten' /\ overwritten' \subseteq overwritten \cup {c}
       /\ c \notin overwritten' => /\ c \notin overwritten
                                   /\ row = kase[c] \/ (row.state = to /\ kase[c].state = "ADJUDICATING")
  BY <1>4, <1>10, Noted
<1>13. TypeOK'
  BY <1>1, <1>2, <1>8, <1>9, <1>11, <1>12 DEF TypeOK, FTypeOK, fvars
<1>14. Wrote(w, c)
  BY <1>1, <1>4, <1>7, <1>8, <1>9, <1>10, <1>11, <1>12 DEF Wrote, Onward
<1>15. RowOK(c)'
  <2>1. CASE row = kase[c]
    BY <1>1, <1>2, <1>4, <1>11, <2>1 DEF RowOK
  <2>2. CASE row.state = to /\ row.outcome = outcome
    BY <1>1, <1>2, <1>4, <1>7, <1>10, <1>11, <2>2 DEF RowOK
  <2> QED
    BY <1>11, <2>1, <2>2
<1>16. CheckedOK(c)' /\ FraudOK(c)'
  BY <1>1, <1>2, <1>9 DEF CheckedOK, FraudOK
<1>17. PaidOK(c)'
  BY <1>1, <1>2, <1>7, <1>11, <1>12 DEF PaidOK
<1> QED
  BY <1>8, <1>13, <1>14, <1>15, <1>16, <1>17 DEF Written, CaseOK

\* What leaves the reserve is what the row says, or the row was written over.
LEMMA SettlesKeeps ==
  ASSUME IInv, NEW w \in Workers, NEW c \in Cases, worker[w].on = c,
         settleAutoResolved(w) \/ confirmSettlement(w)
  PROVE  Written(w, c)
<1>1. /\ worker[w].op \in Settling /\ worker[w].at \in {"same", "checked"}
      /\ postReleaseJournal(w) /\ Notes(w)
      /\ kase' = IF worker[w].at = "same" THEN kase
                 ELSE [kase EXCEPT ![c].state = "SETTLED", ![c].released = TRUE]
      /\ Leaves(w) \/ worker' = [worker EXCEPT ![w].at = "settled"]
      /\ UNCHANGED <<filings, evidence, decision, fvars>>
  BY DEF settleAutoResolved, confirmSettlement, Settles, Settling, Transitioned
<1>2. RowOK(c) /\ CheckedOK(c) /\ FraudOK(c) /\ PaidOK(c) /\ TypeOK /\ WorkerOK(w)
  BY DEF IInv
<1>3. /\ kase[c] \in Case /\ kase \in [Cases -> Case] /\ worker \in [Workers -> Worker]
      /\ worker[w] \in Worker /\ worker[w].seen \in Copy
      /\ reserve \in [Cases -> Reserve] /\ reserve[c] \in Reserve
  <2>1. kase \in [Cases -> Case] /\ worker \in [Workers -> Worker] /\ reserve \in [Cases -> Reserve]
    BY <1>2 DEF TypeOK
  <2>2. worker[w].seen \in Copy
    BY <2>1 DEF Worker
  <2> QED
    BY <2>1, <2>2
<1>4. /\ kase[c].state # "ABSENT" /\ kase[c].held
      /\ worker[w].seen.state \in StartsIn(worker[w].op)
      /\ worker[w].op = "settleAutoResolved" => worker[w].seen.outcome # "NONE"
      /\ c \notin overwritten => /\ StillSo(w)
                                 /\ worker[w].at = "same" => kase[c].state = "SETTLED"
  BY <1>1, <1>2 DEF WorkerOK, AfterTheHold, Settling
<1>5. worker[w].seen.state \in {"AUTO_RESOLVED", "UPHELD", "PARTIAL_UPHELD", "DENIED"}
  BY <1>1, <1>4 DEF StartsIn, Settling
<1>6. PICK outcome, share, upheld :
        /\ outcome = Outcome(w) /\ share = worker[w].seen.share /\ upheld = ShareOf(outcome, share)
  OBVIOUS
<1>7. outcome \in OUTCOMES /\ share \in 0..Amount
  <2>1. worker[w].op = "confirmSettlement" => worker[w].seen.state \in {"UPHELD", "PARTIAL_UPHELD", "DENIED"}
    BY <1>4 DEF StartsIn
  <2> QED
    BY <1>1, <1>3, <1>4, <1>6, <2>1 DEF Outcome, OUTCOMES, Copy, Settling
<1>8. upheld \in 0..Amount
  BY <1>6, <1>7, AmountAssumption DEF ShareOf, OUTCOMES
<1>9. /\ reserve' \in [Cases -> Reserve]
      /\ \A d \in Cases \ {c} : reserve'[d] = reserve[d]
      /\ reserve'[c].holds = reserve[c].holds
      /\ reserve'[c].releases = reserve[c].releases + 1
      /\ reserve'[c].toOriginator = reserve[c].toOriginator + upheld
      /\ reserve'[c].toBeneficiary = reserve[c].toBeneficiary + Amount - upheld
  <2> DEFINE row == [reserve[c] EXCEPT !.releases = @ + 1, !.toOriginator = @ + upheld,
                                       !.toBeneficiary = @ + Amount - upheld]
  <2>1. /\ row \in Reserve /\ row.holds = reserve[c].holds /\ row.releases = reserve[c].releases + 1
        /\ row.toOriginator = reserve[c].toOriginator + upheld
        /\ row.toBeneficiary = reserve[c].toBeneficiary + Amount - upheld
    <3>1. /\ reserve[c].releases + 1 \in Nat /\ reserve[c].toOriginator + upheld \in Nat
          /\ reserve[c].toBeneficiary + Amount - upheld \in Nat
      BY <1>3, <1>8, AmountAssumption DEF Reserve
    <3> QED
      BY <1>3, <3>1 DEF Reserve
  <2>2. reserve' = [reserve EXCEPT ![c] = row]
    <3>1. reserve' = [reserve EXCEPT ![c].releases = @ + 1, ![c].toOriginator = @ + upheld,
                                     ![c].toBeneficiary = @ + Amount - upheld]
      BY <1>1, <1>6 DEF postReleaseJournal
    <3>2. \A d \in Cases : reserve'[d] = IF d = c THEN row ELSE reserve[d]
      BY <1>3, <3>1 DEF Reserve
    <3>3. DOMAIN reserve' = Cases /\ reserve' = [d \in DOMAIN reserve' |-> reserve'[d]]
      BY <1>3, <3>1
    <3> QED
      BY <1>3, <3>2, <3>3
  <2> HIDE DEF row
  <2> QED
    BY <1>3, <2>1, <2>2
<1>10. /\ kase' \in [Cases -> Case] /\ \A d \in Cases \ {c} : kase'[d] = kase[d]
       /\ worker[w].at = "same" => kase' = kase
       /\ worker[w].at = "checked" => kase'[c].state = "SETTLED"
       /\ kase'[c].held /\ kase'[c].of = kase[c].of /\ kase'[c].reason = kase[c].reason
       /\ kase'[c].outcome = kase[c].outcome /\ kase'[c].share = kase[c].share
  <2>1. CASE worker[w].at = "same"
    BY <1>1, <1>3, <1>4, <2>1
  <2>2. CASE worker[w].at = "checked"
    <3> DEFINE row == [kase[c] EXCEPT !.state = "SETTLED", !.released = TRUE]
    <3>1. /\ row \in Case /\ row.state = "SETTLED" /\ row.held /\ row.of = kase[c].of
          /\ row.reason = kase[c].reason /\ row.outcome = kase[c].outcome /\ row.share = kase[c].share
      BY <1>3, <1>4 DEF Case, CASE_STATES
    <3>2. kase' = [kase EXCEPT ![c] = row]
      BY <1>1, <1>3, <2>2 DEF Case
    <3> HIDE DEF row
    <3> QED
      BY <1>3, <2>2, <3>1, <3>2
  <2> QED
    BY <1>1, <2>1, <2>2
<1>11. /\ overwritten \subseteq overwritten' /\ overwritten' \subseteq overwritten \cup {c}
       /\ c \notin overwritten' => /\ c \notin overwritten
                                   /\ kase[c].state = worker[w].seen.state
                                   /\ worker[w].at = "checked" /\ worker[w].seen = copyOf(kase[c])
  <2>1. /\ overwritten \subseteq overwritten' /\ overwritten' \subseteq overwritten \cup {c}
        /\ c \notin overwritten' => c \notin overwritten /\ kase[c].state = worker[w].seen.state
    BY <1>1, Noted
  <2>2. c \notin overwritten' => worker[w].at = "checked" /\ worker[w].seen = copyOf(kase[c])
    <3>1. SUFFICES ASSUME c \notin overwritten'
                   PROVE  worker[w].at = "checked" /\ worker[w].seen = copyOf(kase[c])
      OBVIOUS
    <3>2. kase[c].state # "SETTLED" /\ ~(kase[c].state = "DENIED" /\ worker[w].seen.state # "DENIED")
      BY <1>5, <2>1, <3>1
    <3>3. StillSo(w) /\ worker[w].at # "same"
      BY <1>4, <2>1, <3>1, <3>2
    <3> QED
      BY <1>1, <3>2, <3>3 DEF StillSo
  <2> QED
    BY <2>1, <2>2
<1>12. /\ worker' \in [Workers -> Worker] /\ worker'[w].on \in {None, c}
       /\ \A u \in Workers \ {w} : worker'[u] = worker[u]
       /\ WorkerOK(w)'
  <2>1. CASE Leaves(w)
    BY <1>2, <2>1, Left
  <2>2. CASE worker' = [worker EXCEPT ![w].at = "settled"]
    <3> DEFINE row == [worker[w] EXCEPT !.at = "settled"]
    <3>1. /\ row \in Worker /\ row.at = "settled" /\ row.on = c /\ row.op = worker[w].op
          /\ row.by = worker[w].by /\ row.seen = worker[w].seen
      BY <1>3 DEF Worker
    <3>2. worker' = [worker EXCEPT ![w] = row]
      BY <2>2
    <3> HIDE DEF row
    <3>3. worker'[w] = row /\ worker' \in [Workers -> Worker] /\ \A u \in Workers \ {w} : worker'[u] = worker[u]
      BY <1>3, <3>1, <3>2
    <3>4. kase'[c].state # "ABSENT"
      BY <1>1, <1>4, <1>10
    <3>5. WorkerOK(w)'
      BY <1>1, <1>2, <1>4, <1>10, <3>1, <3>3, <3>4 DEF WorkerOK, Settling, AfterTheHold
    <3> QED
      BY <3>1, <3>3, <3>5
  <2> QED
    BY <1>1, <2>1, <2>2
<1>13. confirmedBy' \in [Cases -> Users \cup {None}] /\ CheckedOK(c)'
       /\ \A d \in Cases \ {c} : confirmedBy'[d] = confirmedBy[d]
  <2>1. PICK by \in Users \cup {None} :
          /\ confirmedBy' = [confirmedBy EXCEPT ![c] = by]
          /\ by # None => decision[c].type # "NONE" /\ decision[c].by # by
    <3>1. CASE settleAutoResolved(w)
      BY <3>1 DEF settleAutoResolved
    <3>2. CASE confirmSettlement(w)
      <4>1. worker[w].by \in Users \cup {None} /\ worker[w].op = "confirmSettlement"
            /\ confirmedBy' = [confirmedBy EXCEPT ![c] = worker[w].by]
        BY <1>3, <3>2 DEF confirmSettlement, Worker
      <4>2. decision[c].type # "NONE" /\ decision[c].by # worker[w].by
        BY <1>1, <1>2, <4>1 DEF WorkerOK
      <4> QED
        BY <4>1, <4>2
    <3> QED
      BY <3>1, <3>2
  <2>2. confirmedBy \in [Cases -> Users \cup {None}]
    BY <1>2 DEF TypeOK
  <2> QED
    BY <1>1, <2>1, <2>2 DEF CheckedOK
<1>14. TypeOK'
  BY <1>1, <1>2, <1>9, <1>10, <1>11, <1>12, <1>13 DEF TypeOK, FTypeOK, fvars
<1>15. Wrote(w, c)
  <2>1. kase'[c].state # "ABSENT"
    BY <1>1, <1>4, <1>10
  <2>2. c \notin overwritten' => Onward(kase[c].state, kase'[c].state)
    BY <1>5, <1>10, <1>11 DEF Onward
  <2> QED
    BY <1>1, <1>4, <1>9, <1>10, <1>11, <1>12, <1>13, <2>1, <2>2 DEF Wrote
<1>16. RowOK(c)'
  BY <1>1, <1>2, <1>4, <1>9, <1>10 DEF RowOK
<1>17. FraudOK(c)'
  BY <1>1, <1>2, <1>10 DEF FraudOK, fvars
<1>18. PaidOK(c)'
  <2>1. SUFFICES ASSUME c \notin overwritten' PROVE PaidOK(c)'
    BY DEF PaidOK
  <2>2. kase[c].state # "SETTLED" /\ kase'[c].state = "SETTLED"
    BY <1>5, <1>10, <1>11, <2>1
  <2>3. reserve'[c].releases = 1 /\ reserve'[c].toOriginator = upheld /\ reserve'[c].toBeneficiary = Amount - upheld
    BY <1>2, <1>8, <1>9, <1>11, <2>1, <2>2, AmountAssumption DEF PaidOK
  <2>4. upheld > 0 => upheld = ShareOf(kase[c].outcome, kase[c].share)
    <3>1. share = kase[c].share /\ worker[w].seen.outcome = kase[c].outcome
          /\ worker[w].seen.state = kase[c].state
      BY <1>6, <1>11, <2>1 DEF copyOf
    <3>2. outcome = "REJECT" => upheld = 0
      BY <1>6 DEF ShareOf
    <3>3. outcome # "REJECT" => outcome = kase[c].outcome
      <4>1. CASE worker[w].op = "settleAutoResolved"
        <5>1. worker[w].seen.state = "AUTO_RESOLVED"
          BY <1>4, <4>1 DEF StartsIn
        <5> QED
          BY <1>6, <3>1, <4>1, <5>1 DEF Outcome
      <4>2. CASE worker[w].op = "confirmSettlement"
        <5>1. worker[w].seen.state \in {"UPHELD", "PARTIAL_UPHELD", "DENIED"}
          BY <1>4, <4>2 DEF StartsIn
        <5> QED
          BY <1>2, <1>6, <3>1, <4>2, <5>1 DEF Outcome, RowOK
      <4> QED
        BY <1>1, <4>1, <4>2 DEF Settling
    <3> QED
      BY <1>6, <3>1, <3>2, <3>3
  <2>5. upheld + (Amount - upheld) = Amount
    BY <1>8, AmountAssumption
  <2> QED
    BY <1>10, <2>2, <2>3, <2>4, <2>5 DEF PaidOK
<1> QED
  BY <1>12, <1>13, <1>14, <1>15, <1>16, <1>17, <1>18 DEF Written, CaseOK

LEMMA WritesKeep ==
  ASSUME IInv, NEW w \in Workers, Writes(w), ~InitiatesReversal(w)
  PROVE  IInv'
<1>1. WorkerOK(w)
  BY DEF IInv
<1>2. worker[w].at # "idle"
  <2>1. worker[w].op # "none"
    BY DEF Writes, file, RejectsFiling, processFiled, upload, expireWindowAndAdvance, decideManually,
           operatorKill, settleAutoResolved, confirmSettlement
  <2> QED
    BY <1>1, <2>1 DEF WorkerOK
<1>3. PICK c \in Cases : worker[w].on = c
  BY <1>1, <1>2 DEF WorkerOK
<1>4. Written(w, c)
  BY <1>3, FileKeeps, RejectsKeeps, AcceptKeeps, UploadKeeps, DecideKeeps, SettlesKeeps DEF Writes
<1> QED
  BY <1>3, <1>4, WrittenKeeps

-----------------------------------------------------------------------------
(* The inductive invariant.                                                *)

LEMMA InitIInv == Init => IInv
<1> SUFFICES ASSUME Init PROVE IInv
  OBVIOUS
<1>1. Absent \in Case /\ Resting \in Worker
  BY RowTypes
<1>2. TypeOK
  BY <1>1 DEF Init, FInit, DInit, TypeOK, FTypeOK, Idle, NoRow, Handler, FastTrackRow, STATES, PaymentStates,
             Decision, Reserve
<1>3. FrozenInv
  BY DEF Init, FInit, FrozenInv, FreezeOK, Idle, NoRow
<1>4. ASSUME NEW c \in Cases PROVE RowOK(c) /\ CheckedOK(c) /\ FraudOK(c) /\ PaidOK(c)
  BY DEF Init, DInit, Absent, RowOK, CheckedOK, FraudOK, PaidOK, HeldStates
<1>5. ASSUME NEW w \in Workers PROVE WorkerOK(w)
  BY DEF Init, DInit, Resting, WorkerOK
<1> QED
  BY <1>2, <1>3, <1>4, <1>5 DEF IInv

LEMMA FastTrackStep ==
  ASSUME IInv, FTypeOK', FrozenInv', frozen \subseteq frozen', UNCHANGED dvars
  PROVE  IInv'
<1>1. TypeOK'
  BY DEF IInv, TypeOK, dvars
<1>2. \A c \in Cases : RowOK(c)' /\ CheckedOK(c)' /\ FraudOK(c)' /\ PaidOK(c)'
  BY RowsStay DEF dvars
<1>3. \A w \in Workers : WorkerOK(w)'
  BY DEF IInv, WorkerOK, StillSo, dvars
<1> QED
  BY <1>1, <1>2, <1>3 DEF IInv

LEMMA ReadingStep ==
  ASSUME IInv, TypeOK', \A w \in Workers : WorkerOK(w)',
         UNCHANGED <<kase, decision, reserve, overwritten, confirmedBy, fastTrack, handler, frozen>>
  PROVE  IInv'
<1>1. \A c \in Cases : RowOK(c)' /\ CheckedOK(c)' /\ FraudOK(c)' /\ PaidOK(c)'
  BY RowsStay
<1>2. FrozenInv'
  BY DEF IInv, FrozenInv, FreezeOK
<1> QED
  BY <1>1, <1>2 DEF IInv

LEMMA NextIInv == IInv /\ [Next]_vars => IInv'
<1> SUFFICES ASSUME IInv, [Next]_vars PROVE IInv'
  OBVIOUS
<1>1. CASE FNext /\ UNCHANGED dvars
  BY <1>1, FastTrackKeeps, FastTrackStep DEF IInv, TypeOK
<1>2. ASSUME NEW w \in Workers, Dispute(w) PROVE IInv'
  <2>1. CASE \E c \in Cases : StartsFiling(w, c) \/ \E op \in Operations \ {"file"} : Starts(w, op, c)
    <3>1. TypeOK' /\ \A v \in Workers : WorkerOK(v)'
      BY <2>1, FilingStarts, StartingKeeps
    <3> QED
      BY <2>1, <3>1, ReadingStep DEF StartsFiling, Starts, UnchangedRows, fvars
  <2>2. CASE transition(w)
    BY <2>2, TransitionKeeps, ReadingStep DEF transition, UnchangedRows, fvars
  <2>3. CASE InitiatesReversal(w) \/ WorkerFails(w)
    BY <2>3, LeavingKeeps, ReadingStep DEF InitiatesReversal, WorkerFails, UnchangedRows, fvars
  <2>4. CASE Writes(w) /\ ~InitiatesReversal(w)
    BY <2>4, WritesKeep
  <2> QED
    BY <1>2, <2>1, <2>2, <2>3, <2>4 DEF Dispute
<1>3. CASE UNCHANGED vars
  BY <1>3, FastTrackStep DEF vars, fvars, IInv, TypeOK, FTypeOK, FrozenInv, FreezeOK
<1> QED
  BY <1>1, <1>2, <1>3 DEF Next

\* The invariant that the theorems below rest on: what a row says goes with
\* what was posted, decided and frozen for it, and what a worker on it has
\* read is still so, or the row has gone on to an end.
THEOREM InductiveInvariant == Spec => []IInv
BY InitIInv, NextIInv, PTL DEF Spec

\* However the handlers of a case overlap (modules/disputes), its amount goes
\* into the reserve once; it leaves once, whole, in the shares of the outcome
\* and when the case is SETTLED, unless a handler wrote over a state that it
\* had not read; and who decided a case has not confirmed it.
THEOREM HeldOnce == Spec => []HeldAndReleasedOnce
<1>1. IInv => HeldAndReleasedOnce
  <2> SUFFICES ASSUME IInv PROVE HeldAndReleasedOnce
    OBVIOUS
  <2>0. \A c \in Cases : reserve[c] \in Reserve /\ RowOK(c) /\ CheckedOK(c) /\ PaidOK(c)
    BY DEF IInv, TypeOK
  <2>1. HeldOnceBeforeRelease
    BY <2>0 DEF HeldOnceBeforeRelease, RowOK
  <2>2. ReleasedOnceUnlessOverwritten
    <3> SUFFICES ASSUME NEW c \in Cases \ overwritten
                 PROVE  /\ reserve[c].releases = IF kase[c].state = "SETTLED" THEN 1 ELSE 0
                        /\ reserve[c].toOriginator + reserve[c].toBeneficiary = reserve[c].releases * Amount
                        /\ reserve[c].toOriginator > 0 =>
                             reserve[c].toOriginator = ShareOf(kase[c].outcome, kase[c].share)
      BY DEF ReleasedOnceUnlessOverwritten
    <3>1. 1 * Amount = Amount /\ 0 * Amount = 0
      BY AmountAssumption
    <3>2. CASE kase[c].state = "SETTLED"
      BY <2>0, <3>1, <3>2 DEF PaidOK
    <3>3. CASE kase[c].state # "SETTLED"
      BY <2>0, <3>1, <3>3 DEF PaidOK
    <3> QED
      BY <3>2, <3>3
  <2>3. CheckerIsNotMaker
    BY <2>0 DEF CheckerIsNotMaker, CheckedOK
  <2> QED
    BY <2>1, <2>2, <2>3 DEF HeldAndReleasedOnce, IInv
<1> QED
  BY <1>1, InductiveInvariant, PTL

\* A fraud case that the rule resolved for the filer (rules.js) is about money
\* that the receiving bank has frozen, and not about a freeze that was asked
\* for and not answered.
THEOREM FraudWasFrozen == Spec => []FraudUpheldWasFrozen
<1>1. IInv => FraudUpheldWasFrozen
  BY DEF IInv, FraudOK, FraudUpheldWasFrozen
<1> QED
  BY <1>1, InductiveInvariant, PTL

-----------------------------------------------------------------------------
(* The steps of a case.                                                    *)

Legal(from, to) ==
  \/ canTransition(from, to)
  \/ \E s \in TRANSITIONS[from] : canTransition(s, to)
  \/ to = "DENIED" /\ from \notin TERMINAL_STATES

LEMMA LegalMoves ==
  /\ Legal("FILED", "REJECTED") /\ Legal("FILED", "EVIDENCE_PENDING") /\ Legal("FILED", "AUTO_RESOLVED")
  /\ Legal("EVIDENCE_PENDING", "ADJUDICATING")
  /\ \A to \in {"UPHELD", "DENIED", "PARTIAL_UPHELD"} : Legal("ADJUDICATING", to)
  /\ \A from \in {"AUTO_RESOLVED", "UPHELD", "PARTIAL_UPHELD", "DENIED"} : Legal(from, "SETTLED")
BY DEF Legal, canTransition, TRANSITIONS

LEMMA WritesMoveLegally ==
  ASSUME IInv, NEW w \in Workers, NEW c \in Cases, worker[w].on = c, Writes(w),
         c \notin overwritten', kase[c].state # "ABSENT", kase'[c].state # kase[c].state
  PROVE  Legal(kase[c].state, kase'[c].state)
<1>1. /\ kase \in [Cases -> Case] /\ kase[c] \in Case /\ WorkerOK(w) /\ worker[w].at # "idle"
      /\ worker[w] \in Worker
  BY NoCase DEF IInv, TypeOK, WorkerOK
<1>2. worker[w].op # "file" => worker[w].seen.state \in StartsIn(worker[w].op)
  BY <1>1 DEF WorkerOK
<1>3. Notes(w) => kase[c].state = worker[w].seen.state
  BY Noted
<1>4. CASE file(w)
  BY <1>1, <1>4 DEF file, WorkerOK
<1>5. CASE RejectsFiling(w)
  <2>1. kase[c].state = "FILED" /\ kase'[c].state = "REJECTED"
    BY <1>1, <1>2, <1>3, <1>5 DEF RejectsFiling, StartsIn, Case
  <2> QED
    BY <2>1, LegalMoves
<1>6. CASE processFiled(w)
  <2>1. kase[c].state = "FILED"
    BY <1>2, <1>3, <1>6 DEF processFiled, StartsIn
  <2>2. kase'[c].state \in {"EVIDENCE_PENDING", "AUTO_RESOLVED"}
    <3>1. PICK found \in Findings(c) :
            IF found = "NONE" THEN AwaitsEvidence(c) ELSE AutoResolves(c, found)
      BY <1>6 DEF processFiled
    <3>2. CASE found = "NONE"
      <4>1. kase' = [kase EXCEPT ![c] = [Accepted(c) EXCEPT !.state = "EVIDENCE_PENDING"]]
        BY <3>1, <3>2 DEF AwaitsEvidence
      <4> QED
        BY <1>1, <4>1 DEF Accepted, Case
    <3>3. CASE found # "NONE"
      <4>1. kase' = [kase EXCEPT ![c] = [Accepted(c) EXCEPT !.state = "AUTO_RESOLVED",
                                                            !.outcome = found, !.share = 0]]
        BY <3>1, <3>3 DEF AutoResolves
      <4>2. Accepted(c) \in Case
        BY <1>1 DEF Accepted, Case, CASE_STATES
      <4> QED
        BY <1>1, <4>1, <4>2 DEF Case
    <3> QED
      BY <3>2, <3>3
  <2> QED
    BY <2>1, <2>2, LegalMoves
<1>7. CASE upload(w)
  <2>1. worker[w].at = "checked"
    BY <1>7 DEF upload, WritesIfChecked
  <2>2. kase[c].state = "EVIDENCE_PENDING" /\ kase'[c].state = "ADJUDICATING"
    BY <1>1, <1>3, <1>7, <2>1 DEF upload, WritesIfChecked, WorkerOK, Case
  <2> QED
    BY <2>2, LegalMoves
<1>8. CASE expireWindowAndAdvance(w)
  <2>1. worker[w].at = "checked"
    BY <1>8 DEF expireWindowAndAdvance, WritesIfChecked
  <2>2. kase[c].state = "EVIDENCE_PENDING" /\ kase'[c].state = "ADJUDICATING"
    BY <1>1, <1>2, <1>3, <1>8, <2>1 DEF expireWindowAndAdvance, WritesIfChecked, StartsIn, Case
  <2> QED
    BY <2>2, LegalMoves
<1>9. CASE decideManually(w)
  <2>1. worker[w].at = "checked"
    BY <1>9 DEF decideManually, WritesIfChecked
  <2>2. kase[c].state = "ADJUDICATING"
    BY <1>2, <1>3, <1>9, <2>1 DEF decideManually, WritesIfChecked, StartsIn
  <2>3. kase'[c].state = Target(w)
    <3>1. PICK to, outcome, share : to = Target(w) /\ outcome = worker[w].outcome /\ share = worker[w].share
      OBVIOUS
    <3>2. kase' = [kase EXCEPT ![c] = [kase[c] EXCEPT !.state = to, !.outcome = outcome, !.share = share]]
      BY <1>9, <2>1, <3>1 DEF decideManually, WritesIfChecked
    <3> QED
      BY <1>1, <3>1, <3>2 DEF Case
  <2>4. worker[w].outcome \in OUTCOMES
    BY <1>1, <1>9 DEF decideManually, WorkerOK, Worker
  <2>5. Target(w) \in {"UPHELD", "DENIED", "PARTIAL_UPHELD"}
    BY <1>9, <2>4 DEF decideManually, Target, stateForOutcome, OUTCOMES
  <2> QED
    BY <2>2, <2>3, <2>5, LegalMoves
<1>10. CASE operatorKill(w)
  <2>1. kase[c].state \notin TERMINAL_STATES /\ kase'[c].state = "DENIED"
    BY <1>1, <1>2, <1>3, <1>10 DEF operatorKill, StartsIn, Case
  <2> QED
    BY <2>1 DEF Legal
<1>11. CASE settleAutoResolved(w) \/ confirmSettlement(w)
  <2>1. kase[c].state \in {"AUTO_RESOLVED", "UPHELD", "PARTIAL_UPHELD", "DENIED"}
    BY <1>2, <1>3, <1>11 DEF settleAutoResolved, confirmSettlement, Settles, StartsIn
  <2>2. kase'[c].state = "SETTLED"
    BY <1>1, <1>11 DEF settleAutoResolved, confirmSettlement, Settles, Case
  <2> QED
    BY <2>1, <2>2, LegalMoves
<1>12. CASE InitiatesReversal(w)
  BY <1>12 DEF InitiatesReversal
<1> QED
  BY <1>4, <1>5, <1>6, <1>7, <1>8, <1>9, <1>10, <1>11, <1>12 DEF Writes

\* A step moves the row of its own case only.
LEMMA OtherRowsStay ==
  ASSUME IInv, NEW w \in Workers, NEW c \in Cases, worker[w].on # c, Dispute(w)
  PROVE  kase'[c] = kase[c]
<1>1. kase \in [Cases -> Case]
  BY DEF IInv, TypeOK
<1>2. CASE Writes(w)
  BY <1>1, <1>2 DEF Writes, file, RateLimits, WindowExpired, Files, Inserts, RejectsFiling, processFiled,
                    AwaitsEvidence, AutoResolves, upload, expireWindowAndAdvance, decideManually,
                    WritesIfChecked, operatorKill, settleAutoResolved, confirmSettlement, Settles,
                    InitiatesReversal
<1>3. CASE ~Writes(w)
  BY <1>3 DEF Dispute, StartsFiling, Starts, transition, WorkerFails, UnchangedRows
<1> QED
  BY <1>2, <1>3

\* Nothing but an operator's kill leaves the table of states.js, and what has
\* ended stays, unless the state that a handler read has gone when it writes.
THEOREM CasesMoveLegally == Spec => MovesLegally
<1>1. ASSUME IInv, [Next]_vars, NEW c \in Cases \ overwritten',
             kase[c].state # "ABSENT", kase'[c].state # kase[c].state
      PROVE  Legal(kase[c].state, kase'[c].state)
  <2>1. PICK w \in Workers : Dispute(w)
    BY <1>1 DEF Next, dvars, vars
  <2>2. worker[w].on = c
    BY <1>1, <2>1, OtherRowsStay
  <2>3. Writes(w)
    BY <1>1, <2>1 DEF Dispute, StartsFiling, Starts, transition, WorkerFails, UnchangedRows
  <2> QED
    BY <1>1, <2>2, <2>3, WritesMoveLegally
<1>2. IInv /\ [Next]_vars =>
        [\A c \in Cases \ overwritten' :
           kase[c].state # "ABSENT" /\ kase'[c].state # kase[c].state =>
             \/ canTransition(kase[c].state, kase'[c].state)
             \/ \E s \in TRANSITIONS[kase[c].state] : canTransition(s, kase'[c].state)
             \/ kase'[c].state = "DENIED" /\ kase[c].state \notin TERMINAL_STATES]_vars
  BY <1>1 DEF Legal
<1> QED
  BY <1>2, InductiveInvariant, PTL DEF Spec, MovesLegally

=============================================================================
