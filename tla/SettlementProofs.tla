-------------------------- MODULE SettlementProofs --------------------------
(* Theorems about Settlement and the operating day that runs it, for any   *)
(* participants, sessions, cycles and days.                                *)
EXTENDS OperatingDay, Sums

-----------------------------------------------------------------------------
(* The inductive invariant                                                 *)

\* Which steps the transaction of a session can be at.
Stages(w) ==
  /\ w.op = "idle" => w = Idle
  /\ w.op \in {"pay", "topup"} => w.at = "rows"
  /\ w.op = "cycle" => w.at \in {"start", "rows", "file", "commit"}
  /\ w.op = "rebuild" => w.at \in {"sum", "rows"}
  /\ w.op = "cycle" /\ w.at = "start" => w.seen = Zero /\ w.todo = {}
  /\ w.op = "cycle" /\ w.at \in {"file", "commit"} => w.todo = {}

\* What a session has done to a row is what its lock says, and unless the row
\* changed since it was read (late), its new value will agree with the ledger.
RowOf(s, p) ==
  LET w == work[s]
      mine == lock[p] = s IN
  /\ mine => p \notin w.todo
  /\ ~mine => w.posted[p] = 0
  /\ w.op \in {"pay", "topup"} /\ mine => live[p] = pos[p] + w.posted[p]
  /\ w.op = "cycle" /\ w.at = "start" => ~mine
  /\ w.op = "cycle" /\ w.seen[p] # 0 /\ p \notin w.todo => mine
  /\ w.op = "cycle" /\ p \notin w.late /\ (mine \/ p \in w.todo) => w.seen[p] = pos[p]
  /\ w.op = "cycle" /\ p \notin w.late /\ mine => live[p] = 0 /\ w.posted[p] = -pos[p]
  /\ w.op = "rebuild" => w.posted[p] = 0
  /\ w.op = "rebuild" /\ p \notin w.todo => mine
  /\ w.op = "rebuild" /\ p \notin w.late /\ mine => live[p] = ledger[p]
  /\ w.op = "rebuild" /\ w.at = "rows" /\ First(p, w.todo) /\ p \notin w.late
       => w.seen[p] = ledger[p]

IInv ==
  /\ TypeOK
  /\ \A s \in Sessions : Stages(work[s])
  /\ \A s \in Sessions, p \in Participants : RowOf(s, p)
  /\ ViewExactUnlessRaced

-----------------------------------------------------------------------------
(* Facts about types                                                       *)

LEMMA IdleType == Idle \in Work
  BY DEF Idle, Work, Zero, Money

\* The file of any movements is a well-formed one.
LEMMA FileType ==
  ASSUME NEW moves \in Money
  PROVE  RtgsFile(moves) \in [written : BOOLEAN, lines : SUBSET RtgsLine]
  <1>1. \A p \in Participants : moves[p] \in Int /\ Abs(moves[p]) \in Nat
    BY DEF Money, Abs
  <1>2. buildRtgsCsv(moves) \subseteq RtgsLine
    BY <1>1 DEF buildRtgsCsv, RtgsLine
  <1> QED
    BY <1>2 DEF RtgsFile

LEMMA ZeroAt == ASSUME NEW p \in Participants PROVE Zero[p] = 0
  BY DEF Zero

\* An idle session satisfies everything that is asked of a session.
LEMMA IdleRow ==
  ASSUME NEW s \in Sessions, NEW p \in Participants,
         work[s] = Idle, lock[p] # s
  PROVE  RowOf(s, p)
  BY ZeroAt DEF RowOf, Idle

LEMMA IdleStages == Stages(Idle)
  BY DEF Stages, Idle

LEMMA TypeInit == Init => TypeOK
  BY IdleType DEF Init, TypeOK, Money, Zero, Absent, NoFile, LocksAreHeld

LEMMA InvInit == Init => IInv
  <1> SUFFICES ASSUME Init PROVE IInv
    OBVIOUS
  <1>1. TypeOK
    BY TypeInit
  <1>2. ASSUME NEW s \in Sessions PROVE Stages(work[s])
    BY IdleStages DEF Init
  <1>3. ASSUME NEW s \in Sessions, NEW p \in Participants PROVE RowOf(s, p)
    BY IdleRow, NoOneIsNoSession DEF Init
  <1>4. ViewExactUnlessRaced
    BY DEF Init, ViewExactUnlessRaced
  <1> QED
    BY <1>1, <1>2, <1>3, <1>4 DEF IInv

-----------------------------------------------------------------------------
(* Steps that change only the transaction of one session                   *)

\* When nothing but work[s] changes, only s has to be looked at again.
LEMMA OnlyWork ==
  ASSUME IInv, NEW s \in Sessions, NEW w \in Work,
         work' = [work EXCEPT ![s] = w],
         UNCHANGED <<pos, live, lock, ledger, raced, book, active, paid>>,
         cycle' \in [Cycles -> [state : {"absent", "pending", "completed", "failed"},
                                day : SUBSET Days, moves : Money]],
         rtgs' \in [Cycles -> [written : BOOLEAN, lines : SUBSET RtgsLine]],
         begun' \in [journals : Nat, rebuilds : Nat],
         Stages(w),
         w # Idle,
         \A p \in Participants : RowOf(s, p)'
  PROVE  IInv'
  <1>1. work' \in [Sessions -> Work] /\ work'[s] = w
    BY DEF IInv, TypeOK
  <1>2. ASSUME NEW t \in Sessions, t # s PROVE work'[t] = work[t]
    BY <1>2 DEF IInv, TypeOK
  <1>3. LocksAreHeld'
    BY <1>1, <1>2 DEF IInv, TypeOK, LocksAreHeld
  <1>4. TypeOK'
    BY <1>1, <1>3 DEF IInv, TypeOK
  <1>5. ASSUME NEW t \in Sessions PROVE Stages(work[t])'
    BY <1>1, <1>2 DEF IInv, Stages
  <1>6. ASSUME NEW t \in Sessions, NEW p \in Participants PROVE RowOf(t, p)'
    <2>1. CASE t = s
      BY <2>1
    <2>2. CASE t # s
      <3>1. RowOf(t, p) /\ work'[t] = work[t]
        BY <2>2, <1>2 DEF IInv
      <3> QED
        BY <3>1 DEF RowOf
    <2> QED
      BY <2>1, <2>2
  <1>7. ViewExactUnlessRaced'
    BY DEF IInv, ViewExactUnlessRaced
  <1> QED
    BY <1>4, <1>5, <1>6, <1>7 DEF IInv

-----------------------------------------------------------------------------
(* Begin                                                                   *)

\* A transaction that starts holds no row and has posted nothing.
LEMMA NoRowsYet ==
  ASSUME IInv, NEW s \in Sessions, work[s] = Idle, NEW p \in Participants
  PROVE  lock[p] # s
  BY NoOneIsNoSession DEF IInv, TypeOK, LocksAreHeld

LEMMA InvBeginPayment ==
  ASSUME IInv, NEW s \in Sessions, NEW from \in Participants, NEW to \in Participants,
         NEW amount \in Amounts, NEW d \in Days, BeginPayment(s, from, to, amount, d)
  PROVE  IInv'
  <1> DEFINE w == [Idle EXCEPT !.op = "pay", !.at = "rows", !.day = {d}, !.todo = {from, to},
                          !.seen = [Zero EXCEPT ![from] = -amount, ![to] = amount]]
  <1>1. [Zero EXCEPT ![from] = -amount, ![to] = amount] \in Money
    BY AmountsArePositive DEF Money, Zero
  <1>2. w \in Work
    BY <1>1, IdleType DEF Work, Idle
  <1>3. /\ w.op = "pay" /\ w.at = "rows" /\ w.posted = Zero /\ w.late = {}
        /\ w # Idle
    BY DEF Idle
  <1>4. Stages(w)
    BY <1>3 DEF Stages
  <1>5. work' = [work EXCEPT ![s] = w] /\ work[s] = Idle
    BY DEF BeginPayment, Open
  <1>6. work'[s] = w
    BY <1>5 DEF IInv, TypeOK
  <1> HIDE DEF w
  <1>7. ASSUME NEW p \in Participants PROVE RowOf(s, p)'
    <2>1. lock'[p] # s
      BY <1>5, NoRowsYet DEF BeginPayment
    <2> QED
      BY <2>1, <1>3, <1>6, ZeroAt DEF RowOf
  <1>8. begun' \in [journals : Nat, rebuilds : Nat]
    BY DEF BeginPayment, IInv, TypeOK
  <1> QED
    BY <1>2, <1>3, <1>4, <1>5, <1>7, <1>8, OnlyWork DEF BeginPayment, IInv, TypeOK

LEMMA InvBeginTopUp ==
  ASSUME IInv, NEW s \in Sessions, NEW q \in Participants,
         NEW amount \in Amounts, NEW d \in Days, BeginTopUp(s, q, amount, d)
  PROVE  IInv'
  <1> DEFINE w == [Idle EXCEPT !.op = "topup", !.at = "rows", !.day = {d}, !.todo = {q},
                          !.seen = [Zero EXCEPT ![q] = amount]]
  <1>1. [Zero EXCEPT ![q] = amount] \in Money
    BY AmountsArePositive DEF Money, Zero
  <1>2. w \in Work
    BY <1>1, IdleType DEF Work, Idle
  <1>3. /\ w.op = "topup" /\ w.at = "rows" /\ w.posted = Zero /\ w.late = {}
        /\ w # Idle
    BY DEF Idle
  <1>4. Stages(w)
    BY <1>3 DEF Stages
  <1>5. work' = [work EXCEPT ![s] = w] /\ work[s] = Idle
    BY DEF BeginTopUp, Open
  <1>6. work'[s] = w
    BY <1>5 DEF IInv, TypeOK
  <1> HIDE DEF w
  <1>7. ASSUME NEW p \in Participants PROVE RowOf(s, p)'
    <2>1. lock'[p] # s
      BY <1>5, NoRowsYet DEF BeginTopUp
    <2> QED
      BY <2>1, <1>3, <1>6, ZeroAt DEF RowOf
  <1>8. begun' \in [journals : Nat, rebuilds : Nat]
    BY DEF BeginTopUp, IInv, TypeOK
  <1> QED
    BY <1>2, <1>3, <1>4, <1>5, <1>7, <1>8, OnlyWork DEF BeginTopUp, IInv, TypeOK

LEMMA InvBeginCycle ==
  ASSUME IInv, NEW s \in Sessions, NEW c \in Cycles, BeginCycle(s, c)
  PROVE  IInv'
  <1> DEFINE w == [Idle EXCEPT !.op = "cycle", !.on = {c}, !.day = cycle[c].day]
  <1>1. cycle[c].day \in SUBSET Days
    BY DEF IInv, TypeOK
  <1>2. w \in Work
    BY <1>1, IdleType DEF Work, Idle
  <1>3. /\ w.op = "cycle" /\ w.at = "start" /\ w.posted = Zero /\ w.seen = Zero
        /\ w.todo = {} /\ w.late = {} /\ w # Idle
    BY DEF Idle
  <1>4. Stages(w)
    BY <1>3 DEF Stages
  <1>5. work' = [work EXCEPT ![s] = w] /\ work[s] = Idle
    BY DEF BeginCycle, Open
  <1>6. work'[s] = w
    BY <1>5 DEF IInv, TypeOK
  <1> HIDE DEF w
  <1>7. ASSUME NEW p \in Participants PROVE RowOf(s, p)'
    <2>1. lock'[p] # s
      BY <1>5, NoRowsYet DEF BeginCycle
    <2> QED
      BY <2>1, <1>3, <1>6, ZeroAt DEF RowOf
  <1> QED
    BY <1>2, <1>3, <1>4, <1>5, <1>7, OnlyWork DEF BeginCycle, IInv, TypeOK

LEMMA InvBeginRebuild ==
  ASSUME IInv, NEW s \in Sessions, BeginRebuild(s)
  PROVE  IInv'
  <1> DEFINE w == [Idle EXCEPT !.op = "rebuild", !.at = "sum", !.todo = Participants]
  <1>2. w \in Work
    BY IdleType DEF Work, Idle
  <1>3. /\ w.op = "rebuild" /\ w.at = "sum" /\ w.posted = Zero /\ w.seen = Zero
        /\ w.todo = Participants /\ w.late = {} /\ w # Idle
    BY DEF Idle
  <1>4. Stages(w)
    BY <1>3 DEF Stages
  <1>5. work' = [work EXCEPT ![s] = w] /\ work[s] = Idle
    BY DEF BeginRebuild, Open
  <1>6. work'[s] = w
    BY <1>5 DEF IInv, TypeOK
  <1> HIDE DEF w
  <1>7. ASSUME NEW p \in Participants PROVE RowOf(s, p)'
    <2>1. lock'[p] # s
      BY <1>5, NoRowsYet DEF BeginRebuild
    <2> QED
      BY <2>1, <1>3, <1>6, ZeroAt DEF RowOf
  <1>8. begun' \in [journals : Nat, rebuilds : Nat]
    BY DEF BeginRebuild, IInv, TypeOK
  <1> QED
    BY <1>2, <1>3, <1>4, <1>5, <1>7, <1>8, OnlyWork DEF BeginRebuild, IInv, TypeOK

-----------------------------------------------------------------------------
(* Reads and the RTGS file                                                 *)

LEMMA InvReadPositions ==
  ASSUME IInv, NEW s \in Sessions, ReadPositions(s)
  PROVE  IInv'
  <1> DEFINE w == [work[s] EXCEPT !.at = "rows", !.seen = pos,
                                  !.todo = {p \in Participants : pos[p] # 0}]
  <1>1. work[s] \in Work /\ pos \in Money
    BY DEF IInv, TypeOK
  <1>2. w \in Work
    BY <1>1 DEF Work
  <1>3. /\ w.op = "cycle" /\ w.at = "rows" /\ w.seen = pos /\ w.posted = work[s].posted
        /\ w.todo = {p \in Participants : pos[p] # 0} /\ w # Idle
    BY <1>1 DEF ReadPositions, Idle, Work
  <1>4. Stages(w)
    BY <1>3 DEF Stages
  <1>5. work' = [work EXCEPT ![s] = w]
    BY DEF ReadPositions
  <1>6. work'[s] = w
    BY <1>5 DEF IInv, TypeOK
  <1>7. work[s].op = "cycle" /\ work[s].seen = Zero /\ work[s].todo = {}
    BY DEF ReadPositions, IInv, Stages
  <1> HIDE DEF w
  <1>8. ASSUME NEW p \in Participants PROVE RowOf(s, p)'
    <2>1. RowOf(s, p)
      BY DEF IInv
    <2>2. lock[p] # s /\ work[s].posted[p] = 0
      BY <2>1 DEF RowOf, ReadPositions
    <2> QED
      BY <2>2, <1>3, <1>6 DEF RowOf, ReadPositions
  <1> QED
    BY <1>2, <1>3, <1>4, <1>5, <1>8, OnlyWork DEF ReadPositions, IInv, TypeOK

LEMMA InvWriteRtgs ==
  ASSUME IInv, NEW s \in Sessions, WriteRtgs(s)
  PROVE  IInv'
  <1> DEFINE w == [work[s] EXCEPT !.at = "commit"]
  <1>1. work[s] \in Work
    BY DEF IInv, TypeOK
  <1>2. w \in Work
    BY <1>1 DEF Work
  <1>3. /\ w.op = "cycle" /\ w.at = "commit" /\ w.seen = work[s].seen
        /\ w.posted = work[s].posted /\ w.todo = work[s].todo /\ w.late = work[s].late
        /\ w # Idle
    BY <1>1 DEF WriteRtgs, Idle, Work
  <1>4. work[s].todo = {} /\ work[s].op = "cycle"
    BY DEF WriteRtgs, IInv, Stages
  <1>5. Stages(w)
    BY <1>3, <1>4 DEF Stages
  <1>6. work' = [work EXCEPT ![s] = w]
    BY DEF WriteRtgs
  <1>7. work'[s] = w
    BY <1>6 DEF IInv, TypeOK
  <1> HIDE DEF w
  <1>8. ASSUME NEW p \in Participants PROVE RowOf(s, p)'
    <2>1. RowOf(s, p) /\ work[s].at # "start"
      BY DEF IInv, WriteRtgs
    <2> QED
      BY <2>1, <1>3, <1>4, <1>7 DEF RowOf, WriteRtgs
  <1>9. rtgs' \in [Cycles -> [written : BOOLEAN, lines : SUBSET RtgsLine]]
    <2>1. work[s].seen \in Money
      BY <1>1 DEF Work
    <2>2. RtgsFile(work[s].seen) \in [written : BOOLEAN, lines : SUBSET RtgsLine]
      BY <2>1, FileType
    <2> QED
      BY <2>2 DEF WriteRtgs, IInv, TypeOK
  <1> QED
    BY <1>2, <1>3, <1>5, <1>6, <1>8, <1>9, OnlyWork DEF WriteRtgs, IInv, TypeOK

LEMMA InvRecompute ==
  ASSUME IInv, NEW s \in Sessions, recomputeFullForAccount(s)
  PROVE  IInv'
  <1>0. PICK q \in Participants :
          /\ First(q, work[s].todo)
          /\ work' = [work EXCEPT ![s].at = "rows", ![s].seen[q] = ledger[q]]
    BY DEF recomputeFullForAccount
  <1> DEFINE w == [work[s] EXCEPT !.at = "rows", !.seen[q] = ledger[q]]
  <1>1. work[s] \in Work /\ ledger[q] \in Int
    BY DEF IInv, TypeOK, Money
  <1>2. w \in Work
    BY <1>1 DEF Work, Money
  <1>3. /\ w.op = "rebuild" /\ w.at = "rows" /\ w.seen[q] = ledger[q]
        /\ w.posted = work[s].posted /\ w.todo = work[s].todo /\ w.late = work[s].late
        /\ w # Idle
    BY <1>1 DEF recomputeFullForAccount, Idle, Work, Money
  <1>5. Stages(w)
    BY <1>3 DEF Stages
  <1>6. work' = [work EXCEPT ![s] = w]
    BY <1>0
  <1>7. work'[s] = w
    BY <1>6 DEF IInv, TypeOK
  <1> HIDE DEF w
  <1>8. ASSUME NEW p \in Participants PROVE RowOf(s, p)'
    <2>1. RowOf(s, p) /\ work[s].op = "rebuild"
      BY DEF IInv, recomputeFullForAccount
    <2>2. First(p, work[s].todo) => p = q
      BY <1>0, ParticipantsAreOrdered DEF First
    <2> QED
      BY <2>1, <2>2, <1>3, <1>7 DEF RowOf, recomputeFullForAccount
  <1> QED
    BY <1>2, <1>3, <1>5, <1>6, <1>8, OnlyWork DEF recomputeFullForAccount, IInv, TypeOK

-----------------------------------------------------------------------------
(* Steps that write one row                                                *)

\* When s writes one row whose lock it has or gets, only s has to be looked at.
LEMMA OneRow ==
  ASSUME IInv, NEW s \in Sessions, NEW q \in Participants, NEW v \in Int, NEW w \in Work,
         Writable(s, q),
         lock' = [lock EXCEPT ![q] = s],
         live' = [live EXCEPT ![q] = v],
         work' = [work EXCEPT ![s] = w],
         UNCHANGED <<pos, ledger, book, active, cycle, rtgs, begun, paid, raced>>,
         Stages(w),
         w # Idle,
         \A p \in Participants : RowOf(s, p)'
  PROVE  IInv'
  <1>1. work' \in [Sessions -> Work] /\ work'[s] = w
    BY DEF IInv, TypeOK
  <1>2. ASSUME NEW t \in Sessions, t # s PROVE work'[t] = work[t]
    BY <1>2 DEF IInv, TypeOK
  <1>3. /\ lock' \in [Participants -> Sessions \cup {NoOne}]
        /\ live' \in Money
        /\ lock'[q] = s
        /\ \A p \in Participants : p # q => lock'[p] = lock[p] /\ live'[p] = live[p]
    BY DEF IInv, TypeOK, Money
  <1>4. LocksAreHeld'
    <2> SUFFICES ASSUME NEW p \in Participants
                 PROVE  IF lock'[p] = NoOne THEN live'[p] = pos'[p] ELSE work'[lock'[p]] # Idle
      BY DEF LocksAreHeld
    <2>1. CASE p = q
      BY <2>1, <1>1, <1>3, NoOneIsNoSession
    <2>2. CASE p # q
      <3>1. IF lock[p] = NoOne THEN live[p] = pos[p] ELSE work[lock[p]] # Idle
        BY DEF IInv, TypeOK, LocksAreHeld
      <3>2. lock[p] \in Sessions \cup {NoOne}
        BY DEF IInv, TypeOK
      <3> QED
        BY <2>2, <3>1, <3>2, <1>1, <1>2, <1>3
    <2> QED
      BY <2>1, <2>2
  <1>5. TypeOK'
    BY <1>1, <1>3, <1>4 DEF IInv, TypeOK
  <1>6. ASSUME NEW t \in Sessions PROVE Stages(work[t])'
    BY <1>1, <1>2 DEF IInv, Stages
  <1>7. ASSUME NEW t \in Sessions, NEW p \in Participants PROVE RowOf(t, p)'
    <2>1. CASE t = s
      BY <2>1
    <2>2. CASE t # s
      <3>1. RowOf(t, p) /\ work'[t] = work[t]
        BY <2>2, <1>2 DEF IInv
      <3>2. CASE p = q
        <4>1. lock[p] # t /\ lock'[p] # t
          BY <2>2, <3>2, <1>3, NoOneIsNoSession DEF Writable
        <4> QED
          BY <3>1, <4>1 DEF RowOf
      <3>3. CASE p # q
        BY <3>1, <3>3, <1>3 DEF RowOf
      <3> QED
        BY <3>2, <3>3
    <2> QED
      BY <2>1, <2>2
  <1>8. ViewExactUnlessRaced'
    BY DEF IInv, ViewExactUnlessRaced
  <1> QED
    BY <1>5, <1>6, <1>7, <1>8 DEF IInv

\* A row still to be written is not locked by its session, so it shows the
\* committed value when it can be written.
LEMMA ToWrite ==
  ASSUME IInv, NEW s \in Sessions, NEW q \in Participants,
         q \in work[s].todo, Writable(s, q)
  PROVE  live[q] = pos[q] /\ lock[q] = NoOne
  <1>1. RowOf(s, q)
    BY DEF IInv
  <1>2. lock[q] = NoOne
    BY <1>1 DEF RowOf, Writable
  <1> QED
    BY <1>2 DEF IInv, TypeOK, LocksAreHeld

LEMMA InvApplyPosting ==
  ASSUME IInv, NEW s \in Sessions, NEW q \in Participants, ApplyPosting(s, q)
  PROVE  IInv'
  <1> DEFINE w == [work[s] EXCEPT !.todo = @ \ {q}, !.posted[q] = work[s].seen[q]]
  <1>1. work[s] \in Work /\ live \in Money /\ pos \in Money
    BY DEF IInv, TypeOK
  <1>2. work[s].seen[q] \in Int /\ live[q] \in Int /\ pos[q] \in Int
    BY <1>1 DEF Work, Money
  <1>3. w \in Work
    BY <1>1, <1>2 DEF Work, Money
  <1>4. /\ w.op = work[s].op /\ w.at = work[s].at /\ w.seen = work[s].seen
        /\ w.posted[q] = work[s].seen[q]
        /\ \A p \in Participants : p # q => w.posted[p] = work[s].posted[p]
        /\ w.todo = work[s].todo \ {q} /\ w.late = work[s].late
    BY <1>1 DEF Work, Money
  <1>5. w.op \in {"pay", "topup"} /\ w # Idle
    BY <1>4 DEF ApplyPosting, Idle
  <1>6. Stages(w)
    BY <1>4, <1>5 DEF Stages, IInv, ApplyPosting
  <1>7. work' = [work EXCEPT ![s] = w]
    BY DEF ApplyPosting
  <1>8. work'[s] = w
    BY <1>7 DEF IInv, TypeOK
  <1>9. live[q] = pos[q] /\ lock[q] = NoOne
    BY ToWrite DEF ApplyPosting, upsertDelta
  <1>10. /\ lock' = [lock EXCEPT ![q] = s]
         /\ live' = [live EXCEPT ![q] = live[q] + work[s].seen[q]]
         /\ Writable(s, q)
    BY DEF ApplyPosting, upsertDelta
  <1>11. /\ lock'[q] = s /\ live'[q] = pos[q] + work[s].seen[q]
         /\ \A p \in Participants : p # q => lock'[p] = lock[p] /\ live'[p] = live[p]
    BY <1>1, <1>9, <1>10 DEF IInv, TypeOK, Money
  <1> HIDE DEF w
  <1>12. ASSUME NEW p \in Participants PROVE RowOf(s, p)'
    <2>1. RowOf(s, p)
      BY DEF IInv
    <2>2. CASE p = q
      BY <2>2, <1>4, <1>5, <1>8, <1>11 DEF RowOf, ApplyPosting
    <2>3. CASE p # q
      BY <2>1, <2>3, <1>4, <1>5, <1>8, <1>11 DEF RowOf, ApplyPosting
    <2> QED
      BY <2>2, <2>3
  <1>13. live[q] + work[s].seen[q] \in Int
    BY <1>2
  <1> QED
    BY <1>3, <1>5, <1>6, <1>7, <1>10, <1>12, <1>13, OneRow DEF ApplyPosting

LEMMA InvDrain ==
  ASSUME IInv, NEW s \in Sessions, Drain(s)
  PROVE  IInv'
  <1>0. PICK q \in Participants :
          /\ First(q, work[s].todo)
          /\ upsertDelta(s, q, -work[s].seen[q])
          /\ work' = [work EXCEPT ![s].todo = @ \ {q}, ![s].posted[q] = -work[s].seen[q]]
    BY DEF Drain
  <1> DEFINE w == [work[s] EXCEPT !.todo = @ \ {q}, !.posted[q] = -work[s].seen[q]]
  <1>1. work[s] \in Work /\ live \in Money /\ pos \in Money
    BY DEF IInv, TypeOK
  <1>2. work[s].seen[q] \in Int /\ live[q] \in Int /\ pos[q] \in Int
    BY <1>1 DEF Work, Money
  <1>3. w \in Work
    <2>1. -work[s].seen[q] \in Int
      BY <1>2
    <2>2. [work[s].posted EXCEPT ![q] = -work[s].seen[q]] \in Money
      BY <1>1, <2>1 DEF Work, Money
    <2> QED
      BY <1>1, <2>2 DEF Work
  <1>4. /\ w.op = "cycle" /\ w.at = "rows" /\ w.seen = work[s].seen
        /\ w.posted[q] = -work[s].seen[q]
        /\ \A p \in Participants : p # q => w.posted[p] = work[s].posted[p]
        /\ w.todo = work[s].todo \ {q} /\ w.late = work[s].late
        /\ w # Idle
    BY <1>1 DEF Work, Money, Drain, Idle
  <1>6. Stages(w)
    BY <1>4 DEF Stages
  <1>7. work' = [work EXCEPT ![s] = w]
    BY <1>0
  <1>8. work'[s] = w
    BY <1>7 DEF IInv, TypeOK
  <1>9. q \in work[s].todo /\ live[q] = pos[q] /\ lock[q] = NoOne
    BY <1>0, ToWrite DEF First, upsertDelta
  <1>10. /\ lock' = [lock EXCEPT ![q] = s]
         /\ live' = [live EXCEPT ![q] = live[q] + -work[s].seen[q]]
         /\ Writable(s, q)
    BY <1>0 DEF upsertDelta
  <1>11. /\ lock'[q] = s /\ live'[q] = pos[q] + -work[s].seen[q]
         /\ \A p \in Participants : p # q => lock'[p] = lock[p] /\ live'[p] = live[p]
    BY <1>1, <1>9, <1>10 DEF IInv, TypeOK, Money
  <1> HIDE DEF w
  <1>12. ASSUME NEW p \in Participants PROVE RowOf(s, p)'
    <2>1. RowOf(s, p)
      BY DEF IInv
    <2>2. CASE p = q
      <3>1. p \notin work[s].late => work[s].seen[p] = pos[p]
        BY <2>1, <2>2, <1>9 DEF RowOf, Drain
      <3>2. p \notin work[s].late => live'[p] = 0 /\ w.posted[p] = -pos[p]
        BY <3>1, <2>2, <1>2, <1>4, <1>11
      <3> QED
        BY <3>1, <3>2, <2>2, <1>4, <1>8, <1>11 DEF RowOf, Drain
    <2>3. CASE p # q
      BY <2>1, <2>3, <1>4, <1>8, <1>11 DEF RowOf, Drain
    <2> QED
      BY <2>2, <2>3
  <1>13. live[q] + -work[s].seen[q] \in Int
    BY <1>2
  <1> QED
    BY <1>3, <1>4, <1>6, <1>7, <1>10, <1>12, <1>13, OneRow DEF Drain

LEMMA InvSetAbsolute ==
  ASSUME IInv, NEW s \in Sessions, setPositionAbsolute(s)
  PROVE  IInv'
  <1>0. PICK q \in Participants :
          /\ First(q, work[s].todo)
          /\ Writable(s, q)
          /\ lock' = [lock EXCEPT ![q] = s]
          /\ live' = [live EXCEPT ![q] = work[s].seen[q]]
          /\ work' = [work EXCEPT ![s].at = "sum", ![s].todo = @ \ {q}]
    BY DEF setPositionAbsolute
  <1> DEFINE w == [work[s] EXCEPT !.at = "sum", !.todo = @ \ {q}]
  <1>1. work[s] \in Work /\ live \in Money
    BY DEF IInv, TypeOK
  <1>2. work[s].seen[q] \in Int
    BY <1>1 DEF Work, Money
  <1>3. w \in Work
    BY <1>1 DEF Work
  <1>4. /\ w.op = "rebuild" /\ w.at = "sum" /\ w.seen = work[s].seen
        /\ w.posted = work[s].posted
        /\ w.todo = work[s].todo \ {q} /\ w.late = work[s].late
        /\ w # Idle
    BY <1>1 DEF Work, setPositionAbsolute, Idle
  <1>6. Stages(w)
    BY <1>4 DEF Stages
  <1>7. work' = [work EXCEPT ![s] = w]
    BY <1>0
  <1>8. work'[s] = w
    BY <1>7 DEF IInv, TypeOK
  <1>11. /\ lock'[q] = s /\ live'[q] = work[s].seen[q]
         /\ \A p \in Participants : p # q => lock'[p] = lock[p] /\ live'[p] = live[p]
    BY <1>0, <1>1 DEF IInv, TypeOK, Money
  <1> HIDE DEF w
  <1>12. ASSUME NEW p \in Participants PROVE RowOf(s, p)'
    <2>1. RowOf(s, p)
      BY DEF IInv
    <2>2. CASE p = q
      BY <2>1, <2>2, <1>0, <1>4, <1>8, <1>11 DEF RowOf, setPositionAbsolute
    <2>3. CASE p # q
      BY <2>1, <2>3, <1>4, <1>8, <1>11 DEF RowOf, setPositionAbsolute
    <2> QED
      BY <2>2, <2>3
  <1> QED
    BY <1>0, <1>2, <1>3, <1>4, <1>6, <1>7, <1>12, OneRow DEF setPositionAbsolute

\* ResetPositions touches only rows its session has drained already.
LEMMA InvReset ==
  ASSUME IInv, NEW s \in Sessions, ResetPositions(s)
  PROVE  IInv'
  <1> DEFINE w == [work[s] EXCEPT !.at = "file"]
  <1>1. work[s] \in Work /\ work \in [Sessions -> Work]
    BY DEF IInv, TypeOK
  <1>2. w \in Work
    BY <1>1 DEF Work
  <1>3. /\ w.op = "cycle" /\ w.at = "file" /\ w.seen = work[s].seen
        /\ w.posted = work[s].posted /\ w.todo = {} /\ w.late = work[s].late
        /\ w # Idle
    BY <1>1 DEF ResetPositions, Idle, Work
  <1>4. work' = [work EXCEPT ![s] = w] /\ work'[s] = w
    BY <1>1 DEF ResetPositions
  <1>5. ASSUME NEW t \in Sessions, t # s PROVE work'[t] = work[t]
    BY <1>1, <1>4, <1>5
  <1> HIDE DEF w
  <1>6. ASSUME NEW p \in Participants, lock[p] # s PROVE live'[p] = live[p]
    <2>1. RowOf(s, p)
      BY DEF IInv
    <2>2. work[s].seen[p] = 0
      BY <2>1, <1>6 DEF RowOf, ResetPositions
    <2> QED
      BY <2>2 DEF ResetPositions
  <1>7. live' \in Money
    BY DEF ResetPositions, IInv, TypeOK, Money
  <1>8. LocksAreHeld'
    <2> SUFFICES ASSUME NEW p \in Participants
                 PROVE  IF lock'[p] = NoOne THEN live'[p] = pos'[p] ELSE work'[lock'[p]] # Idle
      BY DEF LocksAreHeld
    <2>1. IF lock[p] = NoOne THEN live[p] = pos[p] ELSE work[lock[p]] # Idle
      BY DEF IInv, TypeOK, LocksAreHeld
    <2>2. lock[p] \in Sessions \cup {NoOne} /\ lock' = lock /\ pos' = pos
      BY DEF IInv, TypeOK, ResetPositions
    <2> QED
      BY <2>1, <2>2, <1>3, <1>4, <1>5, <1>6, NoOneIsNoSession
  <1>9. TypeOK'
    BY <1>1, <1>2, <1>4, <1>7, <1>8 DEF IInv, TypeOK, ResetPositions
  <1>10. ASSUME NEW t \in Sessions PROVE Stages(work[t])'
    <2>1. Stages(w)
      BY <1>3 DEF Stages
    <2> QED
      BY <2>1, <1>4, <1>5 DEF IInv, Stages
  <1>11. ASSUME NEW t \in Sessions, NEW p \in Participants PROVE RowOf(t, p)'
    <2>0. RowOf(t, p)
      BY DEF IInv
    <2>1. CASE t = s
      <3>1. lock[p] = s /\ p \notin work[s].late => live'[p] = 0
        <4> SUFFICES ASSUME lock[p] = s, p \notin work[s].late PROVE live'[p] = 0
          OBVIOUS
        <4>1. live[p] = 0
          BY <2>0, <2>1 DEF RowOf, ResetPositions
        <4> QED
          BY <4>1 DEF ResetPositions
      <3> QED
        BY <2>0, <2>1, <3>1, <1>3, <1>4 DEF RowOf, ResetPositions
    <2>2. CASE t # s
      <3>1. CASE lock[p] = t
        <4>1. live'[p] = live[p]
          BY <3>1, <2>2, <1>6
        <4> QED
          BY <2>0, <2>2, <4>1, <1>5 DEF RowOf, ResetPositions
      <3>2. CASE lock[p] # t
        BY <2>0, <2>2, <3>2, <1>5 DEF RowOf, ResetPositions
      <3> QED
        BY <3>1, <3>2
    <2> QED
      BY <2>1, <2>2
  <1>12. ViewExactUnlessRaced'
    BY DEF IInv, ViewExactUnlessRaced, ResetPositions
  <1> QED
    BY <1>9, <1>10, <1>11, <1>12 DEF IInv

-----------------------------------------------------------------------------
(* ROLLBACK                                                                *)

LEMMA InvFail ==
  ASSUME IInv, NEW s \in Sessions, Fail(s)
  PROVE  IInv'
  <1>1. work \in [Sessions -> Work] /\ work' = [work EXCEPT ![s] = Idle]
    BY DEF IInv, TypeOK, Fail, Rollback
  <1>2. work' \in [Sessions -> Work] /\ work'[s] = Idle
    BY <1>1, IdleType
  <1>3. ASSUME NEW t \in Sessions, t # s PROVE work'[t] = work[t]
    BY <1>1, <1>3
  <1>4. ASSUME NEW p \in Participants
        PROVE  /\ lock[p] = s => lock'[p] = NoOne /\ live'[p] = pos[p]
               /\ lock[p] # s => lock'[p] = lock[p] /\ live'[p] = live[p]
    BY DEF Fail, Rollback
  <1>5. /\ lock' \in [Participants -> Sessions \cup {NoOne}]
        /\ live' \in Money
    BY DEF Fail, Rollback, IInv, TypeOK, Money
  <1>6. LocksAreHeld'
    <2> SUFFICES ASSUME NEW p \in Participants
                 PROVE  IF lock'[p] = NoOne THEN live'[p] = pos'[p] ELSE work'[lock'[p]] # Idle
      BY DEF LocksAreHeld
    <2>1. IF lock[p] = NoOne THEN live[p] = pos[p] ELSE work[lock[p]] # Idle
      BY DEF IInv, TypeOK, LocksAreHeld
    <2>2. lock[p] \in Sessions \cup {NoOne} /\ pos' = pos
      BY DEF IInv, TypeOK, Fail
    <2> QED
      BY <2>1, <2>2, <1>3, <1>4, NoOneIsNoSession
  <1>7. TypeOK'
    BY <1>2, <1>5, <1>6 DEF IInv, TypeOK, Fail
  <1>8. ASSUME NEW t \in Sessions PROVE Stages(work[t])'
    BY <1>2, <1>3, IdleStages DEF IInv, Stages
  <1>9. ASSUME NEW t \in Sessions, NEW p \in Participants PROVE RowOf(t, p)'
    <2>0. RowOf(t, p)
      BY DEF IInv
    <2>1. CASE t = s
      <3>1. lock'[p] # s
        BY <1>4, NoOneIsNoSession
      <3> QED
        BY <2>1, <3>1, <1>2, ZeroAt DEF RowOf, Idle
    <2>2. CASE t # s
      <3>1. CASE lock[p] = t
        <4>1. lock'[p] = lock[p] /\ live'[p] = live[p]
          BY <3>1, <2>2, <1>4
        <4> QED
          BY <2>0, <2>2, <4>1, <1>3 DEF RowOf, Fail
      <3>2. CASE lock[p] # t
        <4>1. lock'[p] # t
          BY <3>2, <1>4, NoOneIsNoSession
        <4> QED
          BY <2>0, <2>2, <3>2, <4>1, <1>3 DEF RowOf, Fail
      <3> QED
        BY <3>1, <3>2
    <2> QED
      BY <2>1, <2>2
  <1>10. ViewExactUnlessRaced'
    BY DEF IInv, ViewExactUnlessRaced, Fail
  <1> QED
    BY <1>7, <1>8, <1>9, <1>10 DEF IInv

-----------------------------------------------------------------------------
(* COMMIT                                                                  *)

\* What COMMIT does to a row, seen from its session and from the others.
LEMMA CommitRow ==
  ASSUME IInv, NEW s \in Sessions, Commit(s), NEW p \in Participants
  PROVE  /\ lock[p] = s => lock'[p] = NoOne /\ pos'[p] = live[p]
         /\ lock[p] # s => lock'[p] = lock[p] /\ pos'[p] = pos[p]
                          /\ ledger'[p] = ledger[p]
         /\ live'[p] = live[p]
         /\ ledger'[p] = ledger[p] + work[s].posted[p]
  <1>1. RowOf(s, p) /\ ledger[p] \in Int
    BY DEF IInv, TypeOK, Money
  <1>2. ledger'[p] = ledger[p] + work[s].posted[p]
    BY DEF Commit
  <1>3. lock[p] # s => work[s].posted[p] = 0
    BY <1>1 DEF RowOf
  <1> QED
    BY <1>1, <1>2, <1>3 DEF Commit

\* A session that holds a read of a row another session commits is told so.
LEMMA CommitWork ==
  ASSUME IInv, NEW s \in Sessions, Commit(s), NEW t \in Sessions
  PROVE  /\ t = s => work'[t] = Idle
         /\ t # s => /\ work'[t] \in Work
                     /\ work'[t].op = work[t].op /\ work'[t].at = work[t].at
                     /\ work'[t].todo = work[t].todo /\ work'[t].seen = work[t].seen
                     /\ work'[t].posted = work[t].posted
                     /\ work'[t].late = work[t].late \cup
                          {p \in Participants : lock[p] = s /\ HoldsRead(t, p)}
                     /\ work[t] # Idle => work'[t] # Idle
                     /\ work[t].op = "idle" => work'[t] = work[t]
  <1>1. work[t] \in Work
    BY DEF IInv, TypeOK
  <1> DEFINE told == {p \in Participants : lock[p] = s /\ HoldsRead(t, p)}
  <1>2. t # s => work'[t] = [work[t] EXCEPT !.late = @ \cup told]
    <2>1. {p \in {q \in Participants : lock[q] = s} : HoldsRead(t, p)} = told
      OBVIOUS
    <2> QED
      BY <2>1 DEF Commit
  <1>3. t = s => work'[t] = Idle
    BY DEF Commit
  <1> HIDE DEF told
  <1>4. told \subseteq Participants
    BY DEF told
  <1>5. ASSUME t # s
        PROVE  /\ work'[t] \in Work
               /\ work'[t].op = work[t].op /\ work'[t].at = work[t].at
               /\ work'[t].todo = work[t].todo /\ work'[t].seen = work[t].seen
               /\ work'[t].posted = work[t].posted
               /\ work'[t].late = work[t].late \cup told
    BY <1>1, <1>2, <1>4, <1>5 DEF Work
  <1>6. work[t] # Idle => work[t].op # "idle"
    BY DEF IInv, Stages
  <1>7. Idle.op = "idle"
    BY DEF Idle
  <1>8. ASSUME t # s, work[t].op = "idle" PROVE work'[t] = work[t]
    <2>1. told = {}
      BY <1>8 DEF told, HoldsRead
    <2> QED
      BY <2>1, <1>1, <1>2, <1>8 DEF Work
  <1> QED
    BY <1>3, <1>5, <1>6, <1>7, <1>8 DEF told

LEMMA CommitKeeps ==
  ASSUME IInv, NEW s \in Sessions, Commit(s)
  PROVE  /\ pos' \in Money /\ live' \in Money /\ ledger' \in Money
         /\ lock' \in [Participants -> Sessions \cup {NoOne}]
         /\ book' \in [Days -> Money]
         /\ active' \in [Days -> SUBSET Participants]
         /\ work' \in [Sessions -> Work]
         /\ LocksAreHeld'
         /\ \A t \in Sessions : Stages(work[t])'
         /\ \A t \in Sessions, p \in Participants : RowOf(t, p)'
  <1>0. work[s] \in Work /\ work[s].posted \in Money
    BY DEF IInv, TypeOK, Work
  <1>1. pos' \in Money /\ live' \in Money
    BY DEF Commit, IInv, TypeOK, Money
  <1>2. ledger' \in Money
    BY <1>0 DEF Commit, IInv, TypeOK, Money
  <1>3. lock' \in [Participants -> Sessions \cup {NoOne}]
    BY DEF Commit, IInv, TypeOK
  <1>4. book' \in [Days -> Money]
    <2> SUFFICES ASSUME NEW d \in Days
                 PROVE  [p \in Participants |-> IF d \in work[s].day
                           THEN book[d][p] + work[s].posted[p] ELSE book[d][p]] \in Money
      BY DEF Commit
    <2>1. book[d] \in Money
      BY DEF IInv, TypeOK
    <2> QED
      BY <2>1, <1>0 DEF Money
  <1>5. active' \in [Days -> SUBSET Participants]
    <2>1. active \in [Days -> SUBSET Participants]
      BY DEF IInv, TypeOK
    <2> QED
      BY <2>1 DEF Commit
  <1>6. work' \in [Sessions -> Work]
    <2>1. ASSUME NEW t \in Sessions PROVE work'[t] \in Work
      BY CommitWork, IdleType
    <2>2. work' = [t \in Sessions |-> work'[t]]
      BY DEF Commit
    <2> QED
      BY <2>1, <2>2
  <1>7. LocksAreHeld'
    <2> SUFFICES ASSUME NEW p \in Participants
                 PROVE  IF lock'[p] = NoOne THEN live'[p] = pos'[p] ELSE work'[lock'[p]] # Idle
      BY DEF LocksAreHeld
    <2>1. IF lock[p] = NoOne THEN live[p] = pos[p] ELSE work[lock[p]] # Idle
      BY DEF IInv, TypeOK, LocksAreHeld
    <2>2. lock[p] \in Sessions \cup {NoOne}
      BY DEF IInv, TypeOK
    <2>3. CASE lock[p] = s
      BY <2>3, CommitRow
    <2>4. CASE lock[p] = NoOne
      BY <2>1, <2>4, CommitRow, NoOneIsNoSession
    <2>5. CASE lock[p] # s /\ lock[p] \in Sessions
      <3>1. work'[lock[p]] # Idle /\ lock'[p] = lock[p]
        BY <2>1, <2>5, CommitRow, CommitWork, NoOneIsNoSession
      <3> QED
        BY <3>1, <2>5, NoOneIsNoSession
    <2> QED
      BY <2>2, <2>3, <2>4, <2>5
  <1>8. ASSUME NEW t \in Sessions PROVE Stages(work[t])'
    <2>1. Stages(work[t])
      BY DEF IInv
    <2>2. CASE t = s
      BY <2>2, CommitWork, IdleStages DEF Stages
    <2>3. CASE t # s
      BY <2>1, <2>3, CommitWork DEF Stages
    <2> QED
      BY <2>2, <2>3
  <1>9. ASSUME NEW t \in Sessions, NEW p \in Participants PROVE RowOf(t, p)'
    <2>0. RowOf(t, p)
      BY DEF IInv
    <2>1. CASE t = s
      <3>1. lock'[p] # s
        BY CommitRow, NoOneIsNoSession
      <3>2. work'[s] = Idle
        BY CommitWork
      <3> QED
        BY <2>1, <3>1, <3>2, ZeroAt DEF RowOf, Idle
    <2>2. CASE t # s /\ lock[p] = s
      <3>1. lock'[p] # t /\ lock[p] # t
        BY <2>2, CommitRow, NoOneIsNoSession
      <3>2. HoldsRead(t, p) => p \in work'[t].late
        BY <2>2, CommitWork
      <3>3. work[t].op = "cycle" /\ p \in work[t].todo => HoldsRead(t, p)
        BY DEF HoldsRead, IInv, Stages
      <3>4. work[t].op = "rebuild" /\ work[t].at = "rows" /\ First(p, work[t].todo)
              => HoldsRead(t, p)
        BY DEF HoldsRead
      <3> QED
        BY <2>0, <2>2, <3>1, <3>2, <3>3, <3>4, CommitWork DEF RowOf
    <2>3. CASE t # s /\ lock[p] # s
      <3>1. lock'[p] = lock[p] /\ pos'[p] = pos[p] /\ ledger'[p] = ledger[p] /\ live'[p] = live[p]
        BY <2>3, CommitRow
      <3> QED
        BY <2>0, <2>3, <3>1, CommitWork DEF RowOf
    <2> QED
      BY <2>1, <2>2, <2>3
  <1> QED
    BY <1>1, <1>2, <1>3, <1>4, <1>5, <1>6, <1>7, <1>8, <1>9

LEMMA InvCommitJournal ==
  ASSUME IInv, NEW s \in Sessions, CommitJournal(s)
  PROVE  IInv'
  <1>1. Commit(s)
    BY DEF CommitJournal
  <1>2. paid' \in Money
    <2>1. paid \in Money /\ work[s].posted \in Money
      BY DEF IInv, TypeOK, Work
    <2> QED
      BY <2>1 DEF CommitJournal, Sum, Money
  <1>3. TypeOK'
    BY <1>1, <1>2, CommitKeeps DEF CommitJournal, IInv, TypeOK
  <1>4. ASSUME NEW p \in Participants, p \notin raced PROVE pos'[p] = ledger'[p]
    <2>1. pos[p] = ledger[p] /\ RowOf(s, p)
      BY <1>4 DEF IInv, ViewExactUnlessRaced
    <2> QED
      BY <1>1, <2>1, CommitRow DEF RowOf, CommitJournal
  <1>5. ViewExactUnlessRaced'
    BY <1>4 DEF ViewExactUnlessRaced, CommitJournal
  <1> QED
    BY <1>1, <1>3, <1>5, CommitKeeps DEF IInv

LEMMA InvCommitCycle ==
  ASSUME IInv, NEW s \in Sessions, CommitCycle(s)
  PROVE  IInv'
  <1>1. Commit(s)
    BY DEF CommitCycle
  <1>2. work[s].seen \in Money /\ work[s].late \in SUBSET Participants
    BY DEF IInv, TypeOK, Work
  <1> DEFINE Rows == [state : {"absent", "pending", "completed", "failed"},
                      day : SUBSET Days, moves : Money]
  <1>3. cycle' \in [Cycles -> Rows]
    <2>1. ASSUME NEW c \in Cycles
          PROVE  [cycle[c] EXCEPT !.state = "completed", !.moves = work[s].seen] \in Rows
      <3>1. cycle[c] \in Rows
        BY DEF IInv, TypeOK
      <3> QED
        BY <3>1, <1>2
    <2>2. \A c \in Cycles : cycle[c] \in Rows
      BY DEF IInv, TypeOK
    <2> HIDE DEF Rows
    <2> QED
      BY <2>1, <2>2 DEF CommitCycle
  <1>4. TypeOK'
    BY <1>1, <1>2, <1>3, CommitKeeps DEF CommitCycle, IInv, TypeOK
  <1>5. ASSUME NEW p \in Participants, p \notin raced' PROVE pos'[p] = ledger'[p]
    <2>1. p \notin raced /\ p \notin work[s].late
      BY <1>5 DEF CommitCycle
    <2>2. pos[p] = ledger[p] /\ RowOf(s, p)
      BY <2>1 DEF IInv, ViewExactUnlessRaced
    <2>3. pos[p] \in Int
      BY DEF IInv, TypeOK, Money
    <2>4. CASE lock[p] = s
      <3>1. live[p] = 0 /\ work[s].posted[p] = -pos[p]
        BY <2>1, <2>2, <2>4 DEF RowOf, CommitCycle
      <3> QED
        BY <1>1, <2>2, <2>3, <2>4, <3>1, CommitRow
    <2>5. CASE lock[p] # s
      BY <1>1, <2>2, <2>5, CommitRow
    <2> QED
      BY <2>4, <2>5
  <1>6. ViewExactUnlessRaced'
    BY <1>5 DEF ViewExactUnlessRaced
  <1> QED
    BY <1>1, <1>4, <1>6, CommitKeeps DEF IInv

LEMMA InvCommitRebuild ==
  ASSUME IInv, NEW s \in Sessions, CommitRebuild(s)
  PROVE  IInv'
  <1>1. Commit(s)
    BY DEF CommitRebuild
  <1>2. work[s].late \in SUBSET Participants
    BY DEF IInv, TypeOK, Work
  <1>3. TypeOK'
    BY <1>1, <1>2, CommitKeeps DEF CommitRebuild, IInv, TypeOK
  <1>4. ASSUME NEW p \in Participants, p \notin raced' PROVE pos'[p] = ledger'[p]
    <2>1. p \notin work[s].late /\ p \notin work[s].todo
      BY <1>4 DEF CommitRebuild
    <2>2. RowOf(s, p) /\ ledger[p] \in Int
      BY DEF IInv, TypeOK, Money
    <2> QED
      BY <1>1, <2>1, <2>2, CommitRow DEF RowOf, CommitRebuild
  <1>5. ViewExactUnlessRaced'
    BY <1>4 DEF ViewExactUnlessRaced
  <1> QED
    BY <1>1, <1>3, <1>5, CommitKeeps DEF IInv

-----------------------------------------------------------------------------
(* Cycles that are created or closed, and the theorems                     *)

LEMMA InvCycleRow ==
  ASSUME IInv, NEW c \in Cycles, closeCycle(c) \/ \E d \in Days : CreateCycle(c, d)
  PROVE  IInv'
  <1> DEFINE Rows == [state : {"absent", "pending", "completed", "failed"},
                      day : SUBSET Days, moves : Money]
  <1>0. cycle \in [Cycles -> Rows]
    BY DEF IInv, TypeOK
  <1>1. cycle' \in [Cycles -> Rows]
    <2>1. CASE closeCycle(c)
      <3>1. [cycle[c] EXCEPT !.state = "failed"] \in Rows
        BY <1>0
      <3>2. cycle' = [cycle EXCEPT ![c] = [cycle[c] EXCEPT !.state = "failed"]]
        BY <2>1 DEF closeCycle
      <3> HIDE DEF Rows
      <3> QED
        BY <1>0, <3>1, <3>2
    <2>2. CASE \E d \in Days : CreateCycle(c, d)
      <3> PICK d \in Days : CreateCycle(c, d)
        BY <2>2
      <3>1. [cycle[c] EXCEPT !.state = "pending", !.day = {d}] \in Rows
        BY <1>0
      <3>2. cycle' = [cycle EXCEPT ![c] = [cycle[c] EXCEPT !.state = "pending", !.day = {d}]]
        BY DEF CreateCycle
      <3> HIDE DEF Rows
      <3> QED
        BY <1>0, <3>1, <3>2
    <2> QED
      BY <2>1, <2>2
  <1>2. UNCHANGED <<pos, live, lock, ledger, book, active, rtgs, work, begun, paid, raced>>
    BY DEF closeCycle, CreateCycle
  <1>3. TypeOK'
    BY <1>1, <1>2 DEF IInv, TypeOK, LocksAreHeld
  <1>4. \A s \in Sessions : Stages(work[s])'
    BY <1>2 DEF IInv, Stages
  <1>5. \A s \in Sessions, p \in Participants : RowOf(s, p)'
    BY <1>2 DEF IInv, RowOf
  <1>6. ViewExactUnlessRaced'
    BY <1>2 DEF IInv, ViewExactUnlessRaced
  <1> QED
    BY <1>3, <1>4, <1>5, <1>6 DEF IInv

LEMMA InvStutter == IInv /\ UNCHANGED vars => IInv'
  BY DEF IInv, vars, TypeOK, LocksAreHeld, Stages, RowOf, ViewExactUnlessRaced

LEMMA InvStep == IInv /\ [Next]_vars => IInv'
  <1> SUFFICES ASSUME IInv, [Next]_vars PROVE IInv'
    OBVIOUS
  <1>1. CASE \E s \in Sessions : Begin(s)
    BY <1>1, InvBeginPayment, InvBeginTopUp, InvBeginCycle, InvBeginRebuild DEF Begin
  <1>2. CASE \E s \in Sessions : SessionStep(s)
    <2> PICK s \in Sessions : SessionStep(s)
      BY <1>2
    <2>1. CASE \E p \in Participants : ApplyPosting(s, p)
      BY <2>1, InvApplyPosting
    <2>2. CASE CommitJournal(s) \/ CommitCycle(s) \/ CommitRebuild(s)
      BY <2>2, InvCommitJournal, InvCommitCycle, InvCommitRebuild
    <2>3. CASE ReadPositions(s) \/ Drain(s) \/ ResetPositions(s) \/ WriteRtgs(s)
      BY <2>3, InvReadPositions, InvDrain, InvReset, InvWriteRtgs
    <2>4. CASE recomputeFullForAccount(s) \/ setPositionAbsolute(s)
      BY <2>4, InvRecompute, InvSetAbsolute
    <2>5. CASE Fail(s)
      BY <2>5, InvFail
    <2> QED
      BY <2>1, <2>2, <2>3, <2>4, <2>5 DEF SessionStep
  <1>3. CASE \E c \in Cycles : closeCycle(c) \/ \E d \in Days : CreateCycle(c, d)
    BY <1>3, InvCycleRow
  <1>4. CASE UNCHANGED vars
    BY <1>4, InvStutter
  <1> QED
    BY <1>1, <1>2, <1>3, <1>4 DEF Next

\* Everything that is reachable satisfies the inductive invariant.
THEOREM InductiveInvariant == Spec => []IInv
  BY InvInit, InvStep, PTL DEF Spec

\* The types hold, and a locked position row always belongs to an open
\* transaction while an unlocked one shows what was committed.
THEOREM TypesAndLocks == Spec => []TypeOK
  <1>1. IInv => TypeOK
    BY DEF IInv
  <1> QED
    BY <1>1, InductiveInvariant, PTL

\* The settlement view is exact on every row that no cycle and no rebuild has
\* overwritten after it changed under their read, for any number of sessions,
\* participants, cycles, payments and rebuilds.
THEOREM ViewIsExactUnlessRaced == Spec => []ViewExactUnlessRaced
  <1>1. IInv => ViewExactUnlessRaced
    BY DEF IInv
  <1> QED
    BY <1>1, InductiveInvariant, PTL

-----------------------------------------------------------------------------
(* A cycle is run by one session at a time and only while it is pending    *)

\* The file of a completed cycle is the one built from its movements.
FilesAreTheMoves ==
  \A c \in Cycles : cycle[c].state = "completed" => rtgs[c] = RtgsFile(cycle[c].moves)

CycInv ==
  /\ \A s \in Sessions, c \in Cycles : c \in work[s].on => cycle[c].state = "pending"
  /\ \A s, t \in Sessions, c \in Cycles : c \in work[s].on /\ c \in work[t].on => s = t
  /\ \A s \in Sessions, c \in Cycles :
       work[s].op = "cycle" /\ work[s].at = "commit" /\ c \in work[s].on
         => rtgs[c] = RtgsFile(work[s].seen)
  /\ FilesAreTheMoves

\* What a step of a session does to the transactions as far as cycles go.
SameCycles(s) ==
  /\ UNCHANGED <<cycle, rtgs>>
  /\ \A t \in Sessions : work'[t].on \subseteq work[t].on
  /\ \A t \in Sessions : work'[t].op = "cycle" /\ work'[t].at = "commit" =>
       work[t].op = "cycle" /\ work[t].at = "commit" /\ work'[t].seen = work[t].seen

LEMMA SameCyclesKeeps ==
  ASSUME CycInv, NEW s \in Sessions, SameCycles(s)
  PROVE  CycInv'
  BY DEF CycInv, SameCycles, FilesAreTheMoves

LEMMA CommitOn ==
  ASSUME IInv, NEW s \in Sessions, Commit(s), NEW t \in Sessions
  PROVE  work'[t].on \subseteq work[t].on
  <1>1. work[t] \in Work
    BY DEF IInv, TypeOK
  <1>2. CASE t = s
    BY <1>2, CommitWork DEF Idle
  <1>3. CASE t # s
    BY <1>1, <1>3 DEF Commit, Work
  <1> QED
    BY <1>2, <1>3

LEMMA CommitSameCycles ==
  ASSUME IInv, NEW s \in Sessions, Commit(s), UNCHANGED <<cycle, rtgs>>
  PROVE  SameCycles(s)
  <1>1. ASSUME NEW t \in Sessions, work'[t].op = "cycle"
        PROVE  work'[t].op = work[t].op /\ work'[t].at = work[t].at /\ work'[t].seen = work[t].seen
    BY <1>1, CommitWork DEF Idle
  <1> QED
    BY <1>1, CommitOn DEF SameCycles

\* A step that rewrites one transaction and keeps the cycle in its hands.
LEMMA OneWorkSameCycles ==
  ASSUME NEW s \in Sessions, NEW w, work \in [Sessions -> Work],
         work' = [work EXCEPT ![s] = w], UNCHANGED <<cycle, rtgs>>,
         w.on \subseteq work[s].on, w.at # "commit" \/ w.op # "cycle"
  PROVE  SameCycles(s)
  <1>1. \A t \in Sessions : work'[t] = IF t = s THEN w ELSE work[t]
    OBVIOUS
  <1> QED
    BY <1>1 DEF SameCycles

\* A session that is not waiting to commit a cycle and stays in that state.
LEMMA ApplyPostingSameCycles ==
  ASSUME IInv, NEW s \in Sessions, NEW p \in Participants, ApplyPosting(s, p)
  PROVE  SameCycles(s)
  <1> DEFINE w == [work[s] EXCEPT !.todo = @ \ {p}, !.posted[p] = work[s].seen[p]]
  <1>1. work[s] \in Work /\ work \in [Sessions -> Work]
    BY DEF IInv, TypeOK
  <1>2. w.on = work[s].on /\ w.op = work[s].op
    BY <1>1 DEF Work
  <1>3. /\ work' = [work EXCEPT ![s] = w] /\ UNCHANGED <<cycle, rtgs>>
        /\ work[s].op \in {"pay", "topup"}
    BY DEF ApplyPosting
  <1> HIDE DEF w
  <1> QED
    BY <1>1, <1>2, <1>3, OneWorkSameCycles

LEMMA CycleStepsSameCycles ==
  ASSUME IInv, NEW s \in Sessions, ReadPositions(s) \/ Drain(s) \/ ResetPositions(s)
  PROVE  SameCycles(s)
  <1>1. work[s] \in Work /\ work \in [Sessions -> Work]
    BY DEF IInv, TypeOK
  <1>2. CASE ReadPositions(s)
    <2> DEFINE w == [work[s] EXCEPT !.at = "rows", !.seen = pos,
                                    !.todo = {p \in Participants : pos[p] # 0}]
    <2>1. w.on = work[s].on /\ w.at = "rows"
      BY <1>1 DEF Work
    <2>2. work' = [work EXCEPT ![s] = w] /\ UNCHANGED <<cycle, rtgs>>
      BY <1>2 DEF ReadPositions
    <2> HIDE DEF w
    <2> QED
      BY <1>1, <2>1, <2>2, OneWorkSameCycles
  <1>3. CASE Drain(s)
    <2>1. PICK p \in Participants :
            work' = [work EXCEPT ![s].todo = @ \ {p}, ![s].posted[p] = -work[s].seen[p]]
      BY <1>3 DEF Drain
    <2> DEFINE w == [work[s] EXCEPT !.todo = @ \ {p}, !.posted[p] = -work[s].seen[p]]
    <2>2. w.on = work[s].on /\ w.at = work[s].at
      BY <1>1 DEF Work
    <2>3. work' = [work EXCEPT ![s] = w] /\ UNCHANGED <<cycle, rtgs>> /\ work[s].at = "rows"
      BY <1>3, <2>1 DEF Drain
    <2> HIDE DEF w
    <2> QED
      BY <1>1, <2>2, <2>3, OneWorkSameCycles
  <1>4. CASE ResetPositions(s)
    <2> DEFINE w == [work[s] EXCEPT !.at = "file"]
    <2>1. w.on = work[s].on /\ w.at = "file"
      BY <1>1 DEF Work
    <2>2. work' = [work EXCEPT ![s] = w] /\ UNCHANGED <<cycle, rtgs>>
      BY <1>4 DEF ResetPositions
    <2> HIDE DEF w
    <2> QED
      BY <1>1, <2>1, <2>2, OneWorkSameCycles
  <1> QED
    BY <1>2, <1>3, <1>4

LEMMA RebuildSameCycles ==
  ASSUME IInv, NEW s \in Sessions, recomputeFullForAccount(s) \/ setPositionAbsolute(s)
  PROVE  SameCycles(s)
  <1>1. work[s] \in Work /\ work \in [Sessions -> Work]
    BY DEF IInv, TypeOK
  <1>2. CASE recomputeFullForAccount(s)
    <2>1. PICK p \in Participants :
            work' = [work EXCEPT ![s].at = "rows", ![s].seen[p] = ledger[p]]
      BY <1>2 DEF recomputeFullForAccount
    <2> DEFINE w == [work[s] EXCEPT !.at = "rows", !.seen[p] = ledger[p]]
    <2>2. w.on = work[s].on /\ w.at = "rows"
      BY <1>1 DEF Work
    <2>3. work' = [work EXCEPT ![s] = w] /\ UNCHANGED <<cycle, rtgs>>
      BY <1>2, <2>1 DEF recomputeFullForAccount
    <2> HIDE DEF w
    <2> QED
      BY <1>1, <2>2, <2>3, OneWorkSameCycles
  <1>3. CASE setPositionAbsolute(s)
    <2>1. PICK p \in Participants :
            work' = [work EXCEPT ![s].at = "sum", ![s].todo = @ \ {p}]
      BY <1>3 DEF setPositionAbsolute
    <2> DEFINE w == [work[s] EXCEPT !.at = "sum", !.todo = @ \ {p}]
    <2>2. w.on = work[s].on /\ w.at = "sum"
      BY <1>1 DEF Work
    <2>3. work' = [work EXCEPT ![s] = w] /\ UNCHANGED <<cycle, rtgs>>
      BY <1>3, <2>1 DEF setPositionAbsolute
    <2> HIDE DEF w
    <2> QED
      BY <1>1, <2>2, <2>3, OneWorkSameCycles
  <1> QED
    BY <1>2, <1>3

LEMMA OpenSameCycles ==
  ASSUME IInv, NEW s \in Sessions, NEW w, w.op # "cycle", w.on = {},
         work' = [work EXCEPT ![s] = w], UNCHANGED <<cycle, rtgs>>
  PROVE  SameCycles(s)
  <1>1. work \in [Sessions -> Work]
    BY DEF IInv, TypeOK
  <1> QED
    BY <1>1, OneWorkSameCycles

LEMMA BeginSameCycles ==
  ASSUME IInv, NEW s \in Sessions,
         \/ \E from, to \in Participants, amount \in Amounts, d \in Days :
               BeginPayment(s, from, to, amount, d)
         \/ \E p \in Participants, amount \in Amounts, d \in Days : BeginTopUp(s, p, amount, d)
         \/ BeginRebuild(s)
         \/ Fail(s)
  PROVE  SameCycles(s)
  <1>1. CASE \E from, to \in Participants, amount \in Amounts, d \in Days :
               BeginPayment(s, from, to, amount, d)
    <2>1. PICK from, to \in Participants, amount \in Amounts, d \in Days :
            BeginPayment(s, from, to, amount, d)
      BY <1>1
    <2> DEFINE w == [Idle EXCEPT !.op = "pay", !.at = "rows", !.day = {d}, !.todo = {from, to},
                                 !.seen = [Zero EXCEPT ![from] = -amount, ![to] = amount]]
    <2>2. w.op = "pay" /\ w.on = {}
      BY DEF Idle
    <2>3. work' = [work EXCEPT ![s] = w] /\ UNCHANGED <<cycle, rtgs>>
      BY <2>1 DEF BeginPayment, Open
    <2> HIDE DEF w
    <2> QED
      BY <2>2, <2>3, OpenSameCycles
  <1>2. CASE \E p \in Participants, amount \in Amounts, d \in Days : BeginTopUp(s, p, amount, d)
    <2>1. PICK p \in Participants, amount \in Amounts, d \in Days : BeginTopUp(s, p, amount, d)
      BY <1>2
    <2> DEFINE w == [Idle EXCEPT !.op = "topup", !.at = "rows", !.day = {d}, !.todo = {p},
                                 !.seen = [Zero EXCEPT ![p] = amount]]
    <2>2. w.op = "topup" /\ w.on = {}
      BY DEF Idle
    <2>3. work' = [work EXCEPT ![s] = w] /\ UNCHANGED <<cycle, rtgs>>
      BY <2>1 DEF BeginTopUp, Open
    <2> HIDE DEF w
    <2> QED
      BY <2>2, <2>3, OpenSameCycles
  <1>3. CASE BeginRebuild(s)
    <2> DEFINE w == [Idle EXCEPT !.op = "rebuild", !.at = "sum", !.todo = Participants]
    <2>1. w.op = "rebuild" /\ w.on = {}
      BY DEF Idle
    <2>2. work' = [work EXCEPT ![s] = w] /\ UNCHANGED <<cycle, rtgs>>
      BY <1>3 DEF BeginRebuild, Open
    <2> HIDE DEF w
    <2> QED
      BY <2>1, <2>2, OpenSameCycles
  <1>4. CASE Fail(s)
    <2>1. Idle.op = "idle" /\ Idle.on = {}
      BY DEF Idle
    <2>2. work' = [work EXCEPT ![s] = Idle] /\ UNCHANGED <<cycle, rtgs>>
      BY <1>4 DEF Fail, Rollback
    <2> HIDE DEF Idle
    <2> QED
      BY <2>1, <2>2, OpenSameCycles
  <1> QED
    BY <1>1, <1>2, <1>3, <1>4

LEMMA CommitOthersSameCycles ==
  ASSUME IInv, NEW s \in Sessions, CommitJournal(s) \/ CommitRebuild(s)
  PROVE  SameCycles(s)
  BY CommitSameCycles DEF CommitJournal, CommitRebuild

-----------------------------------------------------------------------------

LEMMA CycInit ==
  ASSUME Init
  PROVE  CycInv
  BY DEF Init, CycInv, Idle, Absent, FilesAreTheMoves

LEMMA CycStutter ==
  ASSUME CycInv, UNCHANGED vars
  PROVE  CycInv'
  BY DEF vars, CycInv, FilesAreTheMoves

\* A cycle is taken from pending, by a session that has nothing else open.
LEMMA CycBegin ==
  ASSUME IInv, CycInv, NEW s \in Sessions, NEW c \in Cycles, BeginCycle(s, c)
  PROVE  CycInv'
  <1> DEFINE w == [Idle EXCEPT !.op = "cycle", !.on = {c}, !.day = cycle[c].day]
  <1>1. w.on = {c} /\ w.at = "start"
    BY DEF Idle
  <1>2. /\ work' = [work EXCEPT ![s] = w] /\ UNCHANGED <<cycle, rtgs>>
        /\ cycle[c].state = "pending" /\ \A t \in Sessions : c \notin work[t].on
    BY DEF BeginCycle, Open, CycleIsUnlocked
  <1> HIDE DEF w
  <1>3. \A t \in Sessions : work'[t] = IF t = s THEN w ELSE work[t]
    BY <1>2 DEF IInv, TypeOK
  <1> QED
    BY <1>1, <1>2, <1>3 DEF CycInv, FilesAreTheMoves

\* The file says what the transaction has read, under the id of its cycle.
LEMMA CycWriteRtgs ==
  ASSUME IInv, CycInv, NEW s \in Sessions, WriteRtgs(s)
  PROVE  CycInv'
  <1> DEFINE w == [work[s] EXCEPT !.at = "commit"]
  <1>0. work[s] \in Work /\ work \in [Sessions -> Work]
    BY DEF IInv, TypeOK
  <1>1. w.on = work[s].on /\ w.seen = work[s].seen /\ w.op = work[s].op
    BY <1>0 DEF Work
  <1>2. work' = [work EXCEPT ![s] = w] /\ cycle' = cycle
    BY DEF WriteRtgs
  <1>3. \A c \in Cycles : rtgs'[c] = IF c \in work[s].on
                                     THEN RtgsFile(work[s].seen) ELSE rtgs[c]
    BY DEF WriteRtgs
  <1> HIDE DEF w
  <1>4. \A t \in Sessions : work'[t] = IF t = s THEN w ELSE work[t]
    BY <1>0, <1>2
  <1>5. \A t \in Sessions, c \in Cycles : c \in work'[t].on <=> c \in work[t].on
    BY <1>1, <1>4
  <1>6. \A t \in Sessions, c \in Cycles :
          work'[t].op = "cycle" /\ work'[t].at = "commit" /\ c \in work'[t].on
            => rtgs'[c] = RtgsFile(work'[t].seen)
    <2> SUFFICES ASSUME NEW t \in Sessions, NEW c \in Cycles, work'[t].op = "cycle",
                        work'[t].at = "commit", c \in work'[t].on
                 PROVE  rtgs'[c] = RtgsFile(work'[t].seen)
      OBVIOUS
    <2>1. c \in work[t].on
      BY <1>5
    <2>2. CASE t = s
      BY <1>1, <1>3, <1>4, <2>1, <2>2
    <2>3. CASE t # s
      <3>1. c \notin work[s].on
        BY <2>1, <2>3 DEF CycInv
      <3>2. work'[t] = work[t]
        BY <1>4, <2>3
      <3> QED
        BY <1>3, <2>1, <3>1, <3>2 DEF CycInv
    <2> QED
      BY <2>2, <2>3
  <1>7. FilesAreTheMoves'
    BY <1>2, <1>3 DEF CycInv, FilesAreTheMoves
  <1> QED
    BY <1>2, <1>5, <1>6, <1>7 DEF CycInv

\* The cycle completes with the movements its file says.
LEMMA CycCommit ==
  ASSUME IInv, CycInv, NEW s \in Sessions, CommitCycle(s)
  PROVE  CycInv'
  <1>0. cycle \in [Cycles -> [state : {"absent", "pending", "completed", "failed"},
                              day : SUBSET Days, moves : Money]]
    BY DEF IInv, TypeOK
  <1>c. Commit(s)
    BY DEF CommitCycle
  <1>1. /\ rtgs' = rtgs /\ work[s].op = "cycle" /\ work[s].at = "commit"
        /\ \A c \in Cycles : cycle'[c] =
             IF c \in work[s].on
             THEN [cycle[c] EXCEPT !.state = "completed", !.moves = work[s].seen] ELSE cycle[c]
    BY DEF CommitCycle
  <1>2. \A t \in Sessions : work'[t].on \subseteq work[t].on
    BY <1>c, CommitOn
  <1>3. work'[s].on = {} /\ work'[s].op = "idle"
    <2>1. work'[s] = Idle
      BY <1>c, CommitWork
    <2> QED
      BY <2>1 DEF Idle
  <1>4. \A t \in Sessions : work'[t].op = "cycle" =>
          work'[t].op = work[t].op /\ work'[t].at = work[t].at /\ work'[t].seen = work[t].seen
    BY <1>c, <1>3, CommitWork
  <1>5. \A t \in Sessions, c \in Cycles : c \in work'[t].on => c \notin work[s].on
    BY <1>2, <1>3 DEF CycInv
  <1>6. \A t \in Sessions, c \in Cycles : c \in work'[t].on => cycle'[c].state = "pending"
    BY <1>1, <1>2, <1>5 DEF CycInv
  <1>7. \A t, u \in Sessions, c \in Cycles : c \in work'[t].on /\ c \in work'[u].on => t = u
    BY <1>2 DEF CycInv
  <1>8. \A t \in Sessions, c \in Cycles :
          work'[t].op = "cycle" /\ work'[t].at = "commit" /\ c \in work'[t].on
            => rtgs'[c] = RtgsFile(work'[t].seen)
    <2> SUFFICES ASSUME NEW t \in Sessions, NEW c \in Cycles, work'[t].op = "cycle",
                        work'[t].at = "commit", c \in work'[t].on
                 PROVE  rtgs'[c] = RtgsFile(work'[t].seen)
      OBVIOUS
    <2>1. c \in work[t].on
      BY <1>2
    <2>2. work[t].op = "cycle" /\ work[t].at = "commit" /\ work'[t].seen = work[t].seen
      BY <1>4
    <2> QED
      BY <1>1, <2>1, <2>2 DEF CycInv
  <1>9. ASSUME NEW c \in Cycles, cycle'[c].state = "completed"
        PROVE  rtgs'[c] = RtgsFile(cycle'[c].moves)
    <2>1. CASE c \in work[s].on
      <3>1. rtgs[c] = RtgsFile(work[s].seen)
        BY <1>1, <2>1 DEF CycInv
      <3>2. cycle'[c].moves = work[s].seen
        BY <1>0, <1>1, <2>1
      <3> QED
        BY <1>1, <3>1, <3>2
    <2>2. CASE c \notin work[s].on
      BY <1>1, <1>9, <2>2 DEF CycInv, FilesAreTheMoves
    <2> QED
      BY <2>1, <2>2
  <1> QED
    BY <1>6, <1>7, <1>8, <1>9 DEF CycInv, FilesAreTheMoves

\* A cycle row is created or closed while no transaction holds it.
LEMMA CycRow ==
  ASSUME IInv, CycInv, NEW c \in Cycles, closeCycle(c) \/ \E d \in Days : CreateCycle(c, d)
  PROVE  CycInv'
  <1>0. cycle \in [Cycles -> [state : {"absent", "pending", "completed", "failed"},
                              day : SUBSET Days, moves : Money]]
    BY DEF IInv, TypeOK
  <1>1. /\ UNCHANGED <<work, rtgs>> /\ cycle'[c].state \in {"pending", "failed"}
        /\ \A b \in Cycles : b # c => cycle'[b] = cycle[b]
    BY <1>0 DEF closeCycle, CreateCycle
  <1>2. \A t \in Sessions : c \notin work[t].on
    <2>1. CASE closeCycle(c)
      BY <2>1 DEF closeCycle, CycleIsUnlocked
    <2>2. CASE \E d \in Days : CreateCycle(c, d)
      BY <2>2 DEF CreateCycle, CycInv
    <2> QED
      BY <2>1, <2>2
  <1> QED
    BY <1>1, <1>2 DEF CycInv, FilesAreTheMoves

LEMMA CycStep ==
  ASSUME IInv, CycInv, [Next]_vars
  PROVE  CycInv'
  <1>1. ASSUME NEW s \in Sessions, Begin(s)
        PROVE  CycInv'
    <2>1. CASE \E c \in Cycles : BeginCycle(s, c)
      BY <2>1, CycBegin
    <2>2. CASE ~ \E c \in Cycles : BeginCycle(s, c)
      BY <1>1, <2>2, BeginSameCycles, SameCyclesKeeps DEF Begin
    <2> QED
      BY <2>1, <2>2
  <1>2. ASSUME NEW s \in Sessions, SessionStep(s)
        PROVE  CycInv'
    <2>1. CASE WriteRtgs(s) \/ CommitCycle(s)
      BY <2>1, CycWriteRtgs, CycCommit
    <2>2. CASE (\E p \in Participants : ApplyPosting(s, p)) \/ CommitJournal(s) \/ CommitRebuild(s)
      BY <2>2, ApplyPostingSameCycles, CommitOthersSameCycles, SameCyclesKeeps
    <2>3. CASE ReadPositions(s) \/ Drain(s) \/ ResetPositions(s)
      BY <2>3, CycleStepsSameCycles, SameCyclesKeeps
    <2>4. CASE recomputeFullForAccount(s) \/ setPositionAbsolute(s)
      BY <2>4, RebuildSameCycles, SameCyclesKeeps
    <2>5. CASE Fail(s)
      BY <2>5, BeginSameCycles, SameCyclesKeeps
    <2> QED
      BY <1>2, <2>1, <2>2, <2>3, <2>4, <2>5 DEF SessionStep
  <1>3. CASE \E c \in Cycles : closeCycle(c) \/ \E d \in Days : CreateCycle(c, d)
    BY <1>3, CycRow
  <1>4. CASE UNCHANGED vars
    BY <1>4, CycStutter
  <1> QED
    BY <1>1, <1>2, <1>3, <1>4 DEF Next

LEMMA CycInvariant == Spec => []CycInv
  BY InductiveInvariant, CycInit, CycStep, PTL DEF Spec

\* A file built from some movements has a line for each that is not zero, with
\* its amount, and directions that tell the two signs apart.
LEMMA FileOfMoves ==
  ASSUME NEW moves \in Money, NEW l \in buildRtgsCsv(moves)
  PROVE  /\ l.who \in Participants /\ moves[l.who] \in Int /\ moves[l.who] # 0
         /\ l = [who       |-> l.who,
                 direction |-> IF moves[l.who] > 0 THEN "PARTICIPANT_PAYS_RAIL"
                                                   ELSE "RAIL_PAYS_PARTICIPANT",
                 amount    |-> Abs(moves[l.who])]
  <1>1. PICK p \in {q \in Participants : moves[q] # 0} :
          l = [who       |-> p,
               direction |-> IF moves[p] > 0 THEN "PARTICIPANT_PAYS_RAIL"
                                             ELSE "RAIL_PAYS_PARTICIPANT",
               amount    |-> Abs(moves[p])]
    BY DEF buildRtgsCsv
  <1>2. l.who = p
    BY <1>1
  <1> QED
    BY <1>1, <1>2 DEF Money

\* The RTGS file of a completed cycle has a line for each position that was
\* drained, with the amount that was posted and payers apart from payees, for
\* any number of sessions that fail after writing it and run the cycle again.
\* Which of the two sides it calls the payer is left to its code.
THEOREM RtgsIsWhatMoved == Spec => []RtgsFileMatchesMovements
  <1>1. ASSUME TypeOK, FilesAreTheMoves PROVE RtgsFileMatchesMovements
    <2> SUFFICES ASSUME NEW c \in Completed
                 PROVE  LET lines == rtgs[c].lines
                            moves == cycle[c].moves IN
                        /\ rtgs[c].written
                        /\ {l.who : l \in lines} = {p \in Participants : moves[p] # 0}
                        /\ \A l \in lines : l.amount = Abs(moves[l.who])
                        /\ \A l, m \in lines : l.who = m.who => l = m
                        /\ \A l, m \in lines : l.direction = m.direction
                             <=> (moves[l.who] > 0 <=> moves[m.who] > 0)
      BY DEF RtgsFileMatchesMovements
    <2> DEFINE lines == rtgs[c].lines
               moves == cycle[c].moves
    <2>1. c \in Cycles /\ moves \in Money
      BY <1>1 DEF TypeOK, Completed
    <2>2. rtgs[c].written /\ lines = buildRtgsCsv(moves)
      <3>1. rtgs[c] = RtgsFile(moves)
        BY <1>1, <2>1 DEF FilesAreTheMoves, Completed
      <3> QED
        BY <3>1 DEF RtgsFile
    <2> HIDE DEF lines, moves
    <2>3. ASSUME NEW l \in lines
          PROVE  /\ l.who \in Participants /\ moves[l.who] \in Int /\ moves[l.who] # 0
                 /\ l.amount = Abs(moves[l.who])
                 /\ l.direction = IF moves[l.who] > 0 THEN "PARTICIPANT_PAYS_RAIL"
                                                      ELSE "RAIL_PAYS_PARTICIPANT"
      BY <2>1, <2>2, FileOfMoves
    <2>4. {l.who : l \in lines} = {p \in Participants : moves[p] # 0}
      <3>1. ASSUME NEW p \in Participants, moves[p] # 0
            PROVE  p \in {l.who : l \in lines}
        <4> DEFINE l == [who       |-> p,
                         direction |-> IF moves[p] > 0 THEN "PARTICIPANT_PAYS_RAIL"
                                                       ELSE "RAIL_PAYS_PARTICIPANT",
                         amount    |-> Abs(moves[p])]
        <4>1. l \in lines /\ l.who = p
          BY <2>2, <3>1 DEF buildRtgsCsv
        <4> QED
          BY <4>1
      <3> QED
        BY <2>3, <3>1
    <2>5. \A l, m \in lines : l.who = m.who => l = m
      BY <2>1, <2>2, FileOfMoves
    <2>6. ASSUME NEW l \in lines, NEW m \in lines
          PROVE  l.direction = m.direction <=> (moves[l.who] > 0 <=> moves[m.who] > 0)
      BY <2>3
    <2> QED
      BY <2>2, <2>3, <2>4, <2>5, <2>6 DEF lines, moves
  <1>2. IInv /\ CycInv => RtgsFileMatchesMovements
    BY <1>1 DEF IInv, CycInv
  <1> QED
    BY <1>2, InductiveInvariant, CycInvariant, PTL

\* No step takes a completed or a failed cycle anywhere else.
LEMMA FinalStep ==
  ASSUME IInv, CycInv, [Next]_vars, NEW c \in Cycles,
         cycle[c].state \in {"completed", "failed"}
  PROVE  cycle'[c] = cycle[c]
  <1>0. cycle \in [Cycles -> [state : {"absent", "pending", "completed", "failed"},
                              day : SUBSET Days, moves : Money]]
    BY DEF IInv, TypeOK
  <1>1. ASSUME NEW s \in Sessions, CommitCycle(s)
        PROVE  cycle'[c] = cycle[c]
    <2>1. c \notin work[s].on
      BY DEF CycInv
    <2> QED
      BY <1>1, <2>1 DEF CommitCycle
  <1>2. ASSUME NEW b \in Cycles, closeCycle(b)
        PROVE  cycle'[c] = cycle[c]
    <2>1. CASE b = c
      BY <1>0, <1>2, <2>1 DEF closeCycle
    <2>2. CASE b # c
      BY <1>0, <1>2, <2>2 DEF closeCycle
    <2> QED
      BY <2>1, <2>2
  <1>3. ASSUME NEW b \in Cycles, NEW d \in Days, CreateCycle(b, d)
        PROVE  cycle'[c] = cycle[c]
    BY <1>0, <1>3 DEF CreateCycle
  <1>4. ASSUME NEW s \in Sessions, Begin(s)
        PROVE  cycle'[c] = cycle[c]
    BY <1>4 DEF Begin, BeginPayment, BeginTopUp, BeginCycle, BeginRebuild
  <1>5. ASSUME NEW s \in Sessions, SessionStep(s), ~CommitCycle(s)
        PROVE  cycle'[c] = cycle[c]
    BY <1>5 DEF SessionStep, ApplyPosting, CommitJournal, ReadPositions, Drain, ResetPositions,
                WriteRtgs, recomputeFullForAccount, setPositionAbsolute, CommitRebuild, Fail
  <1>6. CASE UNCHANGED vars
    BY <1>6 DEF vars
  <1> QED
    BY <1>1, <1>2, <1>3, <1>4, <1>5, <1>6 DEF Next

\* A cycle that has completed or failed never changes again, whatever runs,
\* closes and failures follow.
THEOREM CyclesAreFinal == Spec => CycleIsFinal
  <1>1. IInv /\ CycInv /\ [Next]_vars =>
          [\A c \in Cycles : cycle[c].state \in {"completed", "failed"} => cycle'[c] = cycle[c]]_vars
    BY FinalStep
  <1> QED
    BY <1>1, InductiveInvariant, CycInvariant, PTL DEF Spec, CycleIsFinal

-----------------------------------------------------------------------------
(* The ledger: what was paid minus what completed cycles have moved        *)

\* What an open transaction has posted, by what it is for: a cycle minus what
\* it read, row by row, and a rebuild nothing.
Posts(w) ==
  /\ w.op = "cycle" => /\ \E c \in Cycles : w.on = {c}
                       /\ \A p \in Participants :
                            w.posted[p] = IF p \in w.todo THEN 0 ELSE -w.seen[p]
  /\ w.op = "rebuild" => \A p \in Participants : w.posted[p] = 0

BookInv ==
  /\ IsFiniteSet(Completed)
  /\ \A s \in Sessions : Posts(work[s])
  /\ LedgerExplained

LEMMA IdlePosts == Posts(Idle)
  BY DEF Posts, Idle

LEMMA BookInit ==
  ASSUME Init
  PROVE  BookInv
  <1>1. Completed = {}
    BY DEF Init, Completed, Absent
  <1>2. ASSUME NEW p \in Participants PROVE Moved(p) = 0
    BY <1>1, SumEmpty DEF Moved
  <1>3. LedgerExplained
    BY <1>2, ZeroAt DEF Init, LedgerExplained
  <1>4. \A s \in Sessions : Posts(work[s])
    BY IdlePosts DEF Init
  <1> QED
    BY <1>1, <1>3, <1>4, FS_EmptySet DEF BookInv

\* Steps that complete no cycle and post nothing.
LEMMA MovedStays ==
  ASSUME \A c \in Cycles : /\ cycle'[c].moves = cycle[c].moves
                           /\ cycle'[c].state = "completed" <=> cycle[c].state = "completed"
  PROVE  Completed' = Completed /\ \A p \in Participants : Moved(p)' = Moved(p)
  <1>1. Completed' = Completed
    BY DEF Completed
  <1>2. ASSUME NEW p \in Participants
        PROVE  [c \in Cycles |-> cycle'[c].moves[p]] = [c \in Cycles |-> cycle[c].moves[p]]
    OBVIOUS
  <1> QED
    BY <1>1, <1>2 DEF Moved

LEMMA BookKeeps ==
  ASSUME BookInv, UNCHANGED <<ledger, paid>>,
         \A c \in Cycles : /\ cycle'[c].moves = cycle[c].moves
                           /\ cycle'[c].state = "completed" <=> cycle[c].state = "completed",
         \A t \in Sessions : Posts(work'[t])
  PROVE  BookInv'
  <1>1. Completed' = Completed /\ \A p \in Participants : Moved(p)' = Moved(p)
    BY MovedStays
  <1>2. LedgerExplained'
    BY <1>1 DEF BookInv, LedgerExplained
  <1>3. IsFiniteSet(Completed)'
    BY <1>1 DEF BookInv
  <1>4. (\A t \in Sessions : Posts(work[t]))'
    OBVIOUS
  <1> QED
    BY <1>2, <1>3, <1>4 DEF BookInv

\* A step that rewrites one open transaction.
LEMMA BookOneWork ==
  ASSUME IInv, BookInv, NEW s \in Sessions, NEW w, work' = [work EXCEPT ![s] = w], Posts(w),
         UNCHANGED <<ledger, paid, cycle>>
  PROVE  BookInv'
  <1>1. \A t \in Sessions : work'[t] = IF t = s THEN w ELSE work[t]
    BY DEF IInv, TypeOK
  <1>2. \A t \in Sessions : Posts(work'[t])
    BY <1>1 DEF BookInv
  <1> QED
    BY <1>2, BookKeeps

\* A new transaction has posted nothing, and one that rolls back is gone.
LEMMA BookBegin ==
  ASSUME IInv, BookInv, NEW s \in Sessions, Begin(s) \/ Fail(s)
  PROVE  BookInv'
  <1>1. CASE \E from, to \in Participants, amount \in Amounts, d \in Days :
               BeginPayment(s, from, to, amount, d)
    <2>1. PICK from, to \in Participants, amount \in Amounts, d \in Days :
            BeginPayment(s, from, to, amount, d)
      BY <1>1
    <2> DEFINE w == [Idle EXCEPT !.op = "pay", !.at = "rows", !.day = {d}, !.todo = {from, to},
                                 !.seen = [Zero EXCEPT ![from] = -amount, ![to] = amount]]
    <2>2. w.op = "pay"
      BY DEF Idle
    <2>3. work' = [work EXCEPT ![s] = w] /\ UNCHANGED <<ledger, paid, cycle>>
      BY <2>1 DEF BeginPayment, Open
    <2> HIDE DEF w
    <2>4. Posts(w)
      BY <2>2 DEF Posts
    <2> QED
      BY <2>3, <2>4, BookOneWork
  <1>2. CASE \E p \in Participants, amount \in Amounts, d \in Days : BeginTopUp(s, p, amount, d)
    <2>1. PICK p \in Participants, amount \in Amounts, d \in Days : BeginTopUp(s, p, amount, d)
      BY <1>2
    <2> DEFINE w == [Idle EXCEPT !.op = "topup", !.at = "rows", !.day = {d}, !.todo = {p},
                                 !.seen = [Zero EXCEPT ![p] = amount]]
    <2>2. w.op = "topup"
      BY DEF Idle
    <2>3. work' = [work EXCEPT ![s] = w] /\ UNCHANGED <<ledger, paid, cycle>>
      BY <2>1 DEF BeginTopUp, Open
    <2> HIDE DEF w
    <2>4. Posts(w)
      BY <2>2 DEF Posts
    <2> QED
      BY <2>3, <2>4, BookOneWork
  <1>3. CASE \E c \in Cycles : BeginCycle(s, c)
    <2>1. PICK c \in Cycles : BeginCycle(s, c)
      BY <1>3
    <2> DEFINE w == [Idle EXCEPT !.op = "cycle", !.on = {c}, !.day = cycle[c].day]
    <2>2. w.op = "cycle" /\ w.on = {c} /\ w.todo = {} /\ w.seen = Zero /\ w.posted = Zero
      BY DEF Idle
    <2>3. work' = [work EXCEPT ![s] = w] /\ UNCHANGED <<ledger, paid, cycle>>
      BY <2>1 DEF BeginCycle, Open
    <2> HIDE DEF w
    <2>4. \A p \in Participants : w.posted[p] = -w.seen[p]
      BY <2>2, ZeroAt
    <2>5. Posts(w)
      BY <2>2, <2>4 DEF Posts
    <2> QED
      BY <2>3, <2>5, BookOneWork
  <1>4. CASE BeginRebuild(s)
    <2> DEFINE w == [Idle EXCEPT !.op = "rebuild", !.at = "sum", !.todo = Participants]
    <2>2. w.op = "rebuild" /\ w.posted = Zero
      BY DEF Idle
    <2>3. work' = [work EXCEPT ![s] = w] /\ UNCHANGED <<ledger, paid, cycle>>
      BY <1>4 DEF BeginRebuild, Open
    <2> HIDE DEF w
    <2>4. Posts(w)
      BY <2>2, ZeroAt DEF Posts
    <2> QED
      BY <2>3, <2>4, BookOneWork
  <1>5. CASE Fail(s)
    <2>1. work' = [work EXCEPT ![s] = Idle] /\ UNCHANGED <<ledger, paid, cycle>>
      BY <1>5 DEF Fail, Rollback
    <2> QED
      BY <2>1, IdlePosts, BookOneWork
  <1> QED
    BY <1>1, <1>2, <1>3, <1>4, <1>5 DEF Begin

\* The steps of a transaction before it commits.
LEMMA BookPosting ==
  ASSUME IInv, BookInv, NEW s \in Sessions, NEW p \in Participants, ApplyPosting(s, p)
  PROVE  BookInv'
  <1> DEFINE w == [work[s] EXCEPT !.todo = @ \ {p}, !.posted[p] = work[s].seen[p]]
  <1>1. work[s] \in Work
    BY DEF IInv, TypeOK
  <1>2. w.op = work[s].op
    BY <1>1 DEF Work
  <1>3. work' = [work EXCEPT ![s] = w] /\ UNCHANGED <<ledger, paid, cycle>>
    BY DEF ApplyPosting
  <1> HIDE DEF w
  <1>4. Posts(w)
    BY <1>2 DEF Posts, ApplyPosting
  <1> QED
    BY <1>3, <1>4, BookOneWork

LEMMA BookCycleSteps ==
  ASSUME IInv, BookInv, NEW s \in Sessions,
         ReadPositions(s) \/ Drain(s) \/ ResetPositions(s) \/ WriteRtgs(s)
  PROVE  BookInv'
  <1>0. work[s] \in Work /\ Posts(work[s]) /\ work[s].op = "cycle"
    BY DEF IInv, TypeOK, BookInv, ReadPositions, Drain, ResetPositions, WriteRtgs
  <1>1. CASE ReadPositions(s)
    <2> DEFINE w == [work[s] EXCEPT !.at = "rows", !.seen = pos,
                                    !.todo = {p \in Participants : pos[p] # 0}]
    <2>1. /\ w.op = "cycle" /\ w.on = work[s].on /\ w.seen = pos
          /\ w.todo = {p \in Participants : pos[p] # 0} /\ w.posted = work[s].posted
      BY <1>0 DEF Work
    <2>2. work' = [work EXCEPT ![s] = w] /\ UNCHANGED <<ledger, paid, cycle>>
      BY <1>1 DEF ReadPositions
    <2>3. work[s].seen = Zero /\ work[s].todo = {}
      BY <1>0, <1>1 DEF ReadPositions, IInv, Stages
    <2>4. \A p \in Participants : work[s].posted[p] = 0
      BY <1>0, <2>3, ZeroAt DEF Posts
    <2> HIDE DEF w
    <2>5. Posts(w)
      BY <1>0, <2>1, <2>4 DEF Posts
    <2> QED
      BY <2>2, <2>5, BookOneWork
  <1>2. CASE Drain(s)
    <2>1. PICK q \in Participants :
            work' = [work EXCEPT ![s].todo = @ \ {q}, ![s].posted[q] = -work[s].seen[q]]
      BY <1>2 DEF Drain
    <2> DEFINE w == [work[s] EXCEPT !.todo = @ \ {q}, !.posted[q] = -work[s].seen[q]]
    <2>2. /\ w.op = "cycle" /\ w.on = work[s].on /\ w.seen = work[s].seen
          /\ w.todo = work[s].todo \ {q} /\ w.posted[q] = -work[s].seen[q]
          /\ \A p \in Participants : p # q => w.posted[p] = work[s].posted[p]
      BY <1>0 DEF Work, Money
    <2>3. work' = [work EXCEPT ![s] = w] /\ UNCHANGED <<ledger, paid, cycle>>
      BY <1>2, <2>1 DEF Drain
    <2> HIDE DEF w
    <2>4. Posts(w)
      BY <1>0, <2>2 DEF Posts
    <2> QED
      BY <2>3, <2>4, BookOneWork
  <1>3. CASE ResetPositions(s)
    <2> DEFINE w == [work[s] EXCEPT !.at = "file"]
    <2>1. /\ w.op = "cycle" /\ w.on = work[s].on /\ w.seen = work[s].seen
          /\ w.todo = work[s].todo /\ w.posted = work[s].posted
      BY <1>0 DEF Work
    <2>2. work' = [work EXCEPT ![s] = w] /\ UNCHANGED <<ledger, paid, cycle>>
      BY <1>3 DEF ResetPositions
    <2> HIDE DEF w
    <2>3. Posts(w)
      BY <1>0, <2>1 DEF Posts
    <2> QED
      BY <2>2, <2>3, BookOneWork
  <1>4. CASE WriteRtgs(s)
    <2> DEFINE w == [work[s] EXCEPT !.at = "commit"]
    <2>1. /\ w.op = "cycle" /\ w.on = work[s].on /\ w.seen = work[s].seen
          /\ w.todo = work[s].todo /\ w.posted = work[s].posted
      BY <1>0 DEF Work
    <2>2. work' = [work EXCEPT ![s] = w] /\ UNCHANGED <<ledger, paid, cycle>>
      BY <1>4 DEF WriteRtgs
    <2> HIDE DEF w
    <2>3. Posts(w)
      BY <1>0, <2>1 DEF Posts
    <2> QED
      BY <2>2, <2>3, BookOneWork
  <1> QED
    BY <1>1, <1>2, <1>3, <1>4

LEMMA BookRebuild ==
  ASSUME IInv, BookInv, NEW s \in Sessions, recomputeFullForAccount(s) \/ setPositionAbsolute(s)
  PROVE  BookInv'
  <1>0. work[s] \in Work /\ Posts(work[s]) /\ work[s].op = "rebuild"
    BY DEF IInv, TypeOK, BookInv, recomputeFullForAccount, setPositionAbsolute
  <1>1. CASE recomputeFullForAccount(s)
    <2>1. PICK q \in Participants :
            work' = [work EXCEPT ![s].at = "rows", ![s].seen[q] = ledger[q]]
      BY <1>1 DEF recomputeFullForAccount
    <2> DEFINE w == [work[s] EXCEPT !.at = "rows", !.seen[q] = ledger[q]]
    <2>2. w.op = "rebuild" /\ w.posted = work[s].posted
      BY <1>0 DEF Work
    <2>3. work' = [work EXCEPT ![s] = w] /\ UNCHANGED <<ledger, paid, cycle>>
      BY <1>1, <2>1 DEF recomputeFullForAccount
    <2> HIDE DEF w
    <2>4. Posts(w)
      BY <1>0, <2>2 DEF Posts
    <2> QED
      BY <2>3, <2>4, BookOneWork
  <1>2. CASE setPositionAbsolute(s)
    <2>1. PICK q \in Participants :
            work' = [work EXCEPT ![s].at = "sum", ![s].todo = @ \ {q}]
      BY <1>2 DEF setPositionAbsolute
    <2> DEFINE w == [work[s] EXCEPT !.at = "sum", !.todo = @ \ {q}]
    <2>2. w.op = "rebuild" /\ w.posted = work[s].posted
      BY <1>0 DEF Work
    <2>3. work' = [work EXCEPT ![s] = w] /\ UNCHANGED <<ledger, paid, cycle>>
      BY <1>2, <2>1 DEF setPositionAbsolute
    <2> HIDE DEF w
    <2>4. Posts(w)
      BY <1>0, <2>2 DEF Posts
    <2> QED
      BY <2>3, <2>4, BookOneWork
  <1> QED
    BY <1>1, <1>2

\* COMMIT changes in the other transactions only what they were told.
LEMMA CommitPosts ==
  ASSUME IInv, BookInv, NEW s \in Sessions, Commit(s)
  PROVE  /\ \A t \in Sessions : Posts(work'[t])
         /\ \A p \in Participants : ledger'[p] = ledger[p] + work[s].posted[p]
  <1>1. ASSUME NEW t \in Sessions PROVE Posts(work'[t])
    <2>1. CASE t = s
      BY <2>1, CommitWork, IdlePosts
    <2>2. CASE t # s
      <3>1. work[t] \in Work
        BY DEF IInv, TypeOK
      <3>2. work'[t].on = work[t].on
        BY <2>2, <3>1 DEF Commit, Work
      <3>3. /\ work'[t].op = work[t].op /\ work'[t].todo = work[t].todo
            /\ work'[t].seen = work[t].seen /\ work'[t].posted = work[t].posted
        BY <2>2, CommitWork
      <3>4. Posts(work[t])
        BY DEF BookInv
      <3> QED
        BY <3>2, <3>3, <3>4 DEF Posts
    <2> QED
      BY <2>1, <2>2
  <1> QED
    BY <1>1 DEF Commit

\* A journal of payments is booked and remembered as paid, by the same amounts.
LEMMA BookJournal ==
  ASSUME IInv, BookInv, NEW s \in Sessions, CommitJournal(s)
  PROVE  BookInv'
  <1>1. Commit(s) /\ paid' = Sum(paid, work[s].posted) /\ cycle' = cycle
    BY DEF CommitJournal
  <1>2. Completed' = Completed /\ \A p \in Participants : Moved(p)' = Moved(p)
    BY <1>1, MovedStays
  <1>3. ASSUME NEW p \in Participants PROVE ledger'[p] = paid'[p] - Moved(p)'
    <2>1. work[s].posted[p] \in Int /\ paid[p] \in Int
      BY DEF IInv, TypeOK, Work, Money
    <2>2. Moved(p) \in Int
      <3>1. \A c \in Cycles : cycle[c].moves[p] \in Int
        BY DEF IInv, TypeOK, Money
      <3>2. \A c \in Completed : [b \in Cycles |-> cycle[b].moves[p]][c] \in Int
        BY <3>1 DEF Completed
      <3> QED
        BY <3>2, SumType DEF Moved, BookInv
    <2>3. /\ ledger'[p] = ledger[p] + work[s].posted[p]
          /\ paid'[p] = paid[p] + work[s].posted[p]
          /\ ledger[p] = paid[p] - Moved(p) /\ Moved(p)' = Moved(p)
      BY <1>1, <1>2, CommitPosts DEF Sum, BookInv, LedgerExplained
    <2>4. PICK a \in Int, b \in Int, m \in Int :
            a = work[s].posted[p] /\ b = paid[p] /\ m = Moved(p)
      BY <2>1, <2>2
    <2>5. (b - m) + a = (b + a) - m
      OBVIOUS
    <2> QED
      BY <2>3, <2>4, <2>5
  <1>4. \A t \in Sessions : Posts(work'[t])
    BY <1>1, CommitPosts
  <1>5. IsFiniteSet(Completed)'
    BY <1>2 DEF BookInv
  <1>6. LedgerExplained'
    BY <1>3 DEF LedgerExplained
  <1> QED
    BY <1>4, <1>5, <1>6 DEF BookInv

\* A cycle commits once, and takes out of the ledger what it says it moved.
LEMMA BookCommitCycle ==
  ASSUME IInv, CycInv, BookInv, NEW s \in Sessions, CommitCycle(s)
  PROVE  BookInv'
  <1>0. cycle \in [Cycles -> [state : {"absent", "pending", "completed", "failed"},
                              day : SUBSET Days, moves : Money]]
    BY DEF IInv, TypeOK
  <1>1. /\ Commit(s) /\ paid' = paid
        /\ work[s].op = "cycle" /\ work[s].at = "commit"
        /\ \A c \in Cycles : cycle'[c] =
             IF c \in work[s].on
             THEN [cycle[c] EXCEPT !.state = "completed", !.moves = work[s].seen] ELSE cycle[c]
    BY DEF CommitCycle
  <1>2. PICK c \in Cycles : work[s].on = {c}
    BY <1>1 DEF BookInv, Posts
  <1>3. /\ cycle'[c].state = "completed" /\ cycle'[c].moves = work[s].seen
        /\ \A b \in Cycles : b # c => cycle'[b] = cycle[b]
    BY <1>0, <1>1, <1>2
  <1>4. cycle[c].state = "pending"
    BY <1>2 DEF CycInv
  <1>5. c \notin Completed /\ Completed' = Completed \cup {c}
    BY <1>3, <1>4 DEF Completed
  <1>6. ASSUME NEW p \in Participants PROVE ledger'[p] = paid'[p] - Moved(p)'
    <2> DEFINE m == [b \in Cycles |-> cycle[b].moves[p]]
               n == [b \in Cycles |-> cycle'[b].moves[p]]
    <2>1. work[s].seen[p] \in Int /\ paid[p] \in Int
      BY DEF IInv, TypeOK, Work, Money
    <2>2. \A b \in Completed : m[b] \in Int /\ n[b] = m[b]
      BY <1>0, <1>3, <1>5 DEF Completed, Money
    <2>3. n[c] = work[s].seen[p]
      BY <1>3
    <2>4. Moved(p) = SumFunctionOnSet(m, Completed) /\ Moved(p)' = SumFunctionOnSet(n, Completed')
      BY DEF Moved
    <2> HIDE DEF m, n
    <2>5. Moved(p)' = Moved(p) + work[s].seen[p]
      BY <1>5, <2>1, <2>2, <2>3, <2>4, SumAdd DEF BookInv
    <2>6. Moved(p) \in Int
      BY <2>2, <2>4, SumType DEF BookInv
    <2>7. work[s].posted[p] = -work[s].seen[p]
      <3>1. work[s].todo = {} /\ Posts(work[s])
        BY <1>1 DEF IInv, Stages, BookInv
      <3> QED
        BY <1>1, <3>1 DEF Posts
    <2>8. ledger'[p] = ledger[p] + work[s].posted[p] /\ ledger[p] = paid[p] - Moved(p)
      BY <1>1, CommitPosts DEF BookInv, LedgerExplained
    <2>9. PICK a \in Int, b \in Int, k \in Int :
            a = work[s].seen[p] /\ b = paid[p] /\ k = Moved(p)
      BY <2>1, <2>6
    <2>10. (b - k) + -a = b - (k + a)
      OBVIOUS
    <2> QED
      BY <1>1, <2>5, <2>7, <2>8, <2>9, <2>10
  <1>7. \A t \in Sessions : Posts(work'[t])
    BY <1>1, CommitPosts
  <1>8. IsFiniteSet(Completed)'
    BY <1>5, FS_AddElement DEF BookInv
  <1>9. LedgerExplained'
    BY <1>6 DEF LedgerExplained
  <1> QED
    BY <1>7, <1>8, <1>9 DEF BookInv

LEMMA BookCommitRebuild ==
  ASSUME IInv, BookInv, NEW s \in Sessions, CommitRebuild(s)
  PROVE  BookInv'
  <1>1. Commit(s) /\ UNCHANGED <<cycle, paid>> /\ work[s].op = "rebuild"
    BY DEF CommitRebuild
  <1>2. ASSUME NEW p \in Participants PROVE ledger'[p] = ledger[p]
    <2>1. work[s].posted[p] = 0 /\ ledger[p] \in Int
      BY <1>1 DEF BookInv, Posts, IInv, TypeOK, Money
    <2> QED
      BY <1>1, <2>1, CommitPosts
  <1>3. ledger' = ledger
    <2>1. ledger \in [Participants -> Int] /\ ledger' = [p \in Participants |-> ledger'[p]]
      BY <1>1 DEF IInv, TypeOK, Money, Commit
    <2> QED
      BY <1>2, <2>1
  <1>4. \A t \in Sessions : Posts(work'[t])
    BY <1>1, CommitPosts
  <1> QED
    BY <1>1, <1>3, <1>4, BookKeeps

LEMMA BookCycleRow ==
  ASSUME IInv, BookInv, NEW c \in Cycles, closeCycle(c) \/ \E d \in Days : CreateCycle(c, d)
  PROVE  BookInv'
  <1>0. cycle \in [Cycles -> [state : {"absent", "pending", "completed", "failed"},
                              day : SUBSET Days, moves : Money]]
    BY DEF IInv, TypeOK
  <1>1. /\ UNCHANGED <<work, ledger, paid>>
        /\ cycle[c].state # "completed" /\ cycle'[c].state # "completed"
        /\ cycle'[c].moves = cycle[c].moves
        /\ \A b \in Cycles : b # c => cycle'[b] = cycle[b]
    BY <1>0 DEF closeCycle, CreateCycle
  <1>2. \A b \in Cycles : /\ cycle'[b].moves = cycle[b].moves
                          /\ cycle'[b].state = "completed" <=> cycle[b].state = "completed"
    BY <1>1
  <1>3. \A t \in Sessions : Posts(work'[t])
    BY <1>1 DEF BookInv
  <1> QED
    BY <1>1, <1>2, <1>3, BookKeeps

LEMMA BookStep ==
  ASSUME IInv, CycInv, BookInv, [Next]_vars
  PROVE  BookInv'
  <1>1. ASSUME NEW s \in Sessions, Begin(s)
        PROVE  BookInv'
    BY <1>1, BookBegin
  <1>2. ASSUME NEW s \in Sessions, SessionStep(s)
        PROVE  BookInv'
    <2>1. CASE \E p \in Participants : ApplyPosting(s, p)
      BY <2>1, BookPosting
    <2>2. CASE CommitJournal(s) \/ CommitCycle(s) \/ CommitRebuild(s)
      BY <2>2, BookJournal, BookCommitCycle, BookCommitRebuild
    <2>3. CASE ReadPositions(s) \/ Drain(s) \/ ResetPositions(s) \/ WriteRtgs(s)
      BY <2>3, BookCycleSteps
    <2>4. CASE recomputeFullForAccount(s) \/ setPositionAbsolute(s)
      BY <2>4, BookRebuild
    <2>5. CASE Fail(s)
      BY <2>5, BookBegin
    <2> QED
      BY <1>2, <2>1, <2>2, <2>3, <2>4, <2>5 DEF SessionStep
  <1>3. CASE \E c \in Cycles : closeCycle(c) \/ \E d \in Days : CreateCycle(c, d)
    BY <1>3, BookCycleRow
  <1>4. CASE UNCHANGED vars
    <2>1. UNCHANGED <<work, ledger, paid, cycle>>
      BY <1>4 DEF vars
    <2>2. \A t \in Sessions : Posts(work'[t])
      BY <2>1 DEF BookInv
    <2> QED
      BY <2>1, <2>2, BookKeeps
  <1> QED
    BY <1>1, <1>2, <1>3, <1>4 DEF Next

LEMMA BookInvariant == Spec => []BookInv
  BY InductiveInvariant, CycInvariant, BookInit, BookStep, PTL DEF Spec

\* Money leaves the ledger through completed cycles only and once each, for any
\* number of participants, sessions, cycles and failed or repeated runs.
THEOREM LedgerIsExplained == Spec => []LedgerExplained
  <1>1. BookInv => LedgerExplained
    BY DEF BookInv
  <1> QED
    BY <1>1, BookInvariant, PTL

\* What completed cycles have moved is what was owed and has left the position:
\* nobody is paid out twice, except on a row that was overwritten under its
\* reader.
THEOREM NobodyIsPaidTwice == Spec => []SettledIsWhatLeftThePosition
  <1>1. ASSUME IInv, BookInv, NEW p \in Participants \ raced
        PROVE  Moved(p) = paid[p] - pos[p]
    <2>1. pos[p] = ledger[p] /\ ledger[p] = paid[p] - Moved(p)
      BY <1>1 DEF IInv, ViewExactUnlessRaced, BookInv, LedgerExplained
    <2>2. \A c \in Completed : [b \in Cycles |-> cycle[b].moves[p]][c] \in Int
      BY <1>1 DEF IInv, TypeOK, Money, Completed
    <2>3. Moved(p) \in Int /\ paid[p] \in Int
      BY <1>1, <2>2, SumType DEF Moved, BookInv, IInv, TypeOK, Money
    <2>4. PICK b \in Int, k \in Int : b = paid[p] /\ k = Moved(p)
      BY <2>3
    <2>5. b - (b - k) = k
      OBVIOUS
    <2> QED
      BY <2>1, <2>4, <2>5
  <1>2. IInv /\ BookInv => SettledIsWhatLeftThePosition
    BY <1>1 DEF SettledIsWhatLeftThePosition
  <1> QED
    BY <1>2, InductiveInvariant, BookInvariant, PTL

-----------------------------------------------------------------------------
(* The operating day: the cutover on top of Settlement                     *)

\* A transaction of the day is one of Settlement's, or none.
LEMMA DayStepIsStep ==
  ASSUME DayTypeOK, [DayNext]_allVars
  PROVE  [Next]_vars
  <1>1. 1 .. today \subseteq Days /\ today \in Days
    BY DaysFollowEachOther DEF DayTypeOK
  <1>2. ASSUME NEW s \in Sessions, DatedBegin(s)
        PROVE  Begin(s)
    BY <1>1, <1>2 DEF DatedBegin, Begin
  <1>3. CASE SettlementStep
    BY <1>1, <1>2, <1>3 DEF SettlementStep, Next
  <1>4. CASE Midnight \/ ensureToday
    BY <1>4 DEF Midnight, ensureToday
  <1>5. ASSUME NEW d \in Days, CutoverStep(d)
        PROVE  [Next]_vars
    <2>1. CASE \E c \in Cycles : CreateEodCycle(d, c)
      BY <2>1 DEF CreateEodCycle, Next
    <2>2. CASE \E s \in Sessions, c \in Cycles : RunEodCycle(d, s, c)
      BY <2>2 DEF RunEodCycle, Next, Begin
    <2>3. CASE ~(\E c \in Cycles : CreateEodCycle(d, c)) /\ ~(\E s \in Sessions, c \in Cycles : RunEodCycle(d, s, c))
      BY <1>5, <2>3 DEF CutoverStep, BeginCutover, EodCycleRan, IssueStatement, CommitCutover, FailCutover
    <2> QED
      BY <2>1, <2>2, <2>3
  <1>6. CASE UNCHANGED allVars
    BY <1>6 DEF allVars
  <1> QED
    BY <1>3, <1>4, <1>5, <1>6 DEF DayNext

LEMMA DayTypeInit ==
  ASSUME DayInit
  PROVE  DayTypeOK
  <1>1. TypeOK
    BY TypeInit DEF DayInit
  <1>2. today \in Days
    BY DaysFollowEachOther DEF DayInit
  <1> QED
    BY <1>1, <1>2 DEF DayInit, DayTypeOK, NoStatement, NoCut, Money, Zero

DayRow == [state : {"absent", "OPEN", "CLOSED"}, seal : Money]
CutRow == [at : {"idle", "cycle", "run", "running", "issue"},
           cycle : SUBSET Cycles, by : SUBSET Sessions, todo : SUBSET Participants]

\* A row of a record that a step changes in one day only.
LEMMA CutAt ==
  ASSUME DayTypeOK, NEW d \in Days, NEW r \in CutRow, cut' = [cut EXCEPT ![d] = r],
         r # NoCut => day[d].state = "OPEN",
         TypeOK', UNCHANGED <<today, day>>,
         statement' \in [Days -> [Participants -> [issued : BOOLEAN, net : Int]]]
  PROVE  DayTypeOK'
  <1>1. cut' \in [Days -> CutRow]
    BY DEF DayTypeOK, CutRow
  <1>2. \A e \in Days : cut'[e] = IF e = d THEN r ELSE cut[e]
    BY DEF DayTypeOK
  <1>3. \A e \in Days : cut'[e] # NoCut => day'[e].state = "OPEN"
    BY <1>2 DEF DayTypeOK
  <1> QED
    BY <1>1, <1>3 DEF DayTypeOK, CutRow

\* What ensureOpenDay does to each day.
LEMMA OpenAt ==
  ASSUME DayTypeOK, NEW e \in Days, NEW d \in Days
  PROVE  /\ ensureOpenDay(e)[d] = IF d = e /\ day[d].state = "absent"
                                  THEN [state |-> "OPEN", seal |-> day[d].seal] ELSE day[d]
         /\ ensureOpenDay(e) \in [Days -> DayRow]
  <1>1. day \in [Days -> DayRow]
    BY DEF DayTypeOK, DayRow
  <1> QED
    BY <1>1 DEF ensureOpenDay, DayRow

\* What each step of the cutover of day d leaves behind.
LEMMA CutoverRow ==
  ASSUME DayTypeOK, NEW d \in Days, CutoverStep(d), ~CommitCutover(d)
  PROVE  /\ UNCHANGED <<today, day>>
         /\ \E r \in CutRow : /\ cut' = [cut EXCEPT ![d] = r]
                              /\ r # NoCut => day[d].state = "OPEN"
         /\ statement' \in [Days -> [Participants -> [issued : BOOLEAN, net : Int]]]
  <1>1. cut[d] \in CutRow /\ NoCut \in CutRow /\ active[d] \in SUBSET Participants
    BY DEF DayTypeOK, CutRow, NoCut, TypeOK
  <1>2. cut[d] # NoCut => day[d].state = "OPEN"
    BY DEF DayTypeOK
  <1>3. cut[d].at # "idle" => cut[d] # NoCut
    BY DEF NoCut
  <1>4. CASE BeginCutover(d)
    <2>1. PICK a \in {"issue", "cycle"} : cut' = [cut EXCEPT ![d].at = a]
      BY <1>4 DEF BeginCutover
    <2> DEFINE r == [cut[d] EXCEPT !.at = a]
    <2>2. r \in CutRow /\ cut' = [cut EXCEPT ![d] = r]
      BY <1>1, <2>1 DEF CutRow
    <2> HIDE DEF r
    <2> QED
      BY <1>4, <2>2 DEF BeginCutover, DayTypeOK
  <1>5. CASE \E c \in Cycles : CreateEodCycle(d, c)
    <2>1. PICK c \in Cycles : CreateEodCycle(d, c)
      BY <1>5
    <2> DEFINE r == [cut[d] EXCEPT !.at = "run", !.cycle = {c}]
    <2>2. r \in CutRow
      BY <1>1 DEF CutRow
    <2>3. cut' = [cut EXCEPT ![d] = r] /\ cut[d] # NoCut
      BY <1>3, <2>1 DEF CreateEodCycle
    <2> HIDE DEF r
    <2> QED
      BY <1>2, <2>1, <2>2, <2>3 DEF CreateEodCycle, DayTypeOK
  <1>6. CASE \E s \in Sessions, c \in Cycles : RunEodCycle(d, s, c)
    <2>1. PICK s \in Sessions, c \in Cycles : RunEodCycle(d, s, c)
      BY <1>6
    <2> DEFINE r == [cut[d] EXCEPT !.at = "running", !.by = {s}]
    <2>2. r \in CutRow
      BY <1>1 DEF CutRow
    <2>3. cut' = [cut EXCEPT ![d] = r] /\ cut[d] # NoCut
      BY <1>3, <2>1 DEF RunEodCycle
    <2> HIDE DEF r
    <2> QED
      BY <1>2, <2>1, <2>2, <2>3 DEF RunEodCycle, DayTypeOK
  <1>7. CASE EodCycleRan(d)
    <2> DEFINE r == [cut[d] EXCEPT !.at = "issue", !.todo = active[d], !.by = {}]
    <2>2. r \in CutRow
      BY <1>1 DEF CutRow
    <2>3. cut' = [cut EXCEPT ![d] = r] /\ cut[d] # NoCut
      BY <1>3, <1>7 DEF EodCycleRan, Returned
    <2> HIDE DEF r
    <2> QED
      BY <1>2, <1>7, <2>2, <2>3 DEF EodCycleRan, DayTypeOK
  <1>8. CASE \E p \in Participants : IssueStatement(d, p)
    <2>1. PICK p \in Participants : IssueStatement(d, p)
      BY <1>8
    <2> DEFINE r == [cut[d] EXCEPT !.todo = @ \ {p}]
    <2>2. r \in CutRow
      BY <1>1 DEF CutRow
    <2>3. cut' = [cut EXCEPT ![d] = r] /\ cut[d] # NoCut
      BY <1>3, <2>1 DEF IssueStatement
    <2>4. book[d][p] \in Int
      BY DEF DayTypeOK, TypeOK, Money
    <2>5. statement' \in [Days -> [Participants -> [issued : BOOLEAN, net : Int]]]
      BY <2>1, <2>4 DEF IssueStatement, DayTypeOK
    <2> HIDE DEF r
    <2> QED
      BY <1>2, <2>1, <2>2, <2>3, <2>5 DEF IssueStatement
  <1>9. CASE FailCutover(d)
    <2>1. statement' \in [Days -> [Participants -> [issued : BOOLEAN, net : Int]]]
      BY <1>9 DEF FailCutover, DayTypeOK, NoStatement
    <2> QED
      BY <1>1, <1>9, <2>1 DEF FailCutover
  <1> QED
    BY <1>4, <1>5, <1>6, <1>7, <1>8, <1>9 DEF CutoverStep

\* What closing day d does to the days: it opens the next one if it is absent.
LEMMA CloseAt ==
  ASSUME DayTypeOK, NEW d \in Days, CommitCutover(d)
  PROVE  /\ day' \in [Days -> DayRow]
         /\ day'[d] = [state |-> "CLOSED", seal |-> book[d]]
         /\ \A e \in Days : e # d /\ day[e].state # "absent" => day'[e] = day[e]
         /\ \A e \in Days : e # d /\ day[e].state = "absent" => day'[e].state \in {"absent", "OPEN"}
  <1> DEFINE opened == IF d < LastDay THEN ensureOpenDay(d + 1) ELSE day
  <1>1. day' = [opened EXCEPT ![d] = [state |-> "CLOSED", seal |-> book[d]]]
    BY DEF CommitCutover
  <1>2. d < LastDay => d + 1 \in Days
    BY DaysFollowEachOther
  <1>3. /\ opened \in [Days -> DayRow]
        /\ \A e \in Days : opened[e] = IF d < LastDay /\ e = d + 1 /\ day[e].state = "absent"
                                       THEN [state |-> "OPEN", seal |-> day[e].seal] ELSE day[e]
    <2>1. CASE d < LastDay
      BY <1>2, <2>1, OpenAt
    <2>2. CASE ~(d < LastDay)
      BY <2>2 DEF DayTypeOK, DayRow
    <2> QED
      BY <2>1, <2>2
  <1>4. [state |-> "CLOSED", seal |-> book[d]] \in DayRow
    BY DEF DayTypeOK, TypeOK, DayRow
  <1> HIDE DEF opened
  <1>5. \A e \in Days : day'[e] = IF e = d THEN [state |-> "CLOSED", seal |-> book[d]] ELSE opened[e]
    BY <1>1, <1>3
  <1>6. day' \in [Days -> DayRow]
    BY <1>1, <1>3, <1>4
  <1>7. ASSUME NEW e \in Days, e # d, day[e].state # "absent"
        PROVE  day'[e] = day[e]
    BY <1>3, <1>5, <1>7
  <1>8. ASSUME NEW e \in Days, e # d, day[e].state = "absent"
        PROVE  day'[e].state \in {"absent", "OPEN"}
    BY <1>3, <1>5, <1>8
  <1> QED
    BY <1>5, <1>6, <1>7, <1>8

LEMMA DayTypeStep ==
  ASSUME DayTypeOK, [DayNext]_allVars, TypeOK'
  PROVE  DayTypeOK'
  <1>1. CASE SettlementStep \/ UNCHANGED allVars
    BY <1>1 DEF SettlementStep, allVars, dayVars, DayTypeOK
  <1>2. CASE Midnight
    <2>1. today' \in Days
      BY <1>2, DaysFollowEachOther DEF Midnight, DayTypeOK
    <2> QED
      BY <1>2, <2>1 DEF Midnight, DayTypeOK
  <1>3. CASE ensureToday
    <2>1. today \in Days /\ day' = ensureOpenDay(today) /\ UNCHANGED <<today, statement, cut>>
      BY <1>3 DEF ensureToday, DayTypeOK
    <2>2. day' \in [Days -> DayRow]
      BY <2>1, OpenAt, DaysFollowEachOther
    <2>3. ASSUME NEW d \in Days, cut'[d] # NoCut
          PROVE  day'[d].state = "OPEN"
      <3>1. day[d].state = "OPEN"
        BY <2>1, <2>3 DEF DayTypeOK
      <3> QED
        BY <2>1, <3>1, OpenAt
    <2> QED
      BY <2>1, <2>2, <2>3 DEF DayTypeOK, DayRow
  <1>4. ASSUME NEW d \in Days, CutoverStep(d)
        PROVE  DayTypeOK'
    <2>1. CASE ~CommitCutover(d)
      BY <1>4, <2>1, CutoverRow, CutAt
    <2>2. CASE CommitCutover(d)
      <3>1. /\ day' \in [Days -> DayRow] /\ UNCHANGED <<today, statement>>
            /\ \A e \in Days : e # d /\ day[e].state # "absent" => day'[e] = day[e]
        BY <2>2, CloseAt DEF CommitCutover
      <3>2. \A e \in Days : cut'[e] = IF e = d THEN NoCut ELSE cut[e]
        BY <2>2 DEF CommitCutover, DayTypeOK
      <3>3. cut' \in [Days -> CutRow]
        BY <2>2 DEF CommitCutover, DayTypeOK, CutRow, NoCut
      <3>4. \A e \in Days : cut'[e] # NoCut => day'[e].state = "OPEN"
        BY <3>1, <3>2 DEF DayTypeOK
      <3> QED
        BY <3>1, <3>3, <3>4 DEF DayTypeOK, DayRow, CutRow
    <2> QED
      BY <2>1, <2>2
  <1> QED
    BY <1>1, <1>2, <1>3, <1>4 DEF DayNext

\* The operating day runs Settlement: whatever a clock, a cutover and dated
\* operations do to the positions is a behaviour of Settlement, so every theorem
\* above holds of the operating day too.
THEOREM DayRunsSettlement == DaySpec => Spec
  <1>1. DayInit => Init /\ DayTypeOK /\ IInv
    BY DayTypeInit, InvInit DEF DayInit
  <1>2. DayTypeOK /\ [DayNext]_allVars => [Next]_vars
    BY DayStepIsStep
  <1>3. DayTypeOK /\ IInv /\ [DayNext]_allVars => DayTypeOK' /\ IInv'
    <2>1. ASSUME DayTypeOK, IInv, [DayNext]_allVars
          PROVE  DayTypeOK' /\ IInv'
      <3>1. IInv'
        BY <2>1, DayStepIsStep, InvStep
      <3>2. TypeOK'
        BY <3>1 DEF IInv
      <3> QED
        BY <2>1, <3>1, <3>2, DayTypeStep
    <2> QED
      BY <2>1
  <1> QED
    BY <1>1, <1>2, <1>3, PTL DEF DaySpec, Spec

LEMMA DayTypes == DaySpec => []DayTypeOK
  <1>1. DayInit => DayTypeOK
    BY DayTypeInit
  <1>2. IInv => TypeOK
    BY DEF IInv
  <1>3. DayTypeOK /\ [DayNext]_allVars /\ TypeOK' => DayTypeOK'
    BY DayTypeStep
  <1> QED
    BY <1>1, <1>2, <1>3, InductiveInvariant, DayRunsSettlement, PTL DEF DaySpec

-----------------------------------------------------------------------------
(* Statements and closed days                                              *)

Settled(d) == \E c \in Cycles : d \in cycle[c].day /\ cycle[c].state = "completed"

\* A cutover knows cycles of its own day only, and goes on to statements, and
\* leaves any behind, only when that day has been settled.
CutInv ==
  \A d \in Days :
    /\ \A c \in cut[d].cycle : d \in cycle[c].day /\ cycle[c].state # "absent"
    /\ cut[d].at = "issue" /\ cut[d].todo # {} => Settled(d)
    /\ \A p \in Participants : statement[d][p].issued =>
         Settled(d) /\ (day[d].state = "CLOSED" \/ cut[d].at = "issue")

LEMMA CutInit ==
  ASSUME DayInit
  PROVE  CutInv
  BY DEF DayInit, CutInv, NoCut, NoStatement

\* A cycle row that is there stays, with its day.
LEMMA CyclesStay ==
  ASSUME IInv, [Next]_vars, NEW c \in Cycles, cycle[c].state # "absent"
  PROVE  cycle'[c].state # "absent" /\ cycle'[c].day = cycle[c].day
  <1>0. cycle \in [Cycles -> [state : {"absent", "pending", "completed", "failed"},
                              day : SUBSET Days, moves : Money]]
    BY DEF IInv, TypeOK
  <1>1. ASSUME NEW s \in Sessions, CommitCycle(s)
        PROVE  cycle'[c].state # "absent" /\ cycle'[c].day = cycle[c].day
    BY <1>0, <1>1 DEF CommitCycle
  <1>2. ASSUME NEW b \in Cycles, closeCycle(b)
        PROVE  cycle'[c].state # "absent" /\ cycle'[c].day = cycle[c].day
    BY <1>0, <1>2 DEF closeCycle
  <1>3. ASSUME NEW b \in Cycles, NEW d \in Days, CreateCycle(b, d)
        PROVE  cycle'[c].state # "absent" /\ cycle'[c].day = cycle[c].day
    BY <1>0, <1>3 DEF CreateCycle
  <1>4. ASSUME NEW s \in Sessions, Begin(s)
        PROVE  cycle'[c] = cycle[c]
    BY <1>4 DEF Begin, BeginPayment, BeginTopUp, BeginCycle, BeginRebuild
  <1>5. ASSUME NEW s \in Sessions, SessionStep(s), ~CommitCycle(s)
        PROVE  cycle'[c] = cycle[c]
    BY <1>5 DEF SessionStep, ApplyPosting, CommitJournal, ReadPositions, Drain, ResetPositions,
                WriteRtgs, recomputeFullForAccount, setPositionAbsolute, CommitRebuild, Fail
  <1>6. CASE UNCHANGED vars
    BY <1>6 DEF vars
  <1> QED
    BY <1>1, <1>2, <1>3, <1>4, <1>5, <1>6 DEF Next

LEMMA SettledStays ==
  ASSUME IInv, CycInv, [Next]_vars, NEW d, Settled(d)
  PROVE  Settled(d)'
  <1>1. PICK c \in Cycles : d \in cycle[c].day /\ cycle[c].state = "completed"
    BY DEF Settled
  <1>2. cycle'[c] = cycle[c]
    BY <1>1, FinalStep
  <1> QED
    BY <1>1, <1>2 DEF Settled

\* A day that neither the cutover nor the calendar touches keeps what it has.
LEMMA CutKeepsDay ==
  ASSUME DayTypeOK, IInv, CycInv, CutInv, [Next]_vars, NEW d \in Days,
         cut'[d] = cut[d], statement'[d] = statement[d],
         day[d].state = "CLOSED" => day'[d].state = "CLOSED"
  PROVE  /\ \A c \in cut'[d].cycle : d \in cycle'[c].day /\ cycle'[c].state # "absent"
         /\ cut'[d].at = "issue" /\ cut'[d].todo # {} => Settled(d)'
         /\ \A p \in Participants : statement'[d][p].issued =>
              Settled(d)' /\ (day'[d].state = "CLOSED" \/ cut'[d].at = "issue")
  <1>1. ASSUME NEW c \in cut'[d].cycle
        PROVE  d \in cycle'[c].day /\ cycle'[c].state # "absent"
    <2>1. c \in Cycles
      BY DEF DayTypeOK
    <2>2. d \in cycle[c].day /\ cycle[c].state # "absent"
      BY DEF CutInv
    <2> QED
      BY <2>1, <2>2, CyclesStay
  <1>2. Settled(d) => Settled(d)'
    BY SettledStays
  <1> QED
    BY <1>1, <1>2 DEF CutInv

LEMMA CutStep ==
  ASSUME DayTypeOK, IInv, CycInv, CutInv, [DayNext]_allVars
  PROVE  CutInv'
  <1>0. [Next]_vars
    BY DayStepIsStep
  <1> SUFFICES ASSUME NEW d \in Days
               PROVE  /\ \A c \in cut'[d].cycle : d \in cycle'[c].day /\ cycle'[c].state # "absent"
                      /\ cut'[d].at = "issue" /\ cut'[d].todo # {} => Settled(d)'
                      /\ \A p \in Participants : statement'[d][p].issued =>
                           Settled(d)' /\ (day'[d].state = "CLOSED" \/ cut'[d].at = "issue")
    BY DEF CutInv
  <1>1. CASE SettlementStep \/ Midnight \/ UNCHANGED allVars
    BY <1>0, <1>1, CutKeepsDay DEF SettlementStep, Midnight, allVars, dayVars
  <1>2. CASE ensureToday
    <2>1. day' = ensureOpenDay(today) /\ today \in Days /\ UNCHANGED <<statement, cut>>
      BY <1>2 DEF ensureToday, DayTypeOK
    <2>2. day[d].state = "CLOSED" => day'[d].state = "CLOSED"
      BY <2>1, OpenAt
    <2> QED
      BY <1>0, <2>1, <2>2, CutKeepsDay
  <1>3. ASSUME NEW e \in Days, e # d, CutoverStep(e)
        PROVE  cut'[d] = cut[d] /\ statement'[d] = statement[d]
    BY <1>3 DEF CutoverStep, BeginCutover, CreateEodCycle, RunEodCycle, EodCycleRan, IssueStatement,
                CommitCutover, FailCutover, DayTypeOK
  <1>4. ASSUME NEW e \in Days, e # d, CutoverStep(e)
        PROVE  day[d].state = "CLOSED" => day'[d].state = "CLOSED"
    BY <1>4, CutoverRow, CloseAt
  <1>5. CASE CutoverStep(d)
    <2>a. day[d].state = "CLOSED" => cut[d] = NoCut
      BY DEF DayTypeOK
    <2>b. cut[d].at # "idle" => cut[d] # NoCut
      BY DEF NoCut
    <2>1. CASE BeginCutover(d)
      <3>1. /\ UNCHANGED <<vars, day, statement>> /\ day[d].state = "OPEN" /\ cut[d] = NoCut
            /\ cut'[d].cycle = {} /\ cut'[d].todo = {}
        BY <2>1 DEF BeginCutover, DayTypeOK, NoCut
      <3>2. \A p \in Participants : ~statement[d][p].issued
        BY <3>1 DEF CutInv, NoCut
      <3> QED
        BY <3>1, <3>2
    <2>2. CASE \E c \in Cycles : CreateEodCycle(d, c)
      <3>1. PICK c \in Cycles : CreateEodCycle(d, c)
        BY <2>2
      <3>2. /\ cut[d].at = "cycle" /\ UNCHANGED <<day, statement>>
            /\ cut'[d].cycle = {c} /\ cut'[d].at = "run"
        BY <3>1 DEF CreateEodCycle, DayTypeOK
      <3>3. d \in cycle'[c].day /\ cycle'[c].state # "absent"
        BY <3>1 DEF CreateEodCycle, CreateCycle, IInv, TypeOK
      <3>4. \A p \in Participants : ~statement[d][p].issued
        BY <2>a, <2>b, <3>2 DEF CutInv
      <3> QED
        BY <3>2, <3>3, <3>4
    <2>3. CASE \E s \in Sessions, c \in Cycles : RunEodCycle(d, s, c)
      <3>1. PICK s \in Sessions, c \in Cycles : RunEodCycle(d, s, c)
        BY <2>3
      <3>2. /\ cut[d].at = "run" /\ UNCHANGED <<day, statement>> /\ cycle' = cycle
            /\ cut'[d].cycle = cut[d].cycle /\ cut'[d].at = "running"
        BY <3>1 DEF RunEodCycle, BeginCycle, DayTypeOK
      <3>4. \A p \in Participants : ~statement[d][p].issued
        BY <2>a, <2>b, <3>2 DEF CutInv
      <3> QED
        BY <3>2, <3>4 DEF CutInv
    <2>4. CASE EodCycleRan(d)
      <3>1. /\ UNCHANGED <<day, statement>> /\ cycle' = cycle
            /\ cut'[d].cycle = cut[d].cycle /\ cut'[d].at = "issue"
        BY <2>4 DEF EodCycleRan, vars, DayTypeOK
      <3>2. PICK c \in Cycles : c \in cut[d].cycle /\ cycle[c].state = "completed"
        BY <2>4 DEF EodCycleRan, Returned
      <3>3. Settled(d)'
        BY <3>1, <3>2 DEF CutInv, Settled
      <3> QED
        BY <3>1, <3>3 DEF CutInv
    <2>5. CASE \E p \in Participants : IssueStatement(d, p)
      <3>1. PICK p \in Participants : IssueStatement(d, p)
        BY <2>5
      <3>2. /\ UNCHANGED day /\ cycle' = cycle /\ cut[d].at = "issue" /\ cut[d].todo # {}
            /\ cut'[d].cycle = cut[d].cycle /\ cut'[d].at = "issue"
        BY <3>1 DEF IssueStatement, vars, DayTypeOK
      <3>3. Settled(d)'
        BY <3>2 DEF CutInv, Settled
      <3> QED
        BY <3>2, <3>3 DEF CutInv
    <2>6. CASE CommitCutover(d)
      <3>1. /\ cycle' = cycle /\ UNCHANGED statement /\ cut'[d] = NoCut /\ day'[d].state = "CLOSED"
        BY <2>6, CloseAt DEF CommitCutover, vars, DayTypeOK
      <3>2. \A p \in Participants : statement'[d][p].issued => Settled(d)'
        BY <3>1 DEF CutInv, Settled
      <3> QED
        BY <3>1, <3>2 DEF NoCut
    <2>7. CASE FailCutover(d)
      <3>1. cut'[d] = NoCut /\ statement'[d] = [p \in Participants |-> NoStatement]
        BY <2>7 DEF FailCutover, DayTypeOK
      <3> QED
        BY <3>1 DEF NoCut, NoStatement
    <2> QED
      BY <1>5, <2>1, <2>2, <2>3, <2>4, <2>5, <2>6, <2>7 DEF CutoverStep
  <1> QED
    BY <1>0, <1>1, <1>2, <1>3, <1>4, <1>5, CutKeepsDay DEF DayNext

LEMMA CutInvariant == DaySpec => []CutInv
  <1>1. DayInit => CutInv
    BY CutInit
  <1>2. DayTypeOK /\ IInv /\ CycInv /\ CutInv /\ [DayNext]_allVars => CutInv'
    BY CutStep
  <1> QED
    BY <1>1, <1>2, DayTypes, InductiveInvariant, CycInvariant, DayRunsSettlement, PTL DEF DaySpec

\* Every statement of a closed day rests on a completed cycle of that day,
\* although the cycle and the cutover commit in transactions of their own and
\* either may fail between any two steps of the other.
THEOREM StatementsAreSettled == DaySpec => []StatementsFollowASettlement
  <1>1. DayTypeOK /\ CutInv => StatementsFollowASettlement
    BY DEF CutInv, Settled, StatementsFollowASettlement
  <1> QED
    BY <1>1, DayTypes, CutInvariant, PTL

\* Nothing opens a closed day, seals it again or touches its statements: not a
\* second cutover, not a late ensureToday, not the cutover of the day before.
THEOREM ClosedDaysStay == DaySpec => ClosedDayIsFinal
  <1>1. ASSUME DayTypeOK, [DayNext]_allVars, NEW d \in Days, day[d].state = "CLOSED"
        PROVE  day'[d] = day[d] /\ statement'[d] = statement[d]
    <2>1. CASE SettlementStep \/ Midnight \/ UNCHANGED allVars
      BY <2>1 DEF SettlementStep, Midnight, allVars, dayVars
    <2>2. CASE ensureToday
      <3>1. day' = ensureOpenDay(today) /\ today \in Days /\ UNCHANGED statement
        BY <1>1, <2>2 DEF ensureToday, DayTypeOK
      <3> QED
        BY <1>1, <3>1, OpenAt
    <2>3. ASSUME NEW e \in Days, CutoverStep(e)
          PROVE  day'[d] = day[d] /\ statement'[d] = statement[d]
      <3>1. e # d
        <4>1. cut[d] = NoCut
          BY <1>1 DEF DayTypeOK
        <4> QED
          BY <1>1, <2>3, <4>1 DEF NoCut, CutoverStep, BeginCutover, CreateEodCycle, RunEodCycle,
             EodCycleRan, Returned, IssueStatement, CommitCutover, FailCutover
      <3>2. statement'[d] = statement[d]
        BY <1>1, <2>3, <3>1 DEF CutoverStep, BeginCutover, CreateEodCycle, RunEodCycle, EodCycleRan,
           IssueStatement, CommitCutover, FailCutover, DayTypeOK
      <3> QED
        BY <1>1, <2>3, <3>1, <3>2, CutoverRow, CloseAt
    <2> QED
      BY <1>1, <2>1, <2>2, <2>3 DEF DayNext
  <1>2. DayTypeOK /\ [DayNext]_allVars =>
          [\A d \in Days : day[d].state = "CLOSED" =>
             day'[d] = day[d] /\ statement'[d] = statement[d]]_allVars
    BY <1>1
  <1> QED
    BY <1>2, DayTypes, PTL DEF DaySpec, ClosedDayIsFinal
=============================================================================
