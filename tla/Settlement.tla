----------------------------- MODULE Settlement -----------------------------
(***************************************************************************)
(* Settlement positions of one currency: the ledger postings they are      *)
(* derived from, the payments and top-ups that move them, the cycles that  *)
(* drain them through the RTGS file, and the break-glass rebuild.          *)
(*                                                                         *)
(* Every operation is one READ COMMITTED database transaction run by a     *)
(* session.  A row of settlement_positions is locked by the first write    *)
(* that touches it and unlocked when the transaction ends; a plain SELECT  *)
(* takes no lock and sees committed values only.  A session may fail at    *)
(* any step (an exception, a lost connection, the victim of a database     *)
(* deadlock) and then leaves nothing behind but the files it wrote.        *)
(*                                                                         *)
(* A transfer inside one participant moves its position by zero and is     *)
(* left out, and so is the nostro, the other side of every posting.        *)
(***************************************************************************)
EXTENDS Integers, FiniteSets, Functions

CONSTANTS
  Participants,   \* participant codes; naturals, so that ORDER BY has a meaning
  Sessions,       \* database sessions
  Cycles,         \* ids of settlement_cycles rows
  Days,           \* operating dates
  Amounts,        \* amounts of payments and top-ups, in minor units
  Ceiling,        \* liquidity_limits.ceiling_minor of every participant
  MaxJournals,    \* bound: payments and top-ups begun
  Rebuilds,       \* bound: calls of recomputeAll
  NoOne           \* no session

ASSUME ParticipantsAreOrdered == Participants \subseteq Nat
ASSUME AmountsArePositive     == Amounts \subseteq Nat \ {0}
ASSUME DaysAreOrdered         == Days \subseteq Nat
ASSUME NoOneIsNoSession       == NoOne \notin Sessions
ASSUME CeilingIsPositive      == Ceiling \in Nat \ {0}
ASSUME BoundsAreNatural       == MaxJournals \in Nat /\ Rebuilds \in Nat

VARIABLES
  pos,     \* settlement_positions.position_minor, as committed
  live,    \* the newest version of each row: its lock holder's, or the committed one
  lock,    \* the session whose open transaction has written the row
  ledger,  \* sum (CR - DR) of the committed postings to each settlement account
  book,    \* the same sum, by operating date
  active,  \* participants with a committed posting on each date
  cycle,   \* settlement_cycles with their settlement_cycle_movements
  rtgs,    \* the RTGS file written for each cycle id
  work,    \* the open transaction of each session
  begun,   \* counts what the bounds limit
  paid,    \* history: all committed payments and top-ups of each participant
  raced    \* history: rows a cycle or a rebuild overwrote after they had changed

vars == <<pos, live, lock, ledger, book, active, cycle, rtgs, work, begun, paid, raced>>

-----------------------------------------------------------------------------
(* Types *)

Money  == [Participants -> Int]
Zero   == [p \in Participants |-> 0]
NoFile == [written |-> FALSE, lines |-> {}]
Absent == [state |-> "absent", day |-> {}, moves |-> Zero]
Idle   == [op |-> "idle", at |-> "start", on |-> {}, day |-> {},
           todo |-> {}, seen |-> Zero, posted |-> Zero, late |-> {}]

Work == [op     : {"idle", "pay", "topup", "cycle", "rebuild"},
         at     : {"start", "rows", "sum", "file", "commit"},
         on     : SUBSET Cycles,        \* the cycle being run
         day    : SUBSET Days,          \* the operating date posted to
         todo   : SUBSET Participants,  \* rows still to write
         seen   : Money,                \* deltas to post, or values read
         posted : Money,                \* postings of this transaction
         late   : SUBSET Participants]  \* history: rows changed since they were read

RtgsLine == [who       : Participants,
             direction : {"PARTICIPANT_PAYS_RAIL", "RAIL_PAYS_PARTICIPANT"},
             amount    : Nat]

\* A locked row belongs to an open transaction, an unlocked one shows its
\* committed value.
LocksAreHeld ==
  \A p \in Participants :
    IF lock[p] = NoOne THEN live[p] = pos[p] ELSE work[lock[p]] # Idle

\* Types, and who may hold a row.
TypeOK ==
  /\ pos \in Money /\ live \in Money /\ ledger \in Money /\ paid \in Money
  /\ lock \in [Participants -> Sessions \cup {NoOne}]
  /\ book \in [Days -> Money]
  /\ active \in [Days -> SUBSET Participants]
  /\ cycle \in [Cycles -> [state : {"absent", "pending", "completed", "failed"},
                           day : SUBSET Days, moves : Money]]
  /\ rtgs \in [Cycles -> [written : BOOLEAN, lines : SUBSET RtgsLine]]
  /\ work \in [Sessions -> Work]
  /\ begun \in [journals : Nat, rebuilds : Nat]
  /\ raced \in SUBSET Participants
  /\ LocksAreHeld

Init ==
  /\ pos = Zero /\ live = Zero /\ ledger = Zero /\ paid = Zero
  /\ lock = [p \in Participants |-> NoOne]
  /\ book = [d \in Days |-> Zero]
  /\ active = [d \in Days |-> {}]
  /\ cycle = [c \in Cycles |-> Absent]
  /\ rtgs = [c \in Cycles |-> NoFile]
  /\ work = [s \in Sessions |-> Idle]
  /\ begun = [journals |-> 0, rebuilds |-> 0]
  /\ raced = {}

-----------------------------------------------------------------------------
(* Rows and postings *)

\* Movements and accounts are taken in the order of the participant codes.
First(p, S) == p \in S /\ \A q \in S : p <= q

\* Slip: a row written without waiting for its lock.
WritableAlways(s, p) == TRUE

\* A row can be written when no other open transaction has written it.
Writable(s, p) == lock[p] \in {NoOne, s}

\* upsertDelta: adds to whatever the row holds once its lock is free.
upsertDelta(s, p, delta) ==
  /\ Writable(s, p)
  /\ lock' = [lock EXCEPT ![p] = s]
  /\ live' = [live EXCEPT ![p] = @ + delta]

\* A cycle or a rebuild that has read row p and has not written it yet.
HoldsRead(s, p) ==
  \/ work[s].op = "cycle" /\ work[s].at = "rows" /\ p \in work[s].todo
  \/ work[s].op = "rebuild" /\ work[s].at = "rows" /\ First(p, work[s].todo)

\* COMMIT: the written rows and postings become visible, the locks go.
Commit(s) ==
  LET mine == {p \in Participants : lock[p] = s} IN
  /\ pos' = [p \in Participants |-> IF p \in mine THEN live[p] ELSE pos[p]]
  /\ lock' = [p \in Participants |-> IF p \in mine THEN NoOne ELSE lock[p]]
  /\ ledger' = [p \in Participants |-> ledger[p] + work[s].posted[p]]
  /\ book' = [d \in Days |-> [p \in Participants |->
                IF d \in work[s].day THEN book[d][p] + work[s].posted[p] ELSE book[d][p]]]
  /\ active' = [d \in Days |-> IF d \in work[s].day
                               THEN active[d] \cup {p \in Participants : work[s].posted[p] # 0}
                               ELSE active[d]]
  /\ work' = [t \in Sessions |->
                IF t = s THEN Idle
                ELSE [work[t] EXCEPT !.late = @ \cup {p \in mine : HoldsRead(t, p)}]]
  /\ UNCHANGED live

\* Slip: ROLLBACK that leaves the row locks behind.
RollbackKeepsLocks(s) ==
  /\ live' = [p \in Participants |-> IF lock[p] = s THEN pos[p] ELSE live[p]]
  /\ work' = [work EXCEPT ![s] = Idle]
  /\ UNCHANGED lock

\* ROLLBACK: the rows show their committed values again.
Rollback(s) ==
  LET mine == {p \in Participants : lock[p] = s} IN
  /\ live' = [p \in Participants |-> IF p \in mine THEN pos[p] ELSE live[p]]
  /\ lock' = [p \in Participants |-> IF p \in mine THEN NoOne ELSE lock[p]]
  /\ work' = [work EXCEPT ![s] = Idle]

-----------------------------------------------------------------------------
(* Payments and top-ups *)

Sum(m, n) == [p \in Participants |-> m[p] + n[p]]

Open(s, txn) == work[s] = Idle /\ work' = [work EXCEPT ![s] = txn]

\* liquidityService.canDebit: reads the committed position, locks nothing.
\* Between the throttle threshold and the ceiling it may refuse at random,
\* so a payment below the ceiling may always pass.
canDebit(p, amount) == pos[p] + amount < Ceiling

\* The orchestrator: the liquidity check, then (in its finalizing transaction)
\* one journal that debits the originator and credits the beneficiary.
BeginPayment(s, from, to, amount, d) ==
  /\ begun.journals < MaxJournals
  /\ from # to
  /\ canDebit(from, amount)
  /\ Open(s, [Idle EXCEPT !.op = "pay", !.at = "rows", !.day = {d}, !.todo = {from, to},
                          !.seen = [Zero EXCEPT ![from] = -amount, ![to] = amount]])
  /\ begun' = [begun EXCEPT !.journals = @ + 1]
  /\ UNCHANGED <<pos, live, lock, ledger, book, active, cycle, rtgs, paid, raced>>

\* applyTopUp: credits the participant against the nostro.
BeginTopUp(s, p, amount, d) ==
  /\ begun.journals < MaxJournals
  /\ Open(s, [Idle EXCEPT !.op = "topup", !.at = "rows", !.day = {d}, !.todo = {p},
                          !.seen = [Zero EXCEPT ![p] = amount]])
  /\ begun' = [begun EXCEPT !.journals = @ + 1]
  /\ UNCHANGED <<pos, live, lock, ledger, book, active, cycle, rtgs, paid, raced>>

\* applyJournalToPositionsOnClient, the hook of postJournal: one upsert per
\* posting, in whichever order the SELECT returns the postings.
ApplyPosting(s, p) ==
  /\ work[s].op \in {"pay", "topup"}
  /\ p \in work[s].todo
  /\ upsertDelta(s, p, work[s].seen[p])
  /\ work' = [work EXCEPT ![s].todo = @ \ {p}, ![s].posted[p] = work[s].seen[p]]
  /\ UNCHANGED <<pos, ledger, book, active, cycle, rtgs, begun, paid, raced>>

CommitJournal(s) ==
  /\ work[s].op \in {"pay", "topup"}
  /\ work[s].todo = {}
  /\ Commit(s)
  /\ paid' = Sum(paid, work[s].posted)
  /\ UNCHANGED <<cycle, rtgs, begun, raced>>

-----------------------------------------------------------------------------
(* Settlement cycles *)

\* settlementCycleService.create
CreateCycle(c, d) ==
  /\ cycle[c].state = "absent"
  /\ cycle' = [cycle EXCEPT ![c].state = "pending", ![c].day = {d}]
  /\ UNCHANGED <<pos, live, lock, ledger, book, active, rtgs, work, begun, paid, raced>>

\* findByIdForUpdate waits while another session has the cycle row locked.
CycleIsUnlocked(c) == \A t \in Sessions : c \notin work[t].on

\* Slip: a completed cycle is run again instead of returned.
BeginCycleAgain(s, c) ==
  /\ CycleIsUnlocked(c)
  /\ cycle[c].state \in {"pending", "completed"}
  /\ Open(s, [Idle EXCEPT !.op = "cycle", !.on = {c}, !.day = cycle[c].day])
  /\ UNCHANGED <<pos, live, lock, ledger, book, active, cycle, rtgs, begun, paid, raced>>

\* runCycle takes the cycle row and goes on from pending only.  A completed
\* cycle is returned as it is and a failed one is a CONFLICT; running is
\* never seen, since it is written and overwritten in one transaction.
BeginCycle(s, c) ==
  /\ CycleIsUnlocked(c)
  /\ cycle[c].state = "pending"
  /\ Open(s, [Idle EXCEPT !.op = "cycle", !.on = {c}, !.day = cycle[c].day])
  /\ UNCHANGED <<pos, live, lock, ledger, book, active, cycle, rtgs, begun, paid, raced>>

\* Slip: positions read with the writes of open transactions in them.
ReadDirtyPositions(s) ==
  /\ work[s].op = "cycle" /\ work[s].at = "start"
  /\ work' = [work EXCEPT ![s].at = "rows", ![s].seen = live,
                          ![s].todo = {p \in Participants : live[p] # 0}]
  /\ UNCHANGED <<pos, live, lock, ledger, book, active, cycle, rtgs, begun, paid, raced>>

\* listPositions reads through a connection of its own: committed values, no
\* lock.  Positions that are zero are dropped.
ReadPositions(s) ==
  /\ work[s].op = "cycle" /\ work[s].at = "start"
  /\ work' = [work EXCEPT ![s].at = "rows", ![s].seen = pos,
                          ![s].todo = {p \in Participants : pos[p] # 0}]
  /\ UNCHANGED <<pos, live, lock, ledger, book, active, cycle, rtgs, begun, paid, raced>>

\* One movement: a journal of minus the position that was read, whose hook
\* writes the row.  Movements follow the participant codes.
Drain(s) ==
  /\ work[s].op = "cycle" /\ work[s].at = "rows"
  /\ \E p \in Participants :
       /\ First(p, work[s].todo)
       /\ upsertDelta(s, p, -work[s].seen[p])
       /\ work' = [work EXCEPT ![s].todo = @ \ {p}, ![s].posted[p] = -work[s].seen[p]]
  /\ UNCHANGED <<pos, ledger, book, active, cycle, rtgs, begun, paid, raced>>

\* resetPositionsForCycleOnClient: zero, whatever the row holds by now.
ResetPositions(s) ==
  /\ work[s].op = "cycle" /\ work[s].at = "rows" /\ work[s].todo = {}
  /\ live' = [p \in Participants |-> IF work[s].seen[p] # 0 THEN 0 ELSE live[p]]
  /\ work' = [work EXCEPT ![s].at = "file"]
  /\ UNCHANGED <<pos, lock, ledger, book, active, cycle, rtgs, begun, paid, raced>>

Abs(n) == IF n < 0 THEN -n ELSE n

\* buildRtgsCsv: a line for each movement.  The direction is the code's own: a
\* movement above zero, a position the rail owes, is PARTICIPANT_PAYS_RAIL.
buildRtgsCsv(moves) ==
  {[who       |-> p,
    direction |-> IF moves[p] > 0 THEN "PARTICIPANT_PAYS_RAIL" ELSE "RAIL_PAYS_PARTICIPANT",
    amount    |-> Abs(moves[p])] : p \in {q \in Participants : moves[q] # 0}}

RtgsFile(moves) == [written |-> TRUE, lines |-> buildRtgsCsv(moves)]

\* Slip: a file that is there already is left alone.
WriteRtgsOnce(s) ==
  /\ work[s].op = "cycle" /\ work[s].at = "file"
  /\ rtgs' = [c \in Cycles |-> IF c \in work[s].on /\ ~rtgs[c].written
                               THEN RtgsFile(work[s].seen) ELSE rtgs[c]]
  /\ work' = [work EXCEPT ![s].at = "commit"]
  /\ UNCHANGED <<pos, live, lock, ledger, book, active, cycle, begun, paid, raced>>

\* writeRtgsCsv writes the file under the cycle's id, before COMMIT.
WriteRtgs(s) ==
  /\ work[s].op = "cycle" /\ work[s].at = "file"
  /\ rtgs' = [c \in Cycles |-> IF c \in work[s].on
                               THEN RtgsFile(work[s].seen) ELSE rtgs[c]]
  /\ work' = [work EXCEPT ![s].at = "commit"]
  /\ UNCHANGED <<pos, live, lock, ledger, book, active, cycle, begun, paid, raced>>

CommitCycle(s) ==
  /\ work[s].op = "cycle" /\ work[s].at = "commit"
  /\ Commit(s)
  /\ cycle' = [c \in Cycles |-> IF c \in work[s].on
                                THEN [cycle[c] EXCEPT !.state = "completed", !.moves = work[s].seen]
                                ELSE cycle[c]]
  /\ raced' = raced \cup work[s].late
  /\ UNCHANGED <<rtgs, begun, paid>>

\* Slip: closeCycle without its early return.
CloseCompletedToo(c) ==
  /\ CycleIsUnlocked(c)
  /\ cycle[c].state # "absent"
  /\ cycle' = [cycle EXCEPT ![c].state = "failed"]
  /\ UNCHANGED <<pos, live, lock, ledger, book, active, rtgs, work, begun, paid, raced>>

\* closeCycle, in one step: it takes the row lock and writes nothing else.
closeCycle(c) ==
  /\ CycleIsUnlocked(c)
  /\ cycle[c].state \in {"pending", "failed"}
  /\ cycle' = [cycle EXCEPT ![c].state = "failed"]
  /\ UNCHANGED <<pos, live, lock, ledger, book, active, rtgs, work, begun, paid, raced>>

-----------------------------------------------------------------------------
(* The break-glass rebuild *)

BeginRebuild(s) ==
  /\ begun.rebuilds < Rebuilds
  /\ Open(s, [Idle EXCEPT !.op = "rebuild", !.at = "sum", !.todo = Participants])
  /\ begun' = [begun EXCEPT !.rebuilds = @ + 1]
  /\ UNCHANGED <<pos, live, lock, ledger, book, active, cycle, rtgs, paid, raced>>

\* recomputeFullForAccount: one SELECT over the committed postings.
recomputeFullForAccount(s) ==
  /\ work[s].op = "rebuild" /\ work[s].at = "sum"
  /\ \E p \in Participants :
       /\ First(p, work[s].todo)
       /\ work' = [work EXCEPT ![s].at = "rows", ![s].seen[p] = ledger[p]]
  /\ UNCHANGED <<pos, live, lock, ledger, book, active, cycle, rtgs, begun, paid, raced>>

\* setPositionAbsolute overwrites the row with the sum read before.
setPositionAbsolute(s) ==
  /\ work[s].op = "rebuild" /\ work[s].at = "rows"
  /\ \E p \in Participants :
       /\ First(p, work[s].todo)
       /\ Writable(s, p)
       /\ lock' = [lock EXCEPT ![p] = s]
       /\ live' = [live EXCEPT ![p] = work[s].seen[p]]
       /\ work' = [work EXCEPT ![s].at = "sum", ![s].todo = @ \ {p}]
  /\ UNCHANGED <<pos, ledger, book, active, cycle, rtgs, begun, paid, raced>>

CommitRebuild(s) ==
  /\ work[s].op = "rebuild" /\ work[s].at = "sum" /\ work[s].todo = {}
  /\ Commit(s)
  /\ raced' = work[s].late
  /\ UNCHANGED <<cycle, rtgs, begun, paid>>

-----------------------------------------------------------------------------

\* The transaction is lost at any step: every write but the file is undone.
Fail(s) ==
  /\ work[s] # Idle
  /\ Rollback(s)
  /\ UNCHANGED <<pos, ledger, book, active, cycle, rtgs, begun, paid, raced>>

SessionStep(s) ==
  \/ \E p \in Participants : ApplyPosting(s, p)
  \/ CommitJournal(s)
  \/ ReadPositions(s) \/ Drain(s) \/ ResetPositions(s) \/ WriteRtgs(s) \/ CommitCycle(s)
  \/ recomputeFullForAccount(s) \/ setPositionAbsolute(s) \/ CommitRebuild(s)
  \/ Fail(s)

Begin(s) ==
  \/ \E from, to \in Participants, amount \in Amounts, d \in Days :
        BeginPayment(s, from, to, amount, d)
  \/ \E p \in Participants, amount \in Amounts, d \in Days : BeginTopUp(s, p, amount, d)
  \/ \E c \in Cycles : BeginCycle(s, c)
  \/ BeginRebuild(s)

Next ==
  \/ \E s \in Sessions : Begin(s) \/ SessionStep(s)
  \/ \E c \in Cycles : closeCycle(c) \/ \E d \in Days : CreateCycle(c, d)

Spec == Init /\ [][Next]_vars

-----------------------------------------------------------------------------
(* Properties *)

\* The materialized view of positions-service.js: a committed position is the
\* sum of the ledger's postings, except on a row that a cycle or a rebuild
\* overwrote after somebody had changed it since it was read.
ViewExactUnlessRaced ==
  \A p \in Participants \ raced : pos[p] = ledger[p]

Completed == {c \in Cycles : cycle[c].state = "completed"}

\* What completed cycles have moved of a participant's position.
Moved(p) == SumFunctionOnSet([c \in Cycles |-> cycle[c].moves[p]], Completed)

\* Money leaves through completed cycles only, and once each: the ledger holds
\* the committed payments and top-ups minus the movements of the completed
\* cycles.  A run that failed after some journals has left no trace, and a
\* completed or failed cycle that is run again moves nothing.
LedgerExplained == \A p \in Participants : ledger[p] = paid[p] - Moved(p)

\* The RTGS file of a completed cycle (rtgs-output.js) has one line for each
\* participant whose position was drained and for nobody else, with the amount
\* that was posted, and keeps those who pay apart from those who are paid,
\* even when an earlier attempt wrote its own file and then failed.  Which of
\* the two sides it calls the payer is RtgsPaysTheOwed.
RtgsFileMatchesMovements ==
  \A c \in Completed :
    LET lines == rtgs[c].lines
        moves == cycle[c].moves IN
    /\ rtgs[c].written
    /\ {l.who : l \in lines} = {p \in Participants : moves[p] # 0}
    /\ \A l \in lines : l.amount = Abs(moves[l.who])
    /\ \A l, m \in lines : l.who = m.who => l = m
    /\ \A l, m \in lines : l.direction = m.direction <=> (moves[l.who] > 0 <=> moves[m.who] > 0)

\* Nobody is paid out twice: what completed cycles have moved is exactly what
\* was owed and is no longer in the position.  It fails only on a raced row.
SettledIsWhatLeftThePosition ==
  \A p \in Participants \ raced : Moved(p) = paid[p] - pos[p]

\* A completed cycle keeps its state and its movements, a failed one stays
\* failed: a late runCycle or closeCycle changes neither.
CycleIsFinal ==
  [][\A c \in Cycles : cycle[c].state \in {"completed", "failed"} => cycle'[c] = cycle[c]]_vars

\* What the comment at the head of positions-service.js says of the view:
\* it never lags the ledger.
ViewNeverLags == \A p \in Participants : pos[p] = ledger[p]

\* What the comment in cycle-runner.js says of a drained position: above zero
\* the rail owes the participant and pays out, below zero the participant owes
\* the rail and pays.  The file is to instruct the same.
RtgsPaysTheOwed ==
  \A c \in Completed : \A l \in rtgs[c].lines :
    l.direction = "RAIL_PAYS_PARTICIPANT" <=> cycle[c].moves[l.who] > 0

\* What checks/liquidity.js says of the check: a payment that would take its
\* originator to the ceiling or over it is refused.
NobodyOwesTheCeiling == \A p \in Participants : -ledger[p] < Ceiling
=============================================================================
