---------------------------- MODULE OperatingDay ----------------------------
(***************************************************************************)
(* The operating day on top of Settlement: opening a day, the clock, and   *)
(* the end-of-day cutover, which is one transaction of its own that runs   *)
(* an END_OF_DAY cycle through other connections, so the cycle commits     *)
(* whether the cutover does or not.  There is one currency.                *)
(***************************************************************************)
EXTENDS Settlement

CONSTANTS LastDay   \* bound: the clock stops there

ASSUME DaysFollowEachOther == LastDay \in Nat \ {0} /\ Days = 1 .. LastDay

VARIABLES
  today,     \* the UTC date of the clock
  day,       \* operating_days, as committed
  statement, \* settlement_statements, as committed
  cut        \* the open cutover transaction of each day

dayVars == <<today, day, statement, cut>>
allVars == <<vars, dayVars>>

NoStatement == [issued |-> FALSE, net |-> 0]
NoCut == [at |-> "idle", cycle |-> {}, by |-> {}, todo |-> {}]

\* Types, and a cutover that is under way only on a day that is OPEN.
DayTypeOK ==
  /\ TypeOK
  /\ today \in Days
  /\ day \in [Days -> [state : {"absent", "OPEN", "CLOSED"}, seal : Money]]
  /\ statement \in [Days -> [Participants -> [issued : BOOLEAN, net : Int]]]
  /\ cut \in [Days -> [at : {"idle", "cycle", "run", "running", "issue"},
                       cycle : SUBSET Cycles, by : SUBSET Sessions,
                       todo : SUBSET Participants]]
  /\ \A d \in Days : cut[d] # NoCut => day[d].state = "OPEN"

DayInit ==
  /\ Init
  /\ today = 1
  /\ day = [d \in Days |-> [state |-> "absent", seal |-> Zero]]
  /\ statement = [d \in Days |-> [p \in Participants |-> NoStatement]]
  /\ cut = [d \in Days |-> NoCut]

-----------------------------------------------------------------------------
(* Opening a day and the clock *)

Midnight ==
  /\ today < LastDay
  /\ today' = today + 1
  /\ UNCHANGED <<vars, day, statement, cut>>

\* Slip: INSERT ... ON CONFLICT DO UPDATE.
ensureOpenDayAgain(d) == [day EXCEPT ![d].state = "OPEN"]

\* ensureOpenDay: INSERT ... ON CONFLICT DO NOTHING.
ensureOpenDay(d) ==
  [day EXCEPT ![d].state = IF @ = "absent" THEN "OPEN" ELSE @]

ensureToday ==
  /\ day[today].state = "absent"
  /\ day' = ensureOpenDay(today)
  /\ UNCHANGED <<vars, today, statement, cut>>

\* A payment is posted on its own operating_date, which is fixed when it is
\* created: one that is confirmed late is posted on a past date, and nothing
\* asks whether that day is still open.  A top-up is posted on today's date.
\* An operator creates a cycle for any date.
DatedBegin(s) ==
  \/ \E from, to \in Participants, amount \in Amounts, d \in 1 .. today :
        BeginPayment(s, from, to, amount, d)
  \/ \E p \in Participants, amount \in Amounts : BeginTopUp(s, p, amount, today)
  \/ \E c \in Cycles : BeginCycle(s, c)
  \/ BeginRebuild(s)

SettlementStep ==
  /\ \/ \E s \in Sessions : DatedBegin(s) \/ SessionStep(s)
     \/ \E c \in Cycles : closeCycle(c) \/ \E d \in 1 .. today : CreateCycle(c, d)
  /\ UNCHANGED dayVars

-----------------------------------------------------------------------------
(* The cutover *)

\* Slip: a CLOSED day is cut over again.
BeginCutoverAgain(d) ==
  /\ day[d].state # "absent"
  /\ cut[d] = NoCut
  /\ cut' = [cut EXCEPT ![d].at = IF active[d] = {} THEN "issue" ELSE "cycle"]
  /\ UNCHANGED <<vars, today, day, statement>>

\* The day's row is locked (cut is not idle) until the cutover commits or
\* fails; CLOSING is written inside the transaction and never seen.  Without
\* a posting on the date there is no active currency and no cycle.
BeginCutover(d) ==
  /\ day[d].state = "OPEN"
  /\ cut[d] = NoCut
  /\ cut' = [cut EXCEPT ![d].at = IF active[d] = {} THEN "issue" ELSE "cycle"]
  /\ UNCHANGED <<vars, today, day, statement>>

\* settlementCycleService.create, committed on its own.
CreateEodCycle(d, c) ==
  /\ cut[d].at = "cycle"
  /\ CreateCycle(c, d)
  /\ cut' = [cut EXCEPT ![d].at = "run", ![d].cycle = {c}]
  /\ UNCHANGED <<today, day, statement>>

\* settlementCycleRunner.runCycle on that cycle, in a session of its own.
RunEodCycle(d, s, c) ==
  /\ cut[d].at = "run" /\ c \in cut[d].cycle
  /\ BeginCycle(s, c)
  /\ cut' = [cut EXCEPT ![d].at = "running", ![d].by = {s}]
  /\ UNCHANGED <<today, day, statement>>

\* Slip: the cutover goes on whatever became of its cycle.
ReturnedAnyhow(d, c) ==
  /\ c \in cut[d].cycle
  /\ cut[d].at \in {"run", "running"}

\* runCycle returns once its cycle is completed, by this session or because an
\* operator had run it in between (idempotent).
Returned(d, c) ==
  /\ c \in cut[d].cycle
  /\ cut[d].at \in {"run", "running"}
  /\ cycle[c].state = "completed"

\* participantsWithActivity, once the cycle is there.
EodCycleRan(d) ==
  /\ \E c \in Cycles : Returned(d, c)
  /\ cut' = [cut EXCEPT ![d].at = "issue", ![d].todo = active[d], ![d].by = {}]
  /\ UNCHANGED <<vars, today, day, statement>>

\* participantDayAggregates and issueStatement for one participant.  The row is
\* written in the cutover's transaction; it is kept in statement at once, and
\* taken away when the cutover fails.  Opening and closing positions are 0.
IssueStatement(d, p) ==
  /\ cut[d].at = "issue" /\ p \in cut[d].todo
  /\ statement' = [statement EXCEPT ![d][p] = [issued |-> TRUE, net |-> book[d][p]]]
  /\ cut' = [cut EXCEPT ![d].todo = @ \ {p}]
  /\ UNCHANGED <<vars, today, day>>

\* Freeze the last journal of the day, open the next one, close this one.
CommitCutover(d) ==
  /\ cut[d].at = "issue" /\ cut[d].todo = {}
  /\ LET opened == IF d < LastDay THEN ensureOpenDay(d + 1) ELSE day IN
       day' = [opened EXCEPT ![d] = [state |-> "CLOSED", seal |-> book[d]]]
  /\ cut' = [cut EXCEPT ![d] = NoCut]
  /\ UNCHANGED <<vars, today, statement>>

\* The cutover fails at any step, or because its cycle's run did: the day is
\* OPEN again, without statements; a cycle that has committed stays completed.
FailCutover(d) ==
  /\ cut[d] # NoCut
  /\ cut' = [cut EXCEPT ![d] = NoCut]
  /\ statement' = [statement EXCEPT ![d] = [p \in Participants |-> NoStatement]]
  /\ UNCHANGED <<vars, today, day>>

CutoverStep(d) ==
  \/ BeginCutover(d)
  \/ \E c \in Cycles : CreateEodCycle(d, c)
  \/ \E s \in Sessions, c \in Cycles : RunEodCycle(d, s, c)
  \/ EodCycleRan(d)
  \/ \E p \in Participants : IssueStatement(d, p)
  \/ CommitCutover(d)
  \/ FailCutover(d)

DayNext == SettlementStep \/ Midnight \/ ensureToday \/ \E d \in Days : CutoverStep(d)

DaySpec == DayInit /\ [][DayNext]_allVars

-----------------------------------------------------------------------------
(* Properties *)

\* Every statement of a CLOSED day rests on a completed cycle of that day, though
\* the cycle and the day commit in different transactions and either may fail.
StatementsFollowASettlement ==
  DayTypeOK /\ \A d \in Days : day[d].state = "CLOSED" /\ (\E p \in Participants : statement[d][p].issued)
    => \E c \in Cycles : d \in cycle[c].day /\ cycle[c].state = "completed"

\* A closed day stays closed, with the seal it was closed with and the
\* statements that were signed: a second cutover, a late ensureToday, or the
\* cutover of the day before that opens it changes none of them.
ClosedDayIsFinal ==
  [][\A d \in Days : day[d].state = "CLOSED" =>
       day'[d] = day[d] /\ statement'[d] = statement[d]]_allVars

=============================================================================
