------------------------------- MODULE BulkRun -------------------------------
(***************************************************************************)
(* One file of modules/overlays-bulk: its run, its lines, and the calls of *)
(* POST /runs/:n/run that work on them.                                    *)
(*                                                                         *)
(* A call reads the run, picks a batch of PENDING lines in a transaction   *)
(* that marks them PROCESSING, pays them one by one, counts the lines and  *)
(* stores what it has counted, each in a transaction of its own, until     *)
(* there is nothing left to pick.  Nothing keeps a second call out.        *)
(***************************************************************************)
EXTENDS PaymentPort, Naturals, FiniteSets, FiniteSetsExt

CONSTANTS LineCount,    \* lines of the file
          Runners, BatchSize,
          MaxCrashes    \* bound of the instance

Lines == 1 .. LineCount

ASSUME KeysAreLines == Keys = Lines
ASSUME BulkAssumption == {LineCount, MaxCrashes} \subseteq Nat

VARIABLES
  run,          \* the row of bulk_payment_runs
  line,         \* state of each row of bulk_payment_lines
  runner,       \* calls in flight
  crashes,
  late,         \* history: lines that were stored before their payment ended
  unstored,     \* history: lines whose result could not be stored
  disturbed     \* history: a call died, or stored a state of the run over one
                \* that it had not read

bvars == <<tx, run, line, runner, crashes, late, unstored, disturbed>>

RUN_STATES == {"ABSENT", "QUEUED", "RUNNING", "COMPLETED", "FAILED", "PARTIAL"}
EndStates == {"COMPLETED", "FAILED", "PARTIAL"}
LINE_STATES == {"ABSENT", "PENDING", "PROCESSING", "SUCCEEDED", "FAILED"}

Counts == [succeeded : 0 .. LineCount, failed : 0 .. LineCount]

Runner == [pc     : {"idle", "reading", "picking", "paying", "answered", "counting", "counted"},
           seen   : RUN_STATES,         \* the copy of the run
           known  : RUN_STATES,         \* the state it last read or wrote
           batch  : SUBSET Lines,
           empty  : BOOLEAN,            \* nothing was picked
           answer : Answers,
           counts : Counts]

NoCounts == [succeeded |-> 0, failed |-> 0]
Away == [pc |-> "idle", seen |-> "ABSENT", known |-> "ABSENT", batch |-> {}, empty |-> FALSE,
         answer |-> "ERROR", counts |-> NoCounts]

BInit ==
  /\ PortInit
  /\ run = [state |-> "ABSENT", counts |-> NoCounts]
  /\ line = [l \in Lines |-> "ABSENT"]
  /\ runner = [w \in Runners |-> Away]
  /\ crashes = 0
  /\ late = {}
  /\ unstored = {}
  /\ disturbed = FALSE

-----------------------------------------------------------------------------

\* The lines that cannot be parsed are FAILED at once.  The same file again
\* finds its run.
upload ==
  /\ run.state = "ABSENT"
  /\ run' = [run EXCEPT !.state = "QUEUED"]
  /\ \E broken \in SUBSET Lines :
       line' = [l \in Lines |-> IF l \in broken THEN "FAILED" ELSE "PENDING"]
  /\ UNCHANGED <<tx, runner, crashes, late, unstored, disturbed>>

runToCompletion(w) ==
  /\ runner[w].pc = "idle"
  /\ run.state # "ABSENT"
  /\ runner' = [runner EXCEPT ![w].pc = "reading"]
  /\ UNCHANGED <<tx, run, line, crashes, late, unstored, disturbed>>

ReadsRun(w) ==
  /\ runner[w].pc = "reading"
  /\ runner' = [runner EXCEPT ![w] =
       IF run.state \in EndStates THEN Away
       ELSE [Away EXCEPT !.pc = "picking", !.seen = run.state, !.known = run.state]]
  /\ UNCHANGED <<tx, run, line, crashes, late, unstored, disturbed>>

\* The state of the run is stored by its key, whatever it is by now.
Stores(w, state) ==
  /\ run' = [run EXCEPT !.state = state]
  /\ disturbed' = (disturbed \/ run.state \notin {runner[w].known, state})

Starts(w) ==
  /\ runner[w].pc = "picking"
  /\ runner[w].known = "QUEUED"
  /\ Stores(w, "RUNNING")
  /\ runner' = [runner EXCEPT ![w].known = "RUNNING"]
  /\ UNCHANGED <<tx, line, crashes, late, unstored>>

Pending == {l \in Lines : line[l] = "PENDING"}

Picks(w) ==
  LET batch == {l \in Pending : Cardinality({k \in Pending : k < l}) < BatchSize} IN
  /\ runner[w].pc = "picking"
  /\ runner[w].known # "QUEUED"
  /\ line' = [l \in Lines |-> IF l \in batch THEN "PROCESSING" ELSE line[l]]
  /\ runner' = [runner EXCEPT ![w].batch = batch, ![w].empty = (batch = {}),
                              ![w].pc = IF batch = {} THEN "counting" ELSE "paying"]
  /\ UNCHANGED <<tx, run, crashes, late, unstored, disturbed>>

Pays(w) ==
  LET l == Min(runner[w].batch) IN
  /\ runner[w].pc = "paying"
  /\ \E answer \in Answers :
       /\ process(l, answer)
       /\ runner' = [runner EXCEPT ![w].pc = "answered", ![w].answer = answer]
  /\ UNCHANGED <<run, line, crashes, late, unstored, disturbed>>

\* Mutant: what recovery has in hand counts as paid.
LineStateIfNotRefused(answer) == IF answer = "REJECTED" THEN "FAILED" ELSE "SUCCEEDED"

\* A payment that recovery has in hand is a failure here, and so is an error.
LineState(answer) == IF answer = "CONFIRMED" THEN "SUCCEEDED" ELSE "FAILED"

setLineResult(w) ==
  LET l == Min(runner[w].batch) IN
  /\ runner[w].pc = "answered"
  /\ line' = [line EXCEPT ![l] = LineState(runner[w].answer)]
  /\ late' = IF runner[w].answer = "PENDING_RECONCILIATION" THEN late \cup {l} ELSE late
  /\ runner' = [runner EXCEPT ![w].batch = @ \ {l},
                              ![w].pc = IF runner[w].batch = {l} THEN "counting" ELSE "paying"]
  /\ UNCHANGED <<tx, run, crashes, unstored, disturbed>>

\* Storing the result throws: the catch around the payment and the store takes
\* it for an error of the payment, and the line is to be FAILED.  The payment
\* stays.  (If that cannot be stored either, the call dies: Crash.)
StoreThrows(w) ==
  /\ runner[w].pc = "answered"
  /\ runner[w].answer # "ERROR"
  /\ runner' = [runner EXCEPT ![w].answer = "ERROR"]
  /\ unstored' = unstored \cup {Min(runner[w].batch)}
  /\ UNCHANGED <<tx, run, line, crashes, late, disturbed>>

InState(state) == Cardinality({l \in Lines : line[l] = state})

countLineStates(w) ==
  /\ runner[w].pc = "counting"
  /\ runner' = [runner EXCEPT ![w].pc = "counted", ![w].counts =
                  [succeeded |-> InState("SUCCEEDED"), failed |-> InState("FAILED")]]
  /\ UNCHANGED <<tx, run, line, crashes, late, unstored, disturbed>>

\* Mutant: lines in the hands of another call are not waited for.
FinalStateOfCounted(counts, otherwise) ==
  IF counts.succeeded = LineCount THEN "COMPLETED"
  ELSE IF counts.failed = LineCount THEN "FAILED"
  ELSE IF counts.succeeded + counts.failed > 0 THEN "PARTIAL"
  ELSE otherwise

FinalState(counts, otherwise) ==
  IF counts.succeeded = LineCount THEN "COMPLETED"
  ELSE IF counts.failed = LineCount THEN "FAILED"
  ELSE IF counts.succeeded + counts.failed = LineCount THEN "PARTIAL"
  ELSE otherwise

\* Mutant: a call works on one batch.
ReturnsAfterBatch(w, state) == TRUE

\* A call that found nothing to pick returns, and so does one that has seen
\* every line done.
Returns(w, state) == runner[w].empty \/ state \in EndStates

\* If lines are left, a call that picked none stores the state of its copy
\* and another one RUNNING.
setRunState(w) ==
  LET counts == runner[w].counts
      state == FinalState(counts, IF runner[w].empty THEN runner[w].seen ELSE "RUNNING") IN
  /\ runner[w].pc = "counted"
  /\ run' = [state |-> state, counts |-> counts]
  /\ disturbed' = (disturbed \/ run.state \notin {runner[w].known, state})
  /\ runner' = [runner EXCEPT ![w] =
       IF Returns(w, state) THEN Away ELSE [Away EXCEPT !.pc = "reading"]]
  /\ UNCHANGED <<tx, line, crashes, late, unstored>>

Crash(w) ==
  /\ runner[w].pc # "idle"
  /\ crashes < MaxCrashes
  /\ crashes' = crashes + 1
  /\ disturbed' = TRUE
  /\ runner' = [runner EXCEPT ![w] = Away]
  /\ UNCHANGED <<tx, run, line, late, unstored>>

RunnerStep(w) ==
  \/ ReadsRun(w)
  \/ Starts(w)
  \/ Picks(w)
  \/ Pays(w)
  \/ setLineResult(w)
  \/ countLineStates(w)
  \/ setRunState(w)

BNext ==
  \/ upload
  \/ \E w \in Runners : runToCompletion(w) \/ RunnerStep(w) \/ StoreThrows(w) \/ Crash(w)
  \/ \E l \in Lines : Recovers(l) /\ UNCHANGED <<run, line, runner, crashes, late, unstored, disturbed>>

\* A call that is not dead goes on.
BFairness == \A w \in Runners : WF_bvars(RunnerStep(w))

BSpec == BInit /\ [][BNext]_bvars /\ BFairness

-----------------------------------------------------------------------------

BTypeOK ==
  /\ PortTypeOK
  /\ run \in [state : RUN_STATES, counts : Counts]
  /\ line \in [Lines -> LINE_STATES]
  /\ runner \in [Runners -> Runner]
  /\ crashes \in 0 .. MaxCrashes
  /\ late \subseteq Lines
  /\ unstored \subseteq Lines
  /\ disturbed \in BOOLEAN

\* However calls overlap and die, a run that has ended has ended all its
\* lines, and says how many of them were paid.
EndedRunIsCounted ==
  run.state \in EndStates =>
    /\ run.counts = [succeeded |-> InState("SUCCEEDED"), failed |-> InState("FAILED")]
    /\ run.counts.succeeded + run.counts.failed = LineCount
    /\ run.state = "COMPLETED" => run.counts.failed = 0
    /\ run.state = "FAILED" => run.counts.succeeded = 0

\* A line that succeeded was paid.  A line that failed was not, unless it was
\* stored while recovery had its payment in hand, or is FAILED because what
\* became of its payment could not be stored.
LineTellsPayment ==
  \A l \in Lines :
    /\ line[l] = "SUCCEEDED" => tx[l] = "CONFIRMED"
    /\ line[l] = "FAILED" /\ tx[l] = "CONFIRMED" => l \in late \cup unstored

\* What the run and its lines say of the payments is so, whatever calls
\* overlapped, died, were answered late or could not store an answer.
BulkTellsPayments == BTypeOK /\ EndedRunIsCounted /\ LineTellsPayment

\* A run that has started ends, unless a call died or two of them stored the
\* state of the run against one another.
StartedRunEnds == run.state = "RUNNING" ~> run.state \in EndStates \/ disturbed

=============================================================================
