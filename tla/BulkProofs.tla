----------------------------- MODULE BulkProofs -----------------------------
(***************************************************************************)
(* Theorems about BulkRun, for any number of lines and runners, any size   *)
(* of batch and any number of crashes.                                     *)
(***************************************************************************)
EXTENDS BulkRun, FiniteSetTheorems, TLAPS

-----------------------------------------------------------------------------
(* The inductive invariant.                                                *)

\* A file that was not uploaded has no lines.
AbsentInv == run.state = "ABSENT" => \A l \in Lines : line[l] = "ABSENT"

\* Nobody works on a file that was not uploaded, and nobody copies a run
\* that has ended.
CopiesInv ==
  \A w \in Runners :
    /\ runner[w].pc # "idle" => run.state # "ABSENT"
    /\ runner[w].pc \notin {"idle", "reading"} => runner[w].seen \in {"QUEUED", "RUNNING"}

\* A line is in one pair of hands, and nothing has been paid for it before
\* its turn.
BatchInv ==
  \A w \in Runners :
    /\ runner[w].pc \in {"paying", "answered"} <=> runner[w].batch # {}
    /\ \A l \in runner[w].batch :
         /\ line[l] = "PROCESSING"
         /\ (runner[w].pc = "answered" /\ l = Min(runner[w].batch)) \/ tx[l] = "NONE"
         /\ \A v \in Runners \ {w} : l \notin runner[v].batch

\* What the answer says of the payment while the line waits for it.
AnswerInv ==
  \A w \in Runners :
    runner[w].pc = "answered" =>
      LET l == Min(runner[w].batch) IN
      /\ runner[w].answer = "CONFIRMED" => tx[l] = "CONFIRMED"
      /\ runner[w].answer = "REJECTED" => tx[l] = "REJECTED"
      /\ runner[w].answer = "ERROR" => tx[l] = "NONE" \/ l \in unstored

\* What is known of the payment of each line.
LineInv ==
  \A l \in Lines :
    /\ line[l] \in {"ABSENT", "PENDING"} => tx[l] = "NONE"
    /\ line[l] = "SUCCEEDED" => tx[l] = "CONFIRMED"
    /\ line[l] = "FAILED" /\ l \notin late \cup unstored => tx[l] \in {"NONE", "REJECTED"}

\* A line that has ended stays as it is, so that an old count is a lower bound.
CountsInv ==
  \A w \in Runners :
    runner[w].pc = "counted" =>
      /\ runner[w].counts.succeeded <= InState("SUCCEEDED")
      /\ runner[w].counts.failed <= InState("FAILED")

BulkInv ==
  /\ BTypeOK
  /\ AbsentInv
  /\ CopiesInv
  /\ BatchInv
  /\ AnswerInv
  /\ LineInv
  /\ CountsInv
  /\ EndedRunIsCounted

-----------------------------------------------------------------------------
(* Lines, batches and counts.                                              *)

In(state) == {l \in Lines : line[l] = state}

LEMMA LinesAreFinite ==
  /\ Lines \subseteq Nat
  /\ IsFiniteSet(Lines)
  /\ Cardinality(Lines) = LineCount
<1>1. LineCount \in Nat /\ 1 \in Int /\ LineCount \in Int
  BY BulkAssumption
<1>2. IsFiniteSet(1 .. LineCount) /\ Cardinality(1 .. LineCount) = IF 1 > LineCount THEN 0 ELSE LineCount - 1 + 1
  BY <1>1, FS_Interval
<1> QED BY <1>1, <1>2 DEF Lines

\* The smallest line of a batch is one of the batch.
LEMMA MinIsMember ==
  ASSUME NEW S, S \subseteq Lines, S # {}
  PROVE  Min(S) \in S
<1>1. IsWellFoundedOn(OpToRel(<, Nat), Nat)
  BY NatLessThanWellFounded
<1>2. S \subseteq Nat
  BY LinesAreFinite
<1>3. PICK x \in S : \A y \in S : ~ (<<y, x>> \in OpToRel(<, Nat))
  BY <1>1, <1>2, WFMin
<1>4. ASSUME NEW y \in S
      PROVE  x <= y
  <2>1. x \in Nat /\ y \in Nat
    BY <1>2
  <2>2. y < x => <<y, x>> \in OpToRel(<, Nat)
    BY <2>1 DEF OpToRel
  <2>3. ~ (y < x)
    BY <1>3, <2>2, Zenon
  <2> QED BY <2>1, <2>3
<1> QED BY <1>4 DEF Min

\* Counts of lines.  The two end states share no line.
LEMMA CountsOfLines ==
  /\ InState("SUCCEEDED") \in 0 .. LineCount
  /\ InState("FAILED") \in 0 .. LineCount
  /\ InState("SUCCEEDED") + InState("FAILED") <= LineCount
  /\ InState("SUCCEEDED") + InState("FAILED") = LineCount =>
       \A l \in Lines : line[l] \in {"SUCCEEDED", "FAILED"}
<1> DEFINE S == In("SUCCEEDED")
           F == In("FAILED")
<1>0. S \subseteq Lines /\ F \subseteq Lines /\ S \cap F = {} /\ S \cup F \subseteq Lines
  BY DEF In
<1>1. /\ InState("SUCCEEDED") = Cardinality(S)
      /\ InState("FAILED") = Cardinality(F)
  BY DEF InState, In
<1> HIDE DEF S, F
<1>2. /\ IsFiniteSet(S) /\ Cardinality(S) <= LineCount
      /\ IsFiniteSet(F) /\ Cardinality(F) <= LineCount
      /\ IsFiniteSet(S \cup F) /\ Cardinality(S \cup F) <= LineCount
      /\ Cardinality(S \cup F) = LineCount => S \cup F = Lines
  BY <1>0, LinesAreFinite, FS_Subset
<1>3. Cardinality(S) \in Nat /\ Cardinality(F) \in Nat
  BY <1>2, FS_CardinalityType
<1>4. Cardinality(S \cup F) = Cardinality(S) + Cardinality(F)
  BY <1>0, <1>2, <1>3, FS_Union, FS_EmptySet
<1>5. S \cup F = Lines => \A l \in Lines : line[l] \in {"SUCCEEDED", "FAILED"}
  BY DEF S, F, In
<1> QED BY <1>1, <1>2, <1>3, <1>4, <1>5, BulkAssumption

\* More lines in a state are not fewer.
LEMMA CountsGrow ==
  ASSUME NEW state, \A l \in Lines : line[l] = state => line'[l] = state
  PROVE  InState(state) <= InState(state)'
<1>1. In(state) \subseteq In(state)' /\ In(state)' \subseteq Lines
  BY DEF In
<1>2. IsFiniteSet(In(state)')
  BY <1>1, LinesAreFinite, FS_Subset
<1>3. Cardinality(In(state)) <= Cardinality(In(state)')
  BY <1>1, <1>2, FS_Subset
<1> QED BY <1>3 DEF InState, In

\* Ended lines stay, and so do the lower bounds of those who have counted.
LEMMA CountsStay ==
  ASSUME BulkInv, (BTypeOK)',
         \A l \in Lines, state \in {"SUCCEEDED", "FAILED"} : line[l] = state => line'[l] = state,
         \A w \in Runners : runner'[w].pc = "counted" =>
           runner[w].pc = "counted" /\ runner'[w].counts = runner[w].counts
  PROVE  CountsInv'
<1>1. /\ InState("SUCCEEDED") <= InState("SUCCEEDED")'
      /\ InState("FAILED") <= InState("FAILED")'
  BY CountsGrow
<1>2. /\ InState("SUCCEEDED") \in Nat /\ InState("SUCCEEDED")' \in Nat
      /\ InState("FAILED") \in Nat /\ InState("FAILED")' \in Nat
  <2>1. InState("SUCCEEDED") \in Nat /\ InState("FAILED") \in Nat
    BY CountsOfLines
  <2>2. IsFiniteSet(In("SUCCEEDED")') /\ IsFiniteSet(In("FAILED")')
    BY LinesAreFinite, FS_Subset DEF In
  <2> QED BY <2>1, <2>2, FS_CardinalityType DEF InState, In
<1>3. \A w \in Runners : runner[w].counts \in Counts
  BY DEF BulkInv, BTypeOK, Runner
<1> QED BY <1>1, <1>2, <1>3 DEF BulkInv, CountsInv, Counts

\* A run that has ended has no line left.
LEMMA NothingLeft ==
  ASSUME BulkInv, run.state \in EndStates
  PROVE  \A l \in Lines : line[l] \in {"SUCCEEDED", "FAILED"}
  BY CountsOfLines DEF BulkInv, EndedRunIsCounted

\* Nothing changes what an ended run says while the run and its lines stay.
LEMMA EndedStays ==
  ASSUME EndedRunIsCounted, UNCHANGED <<run, line>>
  PROVE  EndedRunIsCounted'
<1>1. \A state : InState(state)' = InState(state)
  BY DEF InState
<1> QED BY <1>1 DEF EndedRunIsCounted

-----------------------------------------------------------------------------
(* One lemma for each action.                                              *)

LEMMA InitBulkInv == BInit => BulkInv
<1> SUFFICES ASSUME BInit PROVE BulkInv
  OBVIOUS
<1>1. /\ tx = [k \in Lines |-> "NONE"]
      /\ run = [state |-> "ABSENT", counts |-> NoCounts]
      /\ line = [l \in Lines |-> "ABSENT"]
      /\ runner = [w \in Runners |-> Away]
      /\ crashes = 0 /\ late = {} /\ unstored = {} /\ disturbed = FALSE
  BY KeysAreLines DEF BInit, PortInit
<1>2. NoCounts \in Counts
  BY BulkAssumption DEF NoCounts, Counts
<1>3. Away \in Runner
  BY <1>2 DEF Away, Runner, RUN_STATES, Answers, TxStates
<1>4. BTypeOK
  <2>1. crashes \in 0 .. MaxCrashes /\ late \subseteq Lines /\ unstored \subseteq Lines /\ disturbed \in BOOLEAN
    <3>1. MaxCrashes \in Nat
      BY BulkAssumption
    <3>2. 0 \in 0 .. MaxCrashes
      BY <3>1
    <3> QED BY <1>1, <3>2, Zenon
  <2>2. run \in [state : RUN_STATES, counts : Counts]
    BY <1>1, <1>2 DEF RUN_STATES
  <2> QED
    BY <1>1, <1>3, <2>1, <2>2, KeysAreLines DEF BTypeOK, PortTypeOK, TxStates, LINE_STATES
<1>5. CopiesInv /\ BatchInv /\ AnswerInv /\ CountsInv
  BY <1>1 DEF CopiesInv, BatchInv, AnswerInv, CountsInv, Away
<1>6. LineInv /\ AbsentInv /\ EndedRunIsCounted
  BY <1>1 DEF LineInv, AbsentInv, EndedRunIsCounted, EndStates
<1> QED BY <1>4, <1>5, <1>6 DEF BulkInv

LEMMA UploadBulkInv ==
  ASSUME BulkInv, upload
  PROVE  BulkInv'
<1>0. PICK broken \in SUBSET Lines :
        line' = [l \in Lines |-> IF l \in broken THEN "FAILED" ELSE "PENDING"]
  BY DEF upload
<1>1. /\ run.state = "ABSENT" /\ run' = [run EXCEPT !.state = "QUEUED"]
      /\ UNCHANGED <<tx, runner, crashes, late, unstored, disturbed>>
  BY DEF upload
<1>2. \A w \in Runners : runner[w].pc = "idle"
  BY <1>1 DEF BulkInv, CopiesInv
<1>3. BTypeOK'
  <2>1. run' \in [state : RUN_STATES, counts : Counts]
    BY <1>1 DEF BulkInv, BTypeOK, RUN_STATES
  <2>2. line' \in [Lines -> LINE_STATES]
    BY <1>0 DEF LINE_STATES
  <2> QED BY <1>1, <2>1, <2>2 DEF BulkInv, BTypeOK, PortTypeOK
<1>4. CopiesInv' /\ AnswerInv' /\ CountsInv'
  BY <1>1, <1>2 DEF CopiesInv, AnswerInv, CountsInv
<1>5. LineInv' /\ AbsentInv' /\ EndedRunIsCounted'
  <2>1. \A l \in Lines : tx[l] = "NONE"
    BY <1>1 DEF BulkInv, AbsentInv, LineInv
  <2>2. run'.state = "QUEUED"
    BY <1>1 DEF BulkInv, BTypeOK
  <2> QED BY <1>0, <1>1, <2>1, <2>2 DEF LineInv, AbsentInv, EndedRunIsCounted, EndStates
<1>6. BatchInv'
  <2>1. \A w \in Runners : \A l \in runner[w].batch : l \in Lines /\ line[l] = "PROCESSING"
    BY DEF BulkInv, BTypeOK, Runner, BatchInv
  <2>2. \A w \in Runners : runner[w].batch = {}
    BY <1>1, <2>1 DEF BulkInv, AbsentInv
  <2> QED BY <1>1, <1>2, <2>2 DEF BatchInv
<1> QED BY <1>3, <1>4, <1>5, <1>6 DEF BulkInv

\* The steps that leave the lines and the payments alone, and take a call
\* into no batch and no counts that it has not got.
LEMMA RunnerStepBulkInv ==
  ASSUME BulkInv, NEW w \in Runners, NEW r \in Runner,
         runner' = [runner EXCEPT ![w] = r],
         UNCHANGED <<tx, line, late, unstored>>,
         run' \in [state : RUN_STATES, counts : Counts],
         crashes' \in 0 .. MaxCrashes, disturbed' \in BOOLEAN,
         run'.state # "ABSENT",
         EndedRunIsCounted',
         r.pc \notin {"idle", "reading"} => r.seen \in {"QUEUED", "RUNNING"},
         r.pc \notin {"paying", "answered"},
         r.batch = {},
         r.pc = "counted" =>
           /\ r.counts.succeeded <= InState("SUCCEEDED")
           /\ r.counts.failed <= InState("FAILED")
  PROVE  BulkInv'
<1>1. /\ runner'[w] = r
      /\ \A v \in Runners \ {w} : runner'[v] = runner[v]
  BY DEF BulkInv, BTypeOK
<1>2. BTypeOK'
  BY DEF BulkInv, BTypeOK, PortTypeOK
<1>3. CopiesInv' /\ AbsentInv'
  BY <1>1 DEF BulkInv, CopiesInv, AbsentInv
<1>4. BatchInv' /\ AnswerInv'
  BY <1>1 DEF BulkInv, BatchInv, AnswerInv
<1>5. LineInv'
  BY DEF BulkInv, LineInv
<1>6. CountsInv'
  <2>1. InState("SUCCEEDED")' = InState("SUCCEEDED") /\ InState("FAILED")' = InState("FAILED")
    BY DEF InState
  <2> QED BY <1>1, <2>1 DEF BulkInv, CountsInv
<1> QED BY <1>2, <1>3, <1>4, <1>5, <1>6 DEF BulkInv

LEMMA AwayIsRunner ==
  /\ Away \in Runner
  /\ Away.pc = "idle"
  /\ Away.batch = {}
<1>1. NoCounts \in Counts
  BY BulkAssumption DEF NoCounts, Counts
<1> QED BY <1>1 DEF Away, Runner, RUN_STATES, Answers, TxStates

LEMMA StartBulkInv ==
  ASSUME BulkInv, NEW w \in Runners, runToCompletion(w)
  PROVE  BulkInv'
<1> DEFINE r == [runner[w] EXCEPT !.pc = "reading"]
<1>1. runner[w] \in Runner /\ runner[w].pc = "idle" /\ runner[w].batch = {}
  BY DEF BulkInv, BTypeOK, BatchInv, runToCompletion
<1>2. r \in Runner /\ r.pc = "reading" /\ r.batch = {}
  BY <1>1 DEF Runner
<1>3. /\ runner' = [runner EXCEPT ![w] = r]
      /\ UNCHANGED <<tx, run, line, crashes, late, unstored, disturbed>>
      /\ run.state # "ABSENT"
  BY DEF runToCompletion, BulkInv, BTypeOK
<1>4. EndedRunIsCounted'
  BY <1>3, EndedStays DEF BulkInv
<1> HIDE DEF r
<1>5. /\ run' \in [state : RUN_STATES, counts : Counts]
      /\ crashes' \in 0 .. MaxCrashes /\ disturbed' \in BOOLEAN
  BY <1>3 DEF BulkInv, BTypeOK
<1> QED BY <1>2, <1>3, <1>4, <1>5, RunnerStepBulkInv

LEMMA ReadsRunBulkInv ==
  ASSUME BulkInv, NEW w \in Runners, ReadsRun(w)
  PROVE  BulkInv'
<1>1. /\ UNCHANGED <<tx, run, line, crashes, late, unstored, disturbed>>
      /\ run.state \in RUN_STATES \ {"ABSENT"}
  BY DEF ReadsRun, BulkInv, BTypeOK, CopiesInv
<1>2. PICK r \in Runner :
        /\ runner' = [runner EXCEPT ![w] = r]
        /\ r.pc \in {"idle", "picking"}
        /\ r.pc = "picking" => r.seen \in {"QUEUED", "RUNNING"}
        /\ r.batch = {}
  <2>1. CASE run.state \in EndStates
    BY <2>1, AwayIsRunner DEF ReadsRun
  <2>2. CASE run.state \notin EndStates
    <3> DEFINE r == [Away EXCEPT !.pc = "picking", !.seen = run.state, !.known = run.state]
    <3>1. r \in Runner /\ r.pc = "picking" /\ r.seen = run.state /\ r.batch = {}
      BY <1>1, AwayIsRunner DEF Runner
    <3>2. run.state \in {"QUEUED", "RUNNING"}
      BY <1>1, <2>2 DEF RUN_STATES, EndStates
    <3>3. runner' = [runner EXCEPT ![w] = r]
      BY <2>2 DEF ReadsRun
    <3> QED BY <3>1, <3>2, <3>3
  <2> QED BY <2>1, <2>2
<1>3. EndedRunIsCounted'
  BY <1>1, EndedStays DEF BulkInv
<1>4. /\ run' \in [state : RUN_STATES, counts : Counts]
      /\ run'.state # "ABSENT"
      /\ crashes' \in 0 .. MaxCrashes /\ disturbed' \in BOOLEAN
  BY <1>1 DEF BulkInv, BTypeOK
<1> QED BY <1>1, <1>2, <1>3, <1>4, RunnerStepBulkInv

LEMMA CrashBulkInv ==
  ASSUME BulkInv, NEW w \in Runners, Crash(w)
  PROVE  BulkInv'
<1>1. /\ runner' = [runner EXCEPT ![w] = Away]
      /\ UNCHANGED <<tx, run, line, late, unstored>>
      /\ disturbed' \in BOOLEAN
      /\ run.state # "ABSENT"
  BY DEF Crash, BulkInv, CopiesInv
<1>2. crashes' \in 0 .. MaxCrashes
  <2>1. MaxCrashes \in Nat
    BY BulkAssumption
  <2> QED BY <2>1 DEF Crash, BulkInv, BTypeOK
<1>3. EndedRunIsCounted'
  BY <1>1, EndedStays DEF BulkInv
<1>4. run' \in [state : RUN_STATES, counts : Counts]
  BY <1>1 DEF BulkInv, BTypeOK
<1> QED BY <1>1, <1>2, <1>3, <1>4, AwayIsRunner, RunnerStepBulkInv

LEMMA CountBulkInv ==
  ASSUME BulkInv, NEW w \in Runners, countLineStates(w)
  PROVE  BulkInv'
<1> DEFINE n == [succeeded |-> InState("SUCCEEDED"), failed |-> InState("FAILED")]
           r == [runner[w] EXCEPT !.pc = "counted", !.counts = n]
<1>1. n \in Counts
  BY CountsOfLines DEF Counts
<1>2. runner[w] \in Runner /\ runner[w].pc = "counting" /\ runner[w].batch = {}
  BY DEF BulkInv, BTypeOK, BatchInv, countLineStates
<1>3. run.state # "ABSENT" /\ runner[w].seen \in {"QUEUED", "RUNNING"}
  BY <1>2 DEF BulkInv, CopiesInv
<1>4. n.succeeded = InState("SUCCEEDED") /\ n.failed = InState("FAILED")
  OBVIOUS
<1>5. runner' = [runner EXCEPT ![w] = r]
  BY DEF countLineStates
<1> HIDE DEF n
<1>6. r \in Runner /\ r.pc = "counted" /\ r.batch = {} /\ r.counts = n /\ r.seen = runner[w].seen
  BY <1>1, <1>2 DEF Runner
<1> HIDE DEF r
<1>7. UNCHANGED <<tx, run, line, crashes, late, unstored, disturbed>>
  BY DEF countLineStates
<1>8. EndedRunIsCounted'
  BY <1>7, EndedStays DEF BulkInv
<1>9. /\ run' \in [state : RUN_STATES, counts : Counts]
      /\ run'.state # "ABSENT"
      /\ crashes' \in 0 .. MaxCrashes /\ disturbed' \in BOOLEAN
  BY <1>3, <1>7 DEF BulkInv, BTypeOK
<1>10. /\ r.counts.succeeded <= InState("SUCCEEDED")
       /\ r.counts.failed <= InState("FAILED")
  BY <1>4, <1>6, CountsOfLines
<1> QED BY <1>3, <1>5, <1>6, <1>7, <1>8, <1>9, <1>10, RunnerStepBulkInv

LEMMA StartsBulkInv ==
  ASSUME BulkInv, NEW w \in Runners, Starts(w)
  PROVE  BulkInv'
<1> DEFINE r == [runner[w] EXCEPT !.known = "RUNNING"]
<1>1. /\ runner[w] \in Runner /\ runner[w].pc = "picking" /\ runner[w].batch = {}
      /\ runner[w].seen \in {"QUEUED", "RUNNING"}
  BY DEF BulkInv, BTypeOK, BatchInv, CopiesInv, Starts
<1>2. r \in Runner /\ r.pc = "picking" /\ r.batch = {} /\ r.seen = runner[w].seen
  BY <1>1 DEF Runner, RUN_STATES
<1>3. /\ runner' = [runner EXCEPT ![w] = r]
      /\ run' = [run EXCEPT !.state = "RUNNING"]
      /\ disturbed' \in BOOLEAN
      /\ UNCHANGED <<tx, line, crashes, late, unstored>>
  BY DEF Starts, Stores, BulkInv, BTypeOK
<1> HIDE DEF r
<1>4. /\ run' \in [state : RUN_STATES, counts : Counts]
      /\ run'.state = "RUNNING"
      /\ crashes' \in 0 .. MaxCrashes
  BY <1>3 DEF BulkInv, BTypeOK, RUN_STATES
<1>5. EndedRunIsCounted'
  BY <1>4 DEF EndedRunIsCounted, EndStates
<1> QED BY <1>1, <1>2, <1>3, <1>4, <1>5, RunnerStepBulkInv

\* A state of the run that says it has ended rests on counts that are still so.
LEMMA SetRunStateBulkInv ==
  ASSUME BulkInv, NEW w \in Runners, setRunState(w)
  PROVE  BulkInv'
<1>0. PICK n, state :
        /\ n = runner[w].counts
        /\ state = FinalState(n, IF runner[w].empty THEN runner[w].seen ELSE "RUNNING")
        /\ run' = [state |-> state, counts |-> n]
        /\ runner' = [runner EXCEPT ![w] =
             IF Returns(w, state) THEN Away ELSE [Away EXCEPT !.pc = "reading"]]
        /\ UNCHANGED <<tx, line, crashes, late, unstored>>
        /\ disturbed' \in BOOLEAN
  BY DEF setRunState
<1>1. /\ n \in Counts
      /\ run.state # "ABSENT"
      /\ runner[w].seen \in {"QUEUED", "RUNNING"}
      /\ n.succeeded <= InState("SUCCEEDED")
      /\ n.failed <= InState("FAILED")
  BY <1>0 DEF setRunState, BulkInv, BTypeOK, Runner, CopiesInv, CountsInv
<1>2. /\ n.succeeded \in Nat /\ n.failed \in Nat /\ LineCount \in Nat
      /\ n = [succeeded |-> n.succeeded, failed |-> n.failed]
  BY <1>1, BulkAssumption DEF Counts
<1>3. PICK otherwise \in {"QUEUED", "RUNNING"} : state = FinalState(n, otherwise)
  BY <1>0, <1>1
<1>4. \/ state = "COMPLETED" /\ n.succeeded = LineCount
      \/ state = "FAILED" /\ n.failed = LineCount
      \/ state = "PARTIAL" /\ n.succeeded + n.failed = LineCount
      \/ state \in {"QUEUED", "RUNNING"}
  BY <1>3 DEF FinalState
<1>5. state \in RUN_STATES \ {"ABSENT"}
  BY <1>4 DEF RUN_STATES
<1>6. /\ run' \in [state : RUN_STATES, counts : Counts]
      /\ run'.state = state /\ run'.counts = n
  BY <1>0, <1>1, <1>5
<1>7. EndedRunIsCounted'
  <2>1. SUFFICES ASSUME state \in EndStates
                 PROVE  /\ n = [succeeded |-> InState("SUCCEEDED"), failed |-> InState("FAILED")]
                        /\ n.succeeded + n.failed = LineCount
                        /\ state = "COMPLETED" => n.failed = 0
                        /\ state = "FAILED" => n.succeeded = 0
    <3>1. InState("SUCCEEDED")' = InState("SUCCEEDED") /\ InState("FAILED")' = InState("FAILED")
      BY <1>0 DEF InState
    <3> QED BY <1>6, <3>1 DEF EndedRunIsCounted
  <2>2. \/ state = "COMPLETED" /\ n.succeeded = LineCount
        \/ state = "FAILED" /\ n.failed = LineCount
        \/ state = "PARTIAL" /\ n.succeeded + n.failed = LineCount
    BY <1>4, <2>1 DEF EndStates
  <2>3. /\ InState("SUCCEEDED") \in Nat /\ InState("FAILED") \in Nat
        /\ InState("SUCCEEDED") + InState("FAILED") <= LineCount
    BY CountsOfLines
  <2>4. n.succeeded = InState("SUCCEEDED") /\ n.failed = InState("FAILED")
        /\ n.succeeded + n.failed = LineCount
    BY <1>1, <1>2, <2>2, <2>3
  <2>5. (state = "COMPLETED" => n.failed = 0) /\ (state = "FAILED" => n.succeeded = 0)
    BY <1>2, <2>2, <2>4
  <2> QED BY <1>2, <2>4, <2>5
<1>8. PICK r \in Runner :
        /\ runner' = [runner EXCEPT ![w] = r]
        /\ r.pc \in {"idle", "reading"}
        /\ r.batch = {}
  <2>1. CASE Returns(w, state)
    BY <1>0, <2>1, AwayIsRunner
  <2>2. CASE ~ Returns(w, state)
    <3>1. /\ [Away EXCEPT !.pc = "reading"] \in Runner
          /\ [Away EXCEPT !.pc = "reading"].pc = "reading"
          /\ [Away EXCEPT !.pc = "reading"].batch = {}
      BY AwayIsRunner DEF Runner
    <3> QED BY <1>0, <2>2, <3>1
  <2> QED BY <2>1, <2>2
<1>9. crashes' \in 0 .. MaxCrashes
  BY <1>0 DEF BulkInv, BTypeOK
<1> QED BY <1>0, <1>5, <1>6, <1>7, <1>8, <1>9, RunnerStepBulkInv

-----------------------------------------------------------------------------
(* The steps that change a line or a payment.                              *)

\* What is picked was PENDING, so that nobody has it and nothing is paid.
LEMMA PicksBulkInv ==
  ASSUME BulkInv, NEW w \in Runners, Picks(w)
  PROVE  BulkInv'
<1>0. PICK batch \in SUBSET Pending :
        /\ runner' = [runner EXCEPT ![w].batch = batch, ![w].empty = (batch = {}),
                                    ![w].pc = IF batch = {} THEN "counting" ELSE "paying"]
        /\ line' = [l \in Lines |-> IF l \in batch THEN "PROCESSING" ELSE line[l]]
  BY DEF Picks
<1>1. /\ runner[w] \in Runner
      /\ runner[w].pc = "picking"
      /\ UNCHANGED <<tx, run, crashes, late, unstored, disturbed>>
      /\ run.state # "ABSENT"
      /\ runner[w].seen \in {"QUEUED", "RUNNING"}
      /\ runner[w].batch = {}
  BY DEF Picks, BulkInv, BTypeOK, CopiesInv, BatchInv
<1>2. /\ batch \subseteq Lines
      /\ \A l \in batch : line[l] = "PENDING" /\ tx[l] = "NONE"
      /\ \A l \in batch, v \in Runners : l \notin runner[v].batch
  BY DEF Pending, BulkInv, LineInv, BatchInv
<1>3. /\ runner' \in [Runners -> Runner]
      /\ runner'[w].pc = IF batch = {} THEN "counting" ELSE "paying"
      /\ runner'[w].batch = batch
      /\ runner'[w].seen = runner[w].seen
      /\ \A v \in Runners \ {w} : runner'[v] = runner[v]
  <2> DEFINE r == [runner[w] EXCEPT !.batch = batch, !.empty = (batch = {}),
                                    !.pc = IF batch = {} THEN "counting" ELSE "paying"]
  <2>1. r \in Runner /\ r.batch = batch /\ r.seen = runner[w].seen
        /\ r.pc = IF batch = {} THEN "counting" ELSE "paying"
    <3>1. (batch = {}) \in BOOLEAN
      OBVIOUS
    <3> QED BY <1>1, <1>2, <3>1 DEF Runner
  <2>2. runner' = [runner EXCEPT ![w] = r] /\ runner \in [Runners -> Runner]
    BY <1>0 DEF BulkInv, BTypeOK
  <2> HIDE DEF r
  <2> QED BY <2>1, <2>2
<1>4. BTypeOK'
  <2>1. line' \in [Lines -> LINE_STATES]
    BY <1>0 DEF BulkInv, BTypeOK, LINE_STATES
  <2> QED BY <1>1, <1>3, <2>1 DEF BulkInv, BTypeOK, PortTypeOK
<1>5. CopiesInv' /\ AbsentInv'
  BY <1>1, <1>3 DEF BulkInv, CopiesInv, AbsentInv
<1>6. BatchInv'
  <2>1. \A v \in Runners : runner[v].batch \subseteq Lines
    BY DEF BulkInv, BTypeOK, Runner
  <2>2. \A v \in Runners : \A l \in runner'[v].batch : line'[l] = "PROCESSING"
    BY <1>0, <1>2, <1>3, <2>1 DEF BulkInv, BatchInv
  <2>3. ASSUME NEW v \in Runners, NEW l \in runner'[v].batch
        PROVE  /\ (runner'[v].pc = "answered" /\ l = Min(runner'[v].batch)) \/ tx'[l] = "NONE"
               /\ \A u \in Runners \ {v} : l \notin runner'[u].batch
    <3>1. CASE v = w
      BY <1>1, <1>2, <1>3, <2>3, <3>1
    <3>2. CASE v # w
      BY <1>1, <1>2, <1>3, <2>3, <3>2 DEF BulkInv, BatchInv
    <3> QED BY <3>1, <3>2
  <2>4. \A v \in Runners : runner'[v].pc \in {"paying", "answered"} <=> runner'[v].batch # {}
    BY <1>3 DEF BulkInv, BatchInv
  <2> QED BY <2>2, <2>3, <2>4 DEF BatchInv
<1>7. AnswerInv'
  BY <1>1, <1>3 DEF BulkInv, AnswerInv
<1>8. LineInv'
  BY <1>0, <1>1, <1>2 DEF BulkInv, LineInv
<1>9. CountsInv'
  <2>1. \A l \in Lines, state \in {"SUCCEEDED", "FAILED"} : line[l] = state => line'[l] = state
    BY <1>0, <1>2
  <2>2. \A v \in Runners : runner'[v].pc = "counted" =>
          runner[v].pc = "counted" /\ runner'[v].counts = runner[v].counts
    BY <1>3
  <2> QED BY <1>4, <2>1, <2>2, CountsStay
<1>10. EndedRunIsCounted'
  <2>1. CASE run.state \in EndStates
    <3>1. batch = {}
      BY <1>2, <2>1, NothingLeft
    <3>2. line' = line
      BY <1>0, <3>1 DEF BulkInv, BTypeOK
    <3> QED BY <1>1, <3>2, EndedStays DEF BulkInv
  <2>2. CASE run.state \notin EndStates
    BY <1>1, <2>2 DEF EndedRunIsCounted
  <2> QED BY <2>1, <2>2
<1> QED BY <1>4, <1>5, <1>6, <1>7, <1>8, <1>9, <1>10 DEF BulkInv

\* A payment is made for the line whose turn it is, and for no other.
LEMMA PaysBulkInv ==
  ASSUME BulkInv, NEW w \in Runners, Pays(w)
  PROVE  BulkInv'
<1> PICK l : l = Min(runner[w].batch)
  OBVIOUS
<1>0. PICK answer \in Answers :
        /\ l = Min(runner[w].batch)
        /\ process(l, answer)
        /\ runner' = [runner EXCEPT ![w].pc = "answered", ![w].answer = answer]
  BY DEF Pays
<1>1. /\ runner[w] \in Runner
      /\ runner[w].pc = "paying"
      /\ UNCHANGED <<run, line, crashes, late, unstored, disturbed>>
      /\ run.state # "ABSENT"
      /\ runner[w].seen \in {"QUEUED", "RUNNING"}
  BY DEF Pays, BulkInv, BTypeOK, CopiesInv
<1>2. l \in runner[w].batch /\ l \in Lines
  BY <1>0, <1>1, MinIsMember DEF BulkInv, BatchInv, Runner
<1>3. /\ tx[l] = "NONE"
      /\ line[l] = "PROCESSING"
      /\ \A v \in Runners \ {w} : l \notin runner[v].batch
  BY <1>1, <1>2 DEF BulkInv, BatchInv
<1>4. /\ tx' \in [Lines -> TxStates]
      /\ tx'[l] = IF answer = "ERROR" THEN "NONE" ELSE answer
      /\ \A k \in Lines \ {l} : tx'[k] = tx[k]
  BY <1>0, <1>2, <1>3, KeysAreLines DEF process, BulkInv, BTypeOK, PortTypeOK, TxStates, Answers
<1>5. /\ runner' \in [Runners -> Runner]
      /\ runner'[w].pc = "answered"
      /\ runner'[w].answer = answer
      /\ runner'[w].batch = runner[w].batch
      /\ runner'[w].seen = runner[w].seen
      /\ \A v \in Runners \ {w} : runner'[v] = runner[v]
  <2> DEFINE r == [runner[w] EXCEPT !.pc = "answered", !.answer = answer]
  <2>1. r \in Runner /\ r.pc = "answered" /\ r.answer = answer /\ r.batch = runner[w].batch
        /\ r.seen = runner[w].seen
    BY <1>1 DEF Runner
  <2>2. runner' = [runner EXCEPT ![w] = r] /\ runner \in [Runners -> Runner]
    BY <1>0 DEF BulkInv, BTypeOK
  <2> HIDE DEF r
  <2> QED BY <2>1, <2>2
<1>6. BTypeOK'
  BY <1>1, <1>4, <1>5, KeysAreLines DEF BulkInv, BTypeOK, PortTypeOK
<1>7. CopiesInv' /\ AbsentInv'
  BY <1>1, <1>5 DEF BulkInv, CopiesInv, AbsentInv
<1>8. BatchInv'
  <2>1. ASSUME NEW v \in Runners, NEW k \in runner'[v].batch
        PROVE  /\ line'[k] = "PROCESSING"
               /\ (runner'[v].pc = "answered" /\ k = Min(runner'[v].batch)) \/ tx'[k] = "NONE"
               /\ \A u \in Runners \ {v} : k \notin runner'[u].batch
    <3>1. k \in runner[v].batch /\ k \in Lines
      BY <1>5, <2>1 DEF BulkInv, BTypeOK, Runner
    <3>2. CASE v = w
      BY <1>0, <1>1, <1>4, <1>5, <3>1, <3>2 DEF BulkInv, BatchInv
    <3>3. CASE v # w
      BY <1>1, <1>3, <1>4, <1>5, <3>1, <3>3 DEF BulkInv, BatchInv
    <3> QED BY <3>2, <3>3
  <2>2. \A v \in Runners : runner'[v].pc \in {"paying", "answered"} <=> runner'[v].batch # {}
    BY <1>1, <1>5 DEF BulkInv, BatchInv
  <2> QED BY <2>1, <2>2 DEF BatchInv
<1>9. AnswerInv'
  <2>1. ASSUME NEW v \in Runners \ {w}, runner[v].pc = "answered"
        PROVE  Min(runner[v].batch) \in Lines \ {l}
    BY <1>3, <2>1, MinIsMember DEF BulkInv, BTypeOK, Runner, BatchInv
  <2>2. \A v \in Runners \ {w} : runner'[v].pc = "answered" =>
          /\ runner[v].pc = "answered"
          /\ runner'[v].answer = runner[v].answer
          /\ runner'[v].batch = runner[v].batch
          /\ tx'[Min(runner[v].batch)] = tx[Min(runner[v].batch)]
    BY <1>4, <1>5, <2>1
  <2>3. ASSUME NEW v \in Runners, runner'[v].pc = "answered"
        PROVE  /\ runner'[v].answer = "CONFIRMED" => tx'[Min(runner'[v].batch)] = "CONFIRMED"
               /\ runner'[v].answer = "REJECTED" => tx'[Min(runner'[v].batch)] = "REJECTED"
               /\ runner'[v].answer = "ERROR" =>
                    tx'[Min(runner'[v].batch)] = "NONE" \/ Min(runner'[v].batch) \in unstored
    <3>1. CASE v = w
      BY <1>0, <1>4, <1>5, <3>1
    <3>2. CASE v # w
      BY <2>2, <2>3, <3>2 DEF BulkInv, AnswerInv
    <3> QED BY <3>1, <3>2
  <2> QED BY <1>1, <2>3 DEF AnswerInv
<1>10. LineInv'
  BY <1>1, <1>3, <1>4 DEF BulkInv, LineInv
<1>11. CountsInv'
  <2>1. \A v \in Runners : runner'[v].pc = "counted" =>
          runner[v].pc = "counted" /\ runner'[v].counts = runner[v].counts
    BY <1>5
  <2> QED BY <1>1, <1>6, <2>1, CountsStay
<1>12. EndedRunIsCounted'
  BY <1>1, EndedStays DEF BulkInv
<1> QED BY <1>6, <1>7, <1>8, <1>9, <1>10, <1>11, <1>12 DEF BulkInv

\* Recovery touches no payment that an answer or a line speaks of, but for
\* the late ones.
LEMMA RecoversBulkInv ==
  ASSUME BulkInv, NEW l \in Lines, Recovers(l),
         UNCHANGED <<run, line, runner, crashes, late, unstored, disturbed>>
  PROVE  BulkInv'
<1>1. /\ tx' \in [Lines -> TxStates]
      /\ \A k \in Lines : tx[k] # "PENDING_RECONCILIATION" => tx'[k] = tx[k]
  BY KeysAreLines DEF Recovers, BulkInv, BTypeOK, PortTypeOK, TxStates
<1>2. \A v \in Runners : runner[v].batch \subseteq Lines
  BY DEF BulkInv, BTypeOK, Runner
<1>3. BTypeOK'
  BY <1>1, KeysAreLines DEF BulkInv, BTypeOK, PortTypeOK
<1>4. CopiesInv' /\ AbsentInv'
  BY DEF BulkInv, CopiesInv, AbsentInv
<1>5. BatchInv'
  <2>1. \A v \in Runners : \A k \in runner[v].batch : tx[k] = "NONE" => tx'[k] = "NONE"
    BY <1>1, <1>2
  <2> QED BY <2>1 DEF BulkInv, BatchInv
<1>6. AnswerInv'
  <2>1. ASSUME NEW v \in Runners, runner[v].pc = "answered"
        PROVE  Min(runner[v].batch) \in Lines
    BY <1>2, <2>1, MinIsMember DEF BulkInv, BatchInv
  <2> QED BY <1>1, <2>1 DEF BulkInv, AnswerInv
<1>7. LineInv'
  BY <1>1 DEF BulkInv, LineInv
<1>8. CountsInv'
  BY <1>3, CountsStay
<1>9. EndedRunIsCounted'
  BY EndedStays DEF BulkInv
<1> QED BY <1>3, <1>4, <1>5, <1>6, <1>7, <1>8, <1>9 DEF BulkInv

\* The line is told what the answer said.
LEMMA SetLineResultBulkInv ==
  ASSUME BulkInv, NEW w \in Runners, setLineResult(w)
  PROVE  BulkInv'
<1> PICK l : l = Min(runner[w].batch)
  OBVIOUS
<1> PICK answer : answer = runner[w].answer
  OBVIOUS
<1>1. /\ runner[w] \in Runner
      /\ runner[w].pc = "answered"
      /\ line' = [line EXCEPT ![l] = LineState(answer)]
      /\ late' = IF answer = "PENDING_RECONCILIATION" THEN late \cup {l} ELSE late
      /\ UNCHANGED <<tx, run, crashes, unstored, disturbed>>
      /\ run.state # "ABSENT"
      /\ runner[w].seen \in {"QUEUED", "RUNNING"}
  BY DEF setLineResult, BulkInv, BTypeOK, CopiesInv
<1>2. l \in runner[w].batch /\ l \in Lines /\ answer \in Answers
  BY <1>1, MinIsMember DEF BulkInv, BatchInv, Runner
<1>3. /\ line[l] = "PROCESSING"
      /\ \A v \in Runners \ {w} : l \notin runner[v].batch
      /\ \A k \in runner[w].batch \ {l} : tx[k] = "NONE"
  BY <1>1, <1>2 DEF BulkInv, BatchInv
<1>4. /\ answer = "CONFIRMED" => tx[l] = "CONFIRMED"
      /\ answer = "REJECTED" => tx[l] = "REJECTED"
      /\ answer = "ERROR" => tx[l] = "NONE" \/ l \in unstored
      /\ answer \in {"CONFIRMED", "REJECTED", "PENDING_RECONCILIATION", "ERROR"}
  BY <1>1, <1>2 DEF BulkInv, AnswerInv, Answers, TxStates
<1>5. /\ runner' \in [Runners -> Runner]
      /\ runner'[w].pc = IF runner[w].batch = {l} THEN "counting" ELSE "paying"
      /\ runner'[w].batch = runner[w].batch \ {l}
      /\ runner'[w].seen = runner[w].seen
      /\ \A v \in Runners \ {w} : runner'[v] = runner[v]
  <2> DEFINE r == [runner[w] EXCEPT !.batch = runner[w].batch \ {l},
                                    !.pc = IF runner[w].batch = {l} THEN "counting" ELSE "paying"]
  <2>1. r \in Runner /\ r.batch = runner[w].batch \ {l} /\ r.seen = runner[w].seen
        /\ r.pc = IF runner[w].batch = {l} THEN "counting" ELSE "paying"
    BY <1>1 DEF Runner
  <2>2. runner' = [runner EXCEPT ![w] = r] /\ runner \in [Runners -> Runner]
    BY DEF setLineResult, BulkInv, BTypeOK
  <2> HIDE DEF r
  <2> QED BY <2>1, <2>2
<1>6. /\ line' \in [Lines -> LINE_STATES]
      /\ line'[l] = IF answer = "CONFIRMED" THEN "SUCCEEDED" ELSE "FAILED"
      /\ \A k \in Lines \ {l} : line'[k] = line[k]
      /\ late' \subseteq Lines
  BY <1>1, <1>2 DEF BulkInv, BTypeOK, LineState, LINE_STATES
<1>7. BTypeOK'
  BY <1>1, <1>5, <1>6 DEF BulkInv, BTypeOK, PortTypeOK
<1>8. CopiesInv' /\ AbsentInv'
  BY <1>1, <1>5 DEF BulkInv, CopiesInv, AbsentInv
<1>9. BatchInv'
  <2>1. ASSUME NEW v \in Runners, NEW k \in runner'[v].batch
        PROVE  /\ line'[k] = "PROCESSING"
               /\ (runner'[v].pc = "answered" /\ k = Min(runner'[v].batch)) \/ tx'[k] = "NONE"
               /\ \A u \in Runners \ {v} : k \notin runner'[u].batch
    <3>1. k \in runner[v].batch /\ k \in Lines \ {l}
      BY <1>3, <1>5, <2>1 DEF BulkInv, BTypeOK, Runner
    <3>2. CASE v = w
      BY <1>1, <1>3, <1>5, <1>6, <3>1, <3>2 DEF BulkInv, BatchInv
    <3>3. CASE v # w
      BY <1>1, <1>5, <1>6, <3>1, <3>3 DEF BulkInv, BatchInv
    <3> QED BY <3>2, <3>3
  <2>2. \A v \in Runners : runner'[v].pc \in {"paying", "answered"} <=> runner'[v].batch # {}
    BY <1>2, <1>5 DEF BulkInv, BatchInv
  <2> QED BY <2>1, <2>2 DEF BatchInv
<1>10. AnswerInv'
  BY <1>1, <1>5 DEF BulkInv, AnswerInv
<1>11. LineInv'
  <2>1. line'[l] = "SUCCEEDED" => tx[l] = "CONFIRMED"
    BY <1>4, <1>6
  <2>2. line'[l] = "FAILED" /\ l \notin late' \cup unstored => tx[l] \in {"NONE", "REJECTED"}
    BY <1>1, <1>4, <1>6
  <2>3. line'[l] \notin {"ABSENT", "PENDING"}
    BY <1>6
  <2>4. \A k \in Lines \ {l} : k \in late' <=> k \in late
    BY <1>1
  <2> QED BY <1>1, <1>6, <2>1, <2>2, <2>3, <2>4 DEF BulkInv, LineInv
<1>12. CountsInv'
  <2>1. \A k \in Lines, state \in {"SUCCEEDED", "FAILED"} : line[k] = state => line'[k] = state
    BY <1>3, <1>6
  <2>2. \A v \in Runners : runner'[v].pc = "counted" =>
          runner[v].pc = "counted" /\ runner'[v].counts = runner[v].counts
    BY <1>5
  <2> QED BY <1>7, <2>1, <2>2, CountsStay
<1>13. EndedRunIsCounted'
  BY <1>1, <1>2, <1>3, NothingLeft DEF EndedRunIsCounted
<1> QED BY <1>7, <1>8, <1>9, <1>10, <1>11, <1>12, <1>13 DEF BulkInv

\* The answer is forgotten, and the line is one that could not be stored.
LEMMA StoreThrowsBulkInv ==
  ASSUME BulkInv, NEW w \in Runners, StoreThrows(w)
  PROVE  BulkInv'
<1> PICK l : l = Min(runner[w].batch)
  OBVIOUS
<1>1. /\ runner[w] \in Runner
      /\ runner[w].pc = "answered"
      /\ unstored' = unstored \cup {l}
      /\ UNCHANGED <<tx, run, line, crashes, late, disturbed>>
  BY DEF StoreThrows, BulkInv, BTypeOK
<1>2. l \in runner[w].batch /\ l \in Lines
  BY <1>1, MinIsMember DEF BulkInv, BatchInv, Runner
<1>3. /\ runner' \in [Runners -> Runner]
      /\ \A v \in Runners :
           /\ runner'[v].pc = runner[v].pc
           /\ runner'[v].batch = runner[v].batch
           /\ runner'[v].seen = runner[v].seen
           /\ runner'[v].counts = runner[v].counts
      /\ runner'[w].answer = "ERROR"
      /\ \A v \in Runners \ {w} : runner'[v].answer = runner[v].answer
  <2> DEFINE r == [runner[w] EXCEPT !.answer = "ERROR"]
  <2>1. /\ r \in Runner /\ r.answer = "ERROR"
        /\ r.pc = runner[w].pc /\ r.batch = runner[w].batch
        /\ r.seen = runner[w].seen /\ r.counts = runner[w].counts
    BY <1>1 DEF Runner, Answers
  <2>2. runner' = [runner EXCEPT ![w] = r] /\ runner \in [Runners -> Runner]
    BY DEF StoreThrows, BulkInv, BTypeOK
  <2> HIDE DEF r
  <2> QED BY <2>1, <2>2
<1>4. BTypeOK'
  BY <1>1, <1>2, <1>3 DEF BulkInv, BTypeOK, PortTypeOK
<1>5. CopiesInv' /\ AbsentInv'
  BY <1>1, <1>3 DEF BulkInv, CopiesInv, AbsentInv
<1>6. BatchInv'
  BY <1>1, <1>3 DEF BulkInv, BatchInv
<1>7. AnswerInv'
  <2>1. ASSUME NEW v \in Runners, runner'[v].pc = "answered"
        PROVE  /\ runner'[v].answer = "CONFIRMED" => tx'[Min(runner'[v].batch)] = "CONFIRMED"
               /\ runner'[v].answer = "REJECTED" => tx'[Min(runner'[v].batch)] = "REJECTED"
               /\ runner'[v].answer = "ERROR" =>
                    tx'[Min(runner'[v].batch)] = "NONE" \/ Min(runner'[v].batch) \in unstored'
    <3>1. CASE v = w
      BY <1>1, <1>3, <3>1
    <3>2. CASE v # w
      BY <1>1, <1>3, <2>1, <3>2 DEF BulkInv, AnswerInv
    <3> QED BY <3>1, <3>2
  <2> QED BY <2>1 DEF AnswerInv
<1>8. LineInv'
  BY <1>1 DEF BulkInv, LineInv
<1>9. CountsInv'
  BY <1>1, <1>3, <1>4, CountsStay
<1>10. EndedRunIsCounted'
  BY <1>1, EndedStays DEF BulkInv
<1> QED BY <1>4, <1>5, <1>6, <1>7, <1>8, <1>9, <1>10 DEF BulkInv

-----------------------------------------------------------------------------
LEMMA StepBulkInv == BulkInv /\ [BNext]_bvars => BulkInv'
<1> SUFFICES ASSUME BulkInv, [BNext]_bvars PROVE BulkInv'
  OBVIOUS
<1>1. CASE upload
  BY <1>1, UploadBulkInv
<1>2. ASSUME NEW w \in Runners, runToCompletion(w) \/ RunnerStep(w) \/ StoreThrows(w) \/ Crash(w)
      PROVE  BulkInv'
  BY <1>2, StartBulkInv, ReadsRunBulkInv, StartsBulkInv, PicksBulkInv, PaysBulkInv,
     SetLineResultBulkInv, StoreThrowsBulkInv, CountBulkInv, SetRunStateBulkInv, CrashBulkInv
  DEF RunnerStep
<1>3. ASSUME NEW l \in Lines, Recovers(l),
             UNCHANGED <<run, line, runner, crashes, late, unstored, disturbed>>
      PROVE  BulkInv'
  BY <1>3, RecoversBulkInv
<1>4. CASE UNCHANGED bvars
  <2>1. /\ UNCHANGED <<tx, run, line, runner, crashes, late, unstored, disturbed>>
    BY <1>4 DEF bvars
  <2>2. BTypeOK' /\ CopiesInv' /\ AbsentInv' /\ BatchInv' /\ AnswerInv' /\ LineInv'
    BY <2>1 DEF BulkInv, BTypeOK, PortTypeOK, CopiesInv, AbsentInv, BatchInv, AnswerInv, LineInv
  <2>3. CountsInv'
    BY <2>1, <2>2, CountsStay
  <2>4. EndedRunIsCounted'
    BY <2>1, EndedStays DEF BulkInv
  <2> QED BY <2>2, <2>3, <2>4 DEF BulkInv
<1> QED BY <1>1, <1>2, <1>3, <1>4 DEF BNext

\* The inductive invariant of the calls on one file (BulkRun): what a call
\* may still rely on while others pick, pay, count and die.
THEOREM BulkInductive == BSpec => []BulkInv
<1>1. BInit => BulkInv
  BY InitBulkInv
<1>2. BulkInv /\ [BNext]_bvars => BulkInv'
  BY StepBulkInv
<1> QED BY <1>1, <1>2, PTL DEF BSpec

\* What the run and its lines say of the payments is so, for any file,
\* however many calls of POST /runs/:n/run overlap, die or are answered late.
THEOREM BulkIsTrue == BSpec => []BulkTellsPayments
<1>1. BulkInv => BulkTellsPayments
  BY DEF BulkInv, BulkTellsPayments, LineInv, LineTellsPayment
<1> QED BY <1>1, BulkInductive, PTL

\* What is stored of a line that has ended.
LineEnds(l) == line[l] \in {"SUCCEEDED", "FAILED"}

\* No call takes back what another has stored of a line: an ended line stays
\* as it is.
THEOREM EndedLinesStay ==
  BSpec => [][\A l \in Lines : LineEnds(l) => line'[l] = line[l]]_bvars
<1>1. BulkInv /\ [BNext]_bvars => [\A l \in Lines : LineEnds(l) => line'[l] = line[l]]_bvars
  <2> SUFFICES ASSUME BulkInv, BNext, NEW l \in Lines, LineEnds(l)
               PROVE  line'[l] = line[l]
    BY DEF bvars
  <2>1. ASSUME NEW w \in Runners, setLineResult(w)
        PROVE  line'[l] = line[l]
    <3>1. Min(runner[w].batch) \in runner[w].batch
      BY <2>1, MinIsMember DEF setLineResult, BulkInv, BTypeOK, BatchInv, Runner
    <3>2. l # Min(runner[w].batch)
      BY <3>1 DEF LineEnds, BulkInv, BatchInv
    <3> QED BY <2>1, <3>2 DEF setLineResult, BulkInv, BTypeOK
  <2>2. CASE upload
    BY <2>2 DEF upload, LineEnds, BulkInv, AbsentInv
  <2>3. ASSUME NEW w \in Runners, Picks(w)
        PROVE  line'[l] = line[l]
    BY <2>3 DEF Picks, Pending, LineEnds
  <2> QED
    BY <2>1, <2>2, <2>3 DEF BNext, RunnerStep, runToCompletion, ReadsRun, Starts, Pays,
       StoreThrows, countLineStates, setRunState, Crash
<1> QED BY <1>1, BulkInductive, PTL DEF BSpec
=============================================================================
