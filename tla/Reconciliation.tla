---------------------------- MODULE Reconciliation ----------------------------
(***************************************************************************)
(* Reconciliation (modules/reconciliation): a run reads the transactions   *)
(* of a participant and a day as the rail has them, fetches them as the    *)
(* participant reports them, compares the two and stores the breaks, which *)
(* an operator resolves.                                                   *)
(*                                                                         *)
(* The one feed there is reads the rail's table over another connection;   *)
(* what a participant may report instead, and the tests inject, is in      *)
(* Deviations.                                                             *)
(***************************************************************************)
EXTENDS Naturals, FiniteSets

CONSTANTS Txs, Runs, None,
          Deviations    \* subset of {"missing", "amount", "state", "phantom"}

VARIABLES
  tx,           \* state of the transactions, as far as the view tells them apart
  run,          \* rows of reconciliation_runs and what each has read
  breaks,       \* rows of reconciliation_breaks
  moved,        \* history: of a run, the transactions that changed state
                \* between its two reads
  feigned       \* history: of a run, the entries that are not the rail's

cvars == <<tx, run, breaks, moved, feigned>>

TxStates == {"none", "PENDING_RECONCILIATION", "CONFIRMED", "FAILED", "REVERSED"}

Moves == [none |-> {"PENDING_RECONCILIATION", "CONFIRMED", "FAILED"},
          PENDING_RECONCILIATION |-> {"CONFIRMED", "FAILED"},
          CONFIRMED |-> {"REVERSED"}, FAILED |-> {}, REVERSED |-> {}]

\* What a feed has of a transaction: nothing, or its amount, right or not, and
\* its state in the feed's words.
Entry == [amount : {"same", "other"}, state : TxStates \cup {"credited", "else"}]
NoEntry == [amount |-> "same", state |-> "none"]

BREAK_TYPES == {"MISSING_AT_PARTICIPANT", "MISSING_AT_RAIL", "AMOUNT_MISMATCH", "STATUS_MISMATCH"}

Run == [step : {"absent", "running", "fetched", "completed"}, rail : [Txs -> TxStates],
        feed : [Txs -> Entry], compared : 0 .. Cardinality(Txs), matched : 0 .. Cardinality(Txs)]

RESOLUTIONS == {"pending", "auto_resolved", "operator_resolved", "escalated"}

Break == [run : Runs, tx : Txs, type : BREAK_TYPES, resolution : RESOLUTIONS]

NoRun == [step |-> "absent", rail |-> [t \in Txs |-> "none"],
          feed |-> [t \in Txs |-> NoEntry], compared |-> 0, matched |-> 0]

CInit ==
  /\ tx = [t \in Txs |-> "none"]
  /\ run = [r \in Runs |-> NoRun]
  /\ breaks = {}
  /\ moved = [r \in Runs |-> {}]
  /\ feigned = [r \in Runs |-> {}]

-----------------------------------------------------------------------------

\* The orchestrator, the recovery and the reversals.
Becomes(t, state) ==
  /\ state \in Moves[tx[t]]
  /\ tx' = [tx EXCEPT ![t] = state]
  /\ moved' = [r \in Runs |-> IF run[r].step = "running" THEN moved[r] \cup {t} ELSE moved[r]]
  /\ UNCHANGED <<run, breaks, feigned>>

railView == [t \in Txs |-> tx[t]]

Starts(r) ==
  /\ run[r].step = "absent"
  /\ run' = [run EXCEPT ![r].step = "running", ![r].rail = railView]
  /\ UNCHANGED <<tx, breaks, moved, feigned>>

\* CONFIRMED is credited for a participant; the others are the rail's word.
Semantic(state) == IF state = "CONFIRMED" THEN "credited" ELSE state

Mirror(t) == IF tx[t] = "none" THEN NoEntry ELSE [amount |-> "same", state |-> Semantic(tx[t])]

Reported(t, how) ==
  CASE how = "missing" -> NoEntry
    [] how = "amount" -> [Mirror(t) EXCEPT !.amount = "other"]
    [] how = "state" -> [Mirror(t) EXCEPT !.state = "else"]
    [] how = "phantom" -> [amount |-> "same", state |-> "credited"]
    [] OTHER -> Mirror(t)

\* A deviation is of an entry that is there, a phantom of one that is not.
MayReport(t, how) == how # "none" => (how = "phantom") = (tx[t] = "none")

fetch(r) ==
  /\ run[r].step = "running"
  /\ \E how \in [Txs -> Deviations \cup {"none"}] :
       /\ \A t \in Txs : MayReport(t, how[t])
       /\ run' = [run EXCEPT ![r].step = "fetched", ![r].feed = [t \in Txs |-> Reported(t, how[t])]]
       /\ feigned' = [feigned EXCEPT ![r] = {t \in Txs : how[t] # "none"}]
  /\ UNCHANGED <<tx, breaks, moved>>

\* Mutant: a transaction that the participant does not have is no break.
BreakOfKnown(rail, entry) ==
  IF rail = "none" THEN IF entry = NoEntry THEN None ELSE "MISSING_AT_RAIL"
  ELSE IF entry.amount = "other" THEN "AMOUNT_MISMATCH"
  ELSE IF Semantic(rail) # entry.state /\ entry # NoEntry THEN "STATUS_MISMATCH"
  ELSE None

\* The break that two sides of a transaction make, None when they match.
BreakOf(rail, entry) ==
  IF rail = "none" THEN IF entry = NoEntry THEN None ELSE "MISSING_AT_RAIL"
  ELSE IF entry = NoEntry THEN "MISSING_AT_PARTICIPANT"
  ELSE IF entry.amount = "other" THEN "AMOUNT_MISMATCH"
  ELSE IF Semantic(rail) # entry.state THEN "STATUS_MISMATCH"
  ELSE None

Found(r) ==
  {b \in [run : {r}, tx : Txs, type : BREAK_TYPES, resolution : {"pending"}] :
     BreakOf(run[r].rail[b.tx], run[r].feed[b.tx]) = b.type}

completeRun(r) ==
  LET seen == {t \in Txs : run[r].rail[t] # "none"}
      broken == {b.tx : b \in Found(r)} IN
  /\ run[r].step = "fetched"
  /\ breaks' = breaks \cup Found(r)
  /\ run' = [run EXCEPT ![r].step = "completed", ![r].compared = Cardinality(seen),
                        ![r].matched = Cardinality(seen \ broken)]
  /\ UNCHANGED <<tx, moved, feigned>>

\* The run is one transaction: when a step of it fails nothing of it remains.
Fails(r) ==
  /\ run[r].step \in {"running", "fetched"}
  /\ run' = [run EXCEPT ![r] = NoRun]
  /\ moved' = [moved EXCEPT ![r] = {}]
  /\ feigned' = [feigned EXCEPT ![r] = {}]
  /\ UNCHANGED <<tx, breaks>>

\* Any break may be resolved, and resolved again.
resolveBreak(b, resolution) ==
  /\ breaks' = (breaks \ {b}) \cup {[b EXCEPT !.resolution = resolution]}
  /\ UNCHANGED <<tx, run, moved, feigned>>

CNext ==
  \/ \E t \in Txs, state \in TxStates : Becomes(t, state)
  \/ \E r \in Runs : Starts(r) \/ fetch(r) \/ completeRun(r) \/ Fails(r)
  \/ \E b \in breaks, resolution \in RESOLUTIONS \ {"pending"} : resolveBreak(b, resolution)

-----------------------------------------------------------------------------

CTypeOK ==
  /\ tx \in [Txs -> TxStates]
  /\ run \in [Runs -> Run]
  /\ breaks \subseteq Break
  /\ moved \in [Runs -> SUBSET Txs]
  /\ feigned \in [Runs -> SUBSET Txs]

BrokenIn(r) == {b.tx : b \in {c \in breaks : c.run = r}}

\* A completed run has a break, one, for every transaction that the participant
\* reports otherwise, and none but for those and for the ones that moved while
\* the two sides were read; and its counts add up.
BreaksAreDeviations ==
  \A r \in Runs : run[r].step = "completed" =>
    /\ feigned[r] \ moved[r] \subseteq BrokenIn(r)
    /\ BrokenIn(r) \subseteq feigned[r] \cup moved[r]
    /\ Cardinality({b \in breaks : b.run = r}) = Cardinality(BrokenIn(r))
    /\ run[r].compared - run[r].matched =
         Cardinality({b \in breaks : b.run = r /\ b.type # "MISSING_AT_RAIL"})

\* "The fake mirrors the rail's own ledger so by definition there are no
\* breaks."
MirrorHasNoBreaks == breaks = {}

=============================================================================
