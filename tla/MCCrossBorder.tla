--------------------------- MODULE MCCrossBorder ----------------------------
(***************************************************************************)
(* Small instances of CrossBorder for TLC: one transfer with two ticks of  *)
(* the recovery worker that overlap, and two transfers with one tick that  *)
(* compete for a quote.  The initial state chooses, and the bounds below   *)
(* keep a behaviour in its instance.                                       *)
(***************************************************************************)
EXTENDS CrossBorder, TLC

VARIABLE instance

\* Bounds of the instances.
OneTransfer ==
  Cardinality({t \in Transfers : orch[t].pc # "new" \/ tx[t] # "ABSENT"}) <= 1

OneTick ==
  /\ Cardinality({k \in Ticks : tick[k] # Resting(<<>>)}) <= 1
  /\ InstructionsSent <= 1
  /\ InconclusiveAnswers <= 1

UInit == Init /\ instance \in {"ticks", "quotes"}

UNext ==
  /\ UNCHANGED instance
  /\ Next
  /\ instance = "ticks" => OneTransfer'
  /\ instance = "quotes" => OneTick'

USpec == UInit /\ [][UNext]_<<instance, vars>>

\* Transfers and ticks are interchangeable.
Symmetry == Permutations(Transfers) \cup Permutations(Ticks)

=============================================================================
