---------------------------- MODULE MCSettlement ----------------------------
(* Two participants and small bounds for Settlement and OperatingDay.  The  *)
(* initial state chooses what to look at: sessions that race on one day, or *)
(* days that end, with fewer sessions and journals.                         *)
EXTENDS OperatingDay, TLC

CONSTANTS s1, s2, s3, c1, c2,
          Worlds        \* a subset of {"races", "days"}

VARIABLE world

OneSession == {s1}
ThreeSessions == {s1, s2, s3}
Symmetry == Permutations(ThreeSessions) \cup Permutations({c1, c2})

UInit == DayInit /\ world \in Worlds

\* Bounds of the days: two sessions at a time, one journal and no rebuild.
Few ==
  /\ Cardinality({s \in Sessions : work[s] # Idle}) <= 2
  /\ begun.journals <= 1 /\ begun.rebuilds = 0

Races == world = "races" /\ SettlementStep /\ UNCHANGED world

DaysEnd == world = "days" /\ DayNext /\ Few' /\ UNCHANGED world

USpec == UInit /\ [][Races \/ DaysEnd]_<<allVars, world>>
=============================================================================
