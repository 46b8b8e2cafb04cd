--------------------------- MODULE InstantPayment ---------------------------
(***************************************************************************)
(* What the rail promises of an instant payment, without envelopes, calls, *)
(* workers, probes or database transactions:                               *)
(*   - it is settled only after the beneficiary has executed it, and the   *)
(*     rail's books take it in the same step, once;                        *)
(*   - a payment that is settled or declined stays so, but for one         *)
(*     reversal of a settled payment that the beneficiary has executed;    *)
(*   - what the beneficiary has executed stays executed.                   *)
(***************************************************************************)
EXTENDS Naturals

CONSTANT Instructions   \* payments and reversals

VARIABLES
  phase,      \* what the rail says of each instruction
  executed,   \* instructions the beneficiary has carried out
  booked      \* journals per instruction in the rail's ledger

vars == <<phase, executed, booked>>

Phases == {"absent", "open", "settled", "declined", "unwound"}

TypeOK ==
  /\ phase \in [Instructions -> Phases]
  /\ executed \subseteq Instructions
  /\ booked \in [Instructions -> Nat]

Init ==
  /\ phase = [i \in Instructions |-> "absent"]
  /\ executed = {}
  /\ booked = [i \in Instructions |-> 0]

Undecided(i) == phase[i] \in {"absent", "open"}

Execute(i) ==
  /\ executed' = executed \cup {i}
  /\ UNCHANGED <<phase, booked>>

Open(i) ==
  /\ phase[i] = "absent"
  /\ phase' = [phase EXCEPT ![i] = "open"]
  /\ UNCHANGED <<executed, booked>>

Settle(i) ==
  /\ Undecided(i)
  /\ i \in executed
  /\ phase' = [phase EXCEPT ![i] = "settled"]
  /\ booked' = [booked EXCEPT ![i] = @ + 1]
  /\ UNCHANGED executed

Decline(i) ==
  /\ Undecided(i)
  /\ phase' = [phase EXCEPT ![i] = "declined"]
  /\ UNCHANGED <<executed, booked>>

\* A second instruction r unwinds i; the rail books nothing for it.
Unwind(i, r) ==
  /\ phase[i] = "settled"
  /\ phase[r] = "absent"
  /\ r \in executed
  /\ phase' = [phase EXCEPT ![i] = "unwound", ![r] = "settled"]
  /\ UNCHANGED <<executed, booked>>

Next ==
  \/ \E i \in Instructions : Execute(i) \/ Open(i) \/ Settle(i) \/ Decline(i)
  \/ \E i, r \in Instructions : Unwind(i, r)

Spec == Init /\ [][Next]_vars

=============================================================================
