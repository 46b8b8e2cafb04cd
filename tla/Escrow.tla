------------------------------- MODULE Escrow -------------------------------
(***************************************************************************)
(* Money held by the rail between a payer and a payee                      *)
(* (modules/overlays-escrow).  Creating a hold moves its amount into one   *)
(* ledger account of the rail; a release pays it to the payee, a refund    *)
(* back to the payer.                                                      *)
(*                                                                         *)
(* A handler reads the hold without a lock, tests the copy, posts the      *)
(* journal and writes the state by the row's key, all in one transaction   *)
(* (READ COMMITTED).  The row is locked from the write to the commit, so   *)
(* reading and writing are two steps with others in between, and what      *)
(* follows the write is part of it.                                        *)
(***************************************************************************)
EXTENDS Naturals

CONSTANTS Holds, Sessions, None,
          MaxPayouts    \* bound of the instance: journals out of one hold

ASSUME NoHoldAssumption == None \notin Holds
ASSUME PayoutsAssumption == MaxPayouts \in Nat

VARIABLES
  hold,         \* rows of escrow_holds
  paid,         \* number of journals out of escrow, by hold and receiver
  session,      \* handlers that have read a hold
  clobbered     \* history: holds whose state was written over another than
                \* the one that was read

evars == <<hold, paid, session, clobbered>>

RELEASE_CONDITIONS == {"BOTH_SIGNATURES", "TIME_ELAPSED", "PAYER_RELEASE", "ARBITER_RELEASE"}

\* INITIATED lasts no longer than the transaction that creates the hold, so
\* that cancel() never finds it, and nothing else writes CANCELLED.
HOLD_STATES == {"ABSENT", "HELD", "RELEASED", "REFUNDED"}

Parties == {"PAYER", "PAYEE"}

Hold == [state     : HOLD_STATES,
         condition : RELEASE_CONDITIONS,
         signed    : SUBSET Parties,
         past      : BOOLEAN]           \* release_at has passed

HoldOperations == {"sign", "payerRelease", "arbiterRelease", "refund", "cancel", "tick"}

Session == [op : HoldOperations \cup {"none"}, on : Holds \cup {None}, by : Parties, seen : Hold]

NoHold == [state |-> "ABSENT", condition |-> "PAYER_RELEASE", signed |-> {}, past |-> FALSE]
Resting == [op |-> "none", on |-> None, by |-> "PAYER", seen |-> NoHold]

EInit ==
  /\ hold = [h \in Holds |-> NoHold]
  /\ paid = [h \in Holds |-> [p \in Parties |-> 0]]
  /\ session = [s \in Sessions |-> Resting]
  /\ clobbered = {}

-----------------------------------------------------------------------------

\* The row, the journal into escrow and HELD in one transaction.
create(h) ==
  /\ hold[h].state = "ABSENT"
  /\ \E condition \in RELEASE_CONDITIONS :
       hold' = [hold EXCEPT ![h].state = "HELD", ![h].condition = condition]
  /\ UNCHANGED <<paid, session, clobbered>>

DeadlinePasses(h) ==
  /\ hold[h].condition = "TIME_ELAPSED"
  /\ ~hold[h].past
  /\ hold' = [hold EXCEPT ![h].past = TRUE]
  /\ UNCHANGED <<paid, session, clobbered>>

\* Mutant: a hold that is paid out may be acted on again.
MayActOnAnyState(op, row) ==
  /\ row.state # "ABSENT"
  /\ op = "sign"           => row.condition = "BOTH_SIGNATURES"
  /\ op = "payerRelease"   => row.condition = "PAYER_RELEASE"
  /\ op = "arbiterRelease" => row.condition = "ARBITER_RELEASE"
  /\ op = "tick"           => row.condition = "TIME_ELAPSED" /\ row.past

\* The tests on the copy.  Refund and cancel take a hold of any condition.
MayAct(op, row) ==
  /\ row.state = "HELD"
  /\ op = "sign"           => row.condition = "BOTH_SIGNATURES"
  /\ op = "payerRelease"   => row.condition = "PAYER_RELEASE"
  /\ op = "arbiterRelease" => row.condition = "ARBITER_RELEASE"
  /\ op = "tick"           => row.condition = "TIME_ELAPSED" /\ row.past

\* A tick picks its rows in a transaction that ends, and releases each in one
\* of its own; a session stands for one of its rows.
Reads(s, h, op) ==
  /\ session[s].op = "none"
  /\ MayAct(op, hold[h])
  /\ \E party \in Parties :
       session' = [session EXCEPT ![s] = [op |-> op, on |-> h, by |-> party, seen |-> hold[h]]]
  /\ UNCHANGED <<hold, paid, clobbered>>

Leaves(s) == session' = [session EXCEPT ![s] = Resting]

\* The write finds the row in whatever state it has come to.
Notes(s) ==
  LET h == session[s].on IN
  clobbered' = IF hold[h].state = session[s].seen.state THEN clobbered
                                                        ELSE clobbered \cup {h}

MorePayouts(h) == paid[h]["PAYEE"] + paid[h]["PAYER"] < MaxPayouts

\* Mutant: the state and the party of the other journal.
PaysOutSwapped(s, state, party) ==
  LET h == session[s].on IN
  /\ MorePayouts(h)
  /\ hold' = [hold EXCEPT ![h].state = party]
  /\ paid' = [paid EXCEPT ![h][party] = @ + 1]

\* A journal out of escrow, and the state.
PaysOut(s, state, party) ==
  LET h == session[s].on IN
  /\ MorePayouts(h)
  /\ hold' = [hold EXCEPT ![h].state = state]
  /\ paid' = [paid EXCEPT ![h][party] = @ + 1]

releaseInternal(s) ==
  /\ session[s].op \in {"payerRelease", "arbiterRelease", "tick"}
  /\ PaysOut(s, "RELEASED", "PAYEE")
  /\ Notes(s)
  /\ Leaves(s)

refundInternal(s) ==
  /\ session[s].op \in {"refund", "cancel"}
  /\ PaysOut(s, "REFUNDED", "PAYER")
  /\ Notes(s)
  /\ Leaves(s)

\* Mutant: the other signature is looked for in the copy.
SignaturesSeen(s) == session[s].seen.signed \cup {session[s].by}

\* The row as the UPDATE returns it: it has waited for the other signature's
\* transaction.
Signatures(s) == hold[session[s].on].signed \cup {session[s].by}

\* HELD is written too, and the second signature releases.
sign(s) ==
  LET h == session[s].on IN
  /\ session[s].op = "sign"
  /\ IF Signatures(s) = Parties
       THEN /\ MorePayouts(h)
            /\ hold' = [hold EXCEPT ![h].state = "RELEASED", ![h].signed = Parties]
            /\ paid' = [paid EXCEPT ![h]["PAYEE"] = @ + 1]
       ELSE /\ hold' = [hold EXCEPT ![h].state = "HELD",
                                    ![h].signed = @ \cup {session[s].by}]
            /\ UNCHANGED paid
  /\ Notes(s)
  /\ Leaves(s)

\* An error or a crash before the commit.
Fails(s) ==
  /\ session[s].op # "none"
  /\ Leaves(s)
  /\ UNCHANGED <<hold, paid, clobbered>>

-----------------------------------------------------------------------------

Handler(s) ==
  \/ \E h \in Holds, op \in HoldOperations : Reads(s, h, op)
  \/ releaseInternal(s)
  \/ refundInternal(s)
  \/ sign(s)
  \/ Fails(s)

ENext ==
  \/ \E h \in Holds : create(h) \/ DeadlinePasses(h)
  \/ \E s \in Sessions : Handler(s)

ESpec == EInit /\ [][ENext]_evars

-----------------------------------------------------------------------------

ETypeOK ==
  /\ hold \in [Holds -> Hold]
  /\ paid \in [Holds -> [Parties -> Nat]]
  /\ session \in [Sessions -> Session]
  /\ clobbered \subseteq Holds

\* What has been paid is what the state says: nothing for a hold that is
\* HELD, one payment to the payee or one to the payer for another.  As long
\* as no handler writes over a state that it has not read.
PaidOnceUnlessOverwritten ==
  \A h \in Holds \ clobbered :
    /\ paid[h]["PAYEE"] = IF hold[h].state = "RELEASED" THEN 1 ELSE 0
    /\ paid[h]["PAYER"] = IF hold[h].state = "REFUNDED" THEN 1 ELSE 0

\* However signatures, refunds and failures overlap, two signatures release a
\* hold and one does not, and no hold waits for a signature it has.
BothSignaturesRelease ==
  \A h \in Holds :
    hold[h].condition = "BOTH_SIGNATURES" =>
      /\ hold[h].signed = Parties <=> paid[h]["PAYEE"] > 0
      /\ hold[h].state = "HELD" => hold[h].signed # Parties

=============================================================================
