---------------------------- MODULE Authorization ----------------------------
(***************************************************************************)
(* The authorization of a payment (modules/authorization, and the context  *)
(* that transactions/orchestrator.js gathers for it): duplicates, status   *)
(* of the accounts, sanctions, fraud, caps on the originator's volume, and *)
(* liquidity, in this order.                                               *)
(*                                                                         *)
(* One originator.  A payment is one transaction of the database, so that  *)
(* others see its row when it commits; what it reads of them is not        *)
(* locked.  Sanctions, fraud and liquidity answer yes or no here: see      *)
(* Screening, FraudRules and Settlement.  A row that waits abroad          *)
(* (CREDIT_LEG_PENDING) is one that recovery has in hand here, and one     *)
(* that recovery has given up (FAILED) is REJECTED: they count alike.      *)
(* Nothing commits a row in RECEIVED.                                      *)
(***************************************************************************)
EXTENDS Naturals, Functions

CONSTANTS Txs, E2Es, Accounts, Sessions, Amounts, None,
          DailyCap, MonthlyCap

VARIABLES
  tx,           \* rows of transactions
  account,      \* status of each account of the directory
  session,      \* payments between BEGIN and COMMIT
  overlapped    \* history: payments that committed after another one had,
                \* which a read of theirs had not seen, and reversals

avars == <<tx, account, session, overlapped>>

TxStates == {"NONE", "CONFIRMED", "PENDING_RECONCILIATION", "REJECTED", "REVERSED"}
\* How long ago a row was created: a day, a week, thirty days, or longer.
Ages == {"day", "week", "month", "old"}
Row == [state : TxStates, amount : Amounts \cup {0}, e2e : E2Es \cup {None}, age : Ages]
NoRow == [state |-> "NONE", amount |-> 0, e2e |-> None, age |-> "day"]

Statuses == {"active", "frozen", "closed"}

Context == [from : Statuses, to : Statuses, twins : BOOLEAN, daily : Nat, monthly : Nat]
NoContext == [from |-> "active", to |-> "active", twins |-> FALSE, daily |-> 0, monthly |-> 0]

Session == [step : {"idle", "begun", "matched", "summed", "fetched", "authorized"}, on : Txs \cup {None},
            row : Row, ctx : Context, missed : BOOLEAN]
Away == [step |-> "idle", on |-> None, row |-> NoRow, ctx |-> NoContext, missed |-> FALSE]

AInit ==
  /\ tx = [t \in Txs |-> NoRow]
  /\ account = [a \in Accounts |-> "active"]
  /\ session = [s \in Sessions |-> Away]
  /\ overlapped = {}

-----------------------------------------------------------------------------

\* The row is inserted, or is one that recovery has in hand.  The unique key
\* makes a second call with it wait.
Begins(s, t, row, from, to) ==
  /\ session[s] = Away
  /\ \A other \in Sessions : session[other].on # t
  /\ \/ tx[t].state = "NONE" /\ row.state = "NONE" /\ row.age = "day" /\ row.amount # 0 /\ row.e2e # None
     \/ tx[t].state = "PENDING_RECONCILIATION" /\ row = tx[t]
  /\ session' = [session EXCEPT ![s] =
       [Away EXCEPT !.step = "begun", !.on = t, !.row = row,
                    !.ctx = [NoContext EXCEPT !.from = account[from], !.to = account[to]]]]
  /\ UNCHANGED <<tx, account, overlapped>>

Volume(rows) == SumFunctionOnSet([t \in Txs |-> tx[t].amount], rows)
Counted(ages) ==
  {t \in Txs : tx[t].state \in {"CONFIRMED", "PENDING_RECONCILIATION"} /\ tx[t].age \in ages}
sumVolumeForOriginator(ages) == Volume(Counted(ages))

\* Any other row of the week, whatever became of it.
countRecentByOriginatorAndE2E(t, e2e) ==
  {u \in Txs \ {t} : tx[u].state # "NONE" /\ tx[u].e2e = e2e /\ tx[u].age \in {"day", "week"}}

\* The context: three reads, one after the other.
Fetches(s, from, to, ctx) ==
  /\ session[s].step = from
  /\ session' = [session EXCEPT ![s].step = to, ![s].ctx = ctx]
  /\ UNCHANGED <<tx, account, overlapped>>

recentMatchingE2E(s) ==
  Fetches(s, "begun", "matched", [session[s].ctx EXCEPT
    !.twins = (countRecentByOriginatorAndE2E(session[s].on, session[s].row.e2e) # {})])

dailyVolumeMinor(s) ==
  Fetches(s, "matched", "summed",
    [session[s].ctx EXCEPT !.daily = sumVolumeForOriginator({"day"})])

monthlyVolumeMinor(s) ==
  Fetches(s, "summed", "fetched",
    [session[s].ctx EXCEPT !.monthly = sumVolumeForOriginator({"day", "week", "month"})])

\* Mutant: rows that were not confirmed are no duplicates.
duplicatesOfNothing(s) == FALSE
duplicates(s) == session[s].ctx.twins

accountStatus(s) == session[s].ctx.from = "active" /\ session[s].ctx.to = "active"

\* Mutant: the payment's own amount is left out.
limitsSoFar(s) ==
  session[s].ctx.daily <= DailyCap /\ session[s].ctx.monthly <= MonthlyCap
\* A payment that recovery has in hand counts itself twice.
limits(s) ==
  LET amount == session[s].row.amount IN
  /\ session[s].ctx.daily + amount <= DailyCap
  /\ session[s].ctx.monthly + amount <= MonthlyCap

\* Whether the pipeline passes: the checks here, and those that answer.
Passes(s, others) == ~duplicates(s) /\ accountStatus(s) /\ limits(s) /\ others

\* A commit is missed by the sessions that have begun to read the context.
Misses(at) ==
  [at EXCEPT !.missed = @ \/ at.step \in {"matched", "summed", "fetched", "authorized"}]

Commits(s, state) ==
  LET t == session[s].on IN
  /\ tx' = [tx EXCEPT ![t] = [session[s].row EXCEPT !.state = state]]
  /\ session' = [c \in Sessions |-> IF c = s THEN Away ELSE Misses(session[c])]
  /\ overlapped' = IF session[s].missed THEN overlapped \cup {t} ELSE overlapped
  /\ UNCHANGED account

\* What is refused is stored as REJECTED.  A payment that recovery has in
\* hand cannot be authorized again: the call throws.
authorize(s, others) ==
  /\ session[s].step = "fetched"
  /\ IF ~Passes(s, others) THEN Commits(s, "REJECTED")
     ELSE /\ session' = [session EXCEPT ![s] =
               IF session[s].row.state = "NONE" THEN [@ EXCEPT !.step = "authorized"] ELSE Away]
          /\ UNCHANGED <<tx, account, overlapped>>

\* Routing and the credit leg: see Payments.
process(s) ==
  /\ session[s].step = "authorized"
  /\ \E state \in {"CONFIRMED", "PENDING_RECONCILIATION", "REJECTED"} : Commits(s, state)

Throws(s) ==
  /\ session[s] # Away
  /\ session' = [session EXCEPT ![s] = Away]
  /\ UNCHANGED <<tx, account, overlapped>>

\* Recovery, and the reversal of a payment of the originator's, which do not
\* wait for a session.  A reversal is not reversed.
MovesOn(t) ==
  /\ \A s \in Sessions : session[s].on # t
  /\ \/ /\ tx[t].state = "PENDING_RECONCILIATION"
        /\ \E state \in {"CONFIRMED", "REJECTED"} : tx' = [tx EXCEPT ![t].state = state]
     \/ tx[t].state = "CONFIRMED" /\ tx[t].e2e # None /\ tx' = [tx EXCEPT ![t].state = "REVERSED"]
  /\ UNCHANGED <<account, session, overlapped>>

\* What the originator has received is sent back: the row of a reversal is
\* the originator's own, with an end-to-end id of its own, and its volume
\* counts, but nobody authorizes it.
initiateReversal(t, amount) ==
  /\ tx[t].state = "NONE"
  /\ \A s \in Sessions : session[s].on # t
  /\ tx' = [tx EXCEPT ![t] = [NoRow EXCEPT !.state = "CONFIRMED", !.amount = amount]]
  /\ session' = [c \in Sessions |-> Misses(session[c])]
  /\ overlapped' = overlapped \cup {t}
  /\ UNCHANGED account

Older(age) == CASE age = "day" -> "week" [] age = "week" -> "month" [] OTHER -> "old"

\* A payment does not take longer than a day.
AgePasses(t) ==
  /\ tx[t].state # "NONE" /\ tx[t].age # "old"
  /\ \A s \in Sessions : session[s] = Away
  /\ tx' = [tx EXCEPT ![t].age = Older(@)]
  /\ UNCHANGED <<account, session, overlapped>>

setStatus(a, status) ==
  /\ account[a] # "closed" /\ account[a] # status
  /\ account' = [account EXCEPT ![a] = status]
  /\ UNCHANGED <<tx, session, overlapped>>

ANext ==
  \/ \E s \in Sessions, t \in Txs, from, to \in Accounts :
       \/ Begins(s, t, tx[t], from, to)
       \/ \E amount \in Amounts, e2e \in E2Es :
            Begins(s, t, [NoRow EXCEPT !.amount = amount, !.e2e = e2e], from, to)
  \/ \E s \in Sessions :
       recentMatchingE2E(s) \/ dailyVolumeMinor(s) \/ monthlyVolumeMinor(s) \/ process(s) \/ Throws(s)
  \/ \E s \in Sessions, others \in BOOLEAN : authorize(s, others)
  \/ \E t \in Txs : MovesOn(t) \/ AgePasses(t)
  \/ \E t \in Txs, amount \in Amounts : initiateReversal(t, amount)
  \/ \E a \in Accounts, status \in Statuses : setStatus(a, status)

-----------------------------------------------------------------------------

ATypeOK ==
  /\ tx \in [Txs -> Row]
  /\ account \in [Accounts -> Statuses]
  /\ session \in [Sessions -> Session]
  /\ overlapped \subseteq Txs

\* The payments of a day and of thirty days stay within their caps, but for
\* those that committed without having seen another one in each of their
\* reads, and for reversals.
CapsHoldButForOverlapped ==
  /\ Volume(Counted({"day"}) \ overlapped) <= DailyCap
  /\ Volume(Counted({"day", "week", "month"}) \ overlapped) <= MonthlyCap

\* Of the payments of a week with one end-to-end id, one may have gone
\* through, but for those that committed without having seen another one.
OneOfEachIdButForOverlapped ==
  \A t, u \in Txs :
    /\ t # u /\ tx[t].e2e = tx[u].e2e /\ tx[t].e2e # None
    /\ tx[t].age \in {"day", "week"} /\ tx[u].age \in {"day", "week"}
    => "REJECTED" \in {tx[t].state, tx[u].state} \/ {t, u} \cap overlapped # {}

=============================================================================
