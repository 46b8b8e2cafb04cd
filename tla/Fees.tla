--------------------------------- MODULE Fees ---------------------------------
(***************************************************************************)
(* Fees (modules/fees): schedules are published for a class of rail and a  *)
(* currency, each of them replacing the one before; the fee of a payment   *)
(* is computed from the one in force.                                      *)
(*                                                                         *)
(* A pair is a class and a currency.  Schedules are numbered in the order  *)
(* in which they are committed; nothing is locked but the rows updated.    *)
(***************************************************************************)
EXTENDS Integers, FiniteSets, FiniteSetsExt, Sequences

CONSTANTS Pairs, Publishers, None,
          MaxSchedules, MaxTime         \* bounds of the instance

VARIABLES
  schedule,     \* rows of fee_schedules
  publisher,    \* publications between their update and their commit
  now,
  overlapped    \* history: pairs with publications that did not see each other

fvars == <<schedule, publisher, now, overlapped>>

Numbers == 1 .. MaxSchedules
Times == 0 .. MaxTime

Schedule == [of : Pairs \cup {None}, active : BOOLEAN, from : Times, to : Times \cup {None}]
Publisher == [of : Pairs \cup {None}, saw : SUBSET Numbers, at : Times]

NoSchedule == [of |-> None, active |-> FALSE, from |-> 0, to |-> None]
Idle == [of |-> None, saw |-> {}, at |-> 0]

FInit ==
  /\ schedule = [n \in Numbers |-> NoSchedule]
  /\ publisher = [c \in Publishers |-> Idle]
  /\ now = 0
  /\ overlapped = {}

ActiveFor(pair) == {n \in Numbers : schedule[n].of = pair /\ schedule[n].active}

Newest(pair) == Max({0} \cup {n \in Numbers : schedule[n].of = pair})

\* Mutant: the schedules in force now are expired, those to come are not.
ToExpireOf(pair) == {n \in ActiveFor(pair) : schedule[n].from <= now}

ToExpire(pair) == ActiveFor(pair)

\* The update is run, over the rows that are committed and active.
expireExistingSchedules(c, pair) ==
  /\ publisher[c] = Idle
  /\ publisher' = [publisher EXCEPT ![c] = [of |-> pair, saw |-> ToExpire(pair), at |-> now]]
  /\ UNCHANGED <<schedule, now, overlapped>>

\* The new schedule, of any date, and the commit.  A row that another has
\* expired meanwhile is skipped, one that it has added is not seen.
insertSchedule(c, n, from) ==
  LET pair == publisher[c].of IN
  /\ pair # None
  /\ schedule[n] = NoSchedule /\ \A m \in 1 .. n - 1 : schedule[m] # NoSchedule
  /\ schedule' = [m \in Numbers |->
       IF m = n THEN [of |-> pair, active |-> TRUE, from |-> from, to |-> None]
       ELSE IF m \in publisher[c].saw /\ schedule[m].active
         THEN [schedule[m] EXCEPT !.active = FALSE, !.to = publisher[c].at]
       ELSE schedule[m]]
  /\ publisher' = [publisher EXCEPT ![c] = Idle]
  /\ overlapped' =
       IF \E d \in Publishers \ {c} : publisher[d].of = pair THEN overlapped \cup {pair}
       ELSE overlapped
  /\ UNCHANGED now

\* A code that is taken, or a lost connection.
Fails(c) ==
  /\ publisher[c] # Idle
  /\ publisher' = [publisher EXCEPT ![c] = Idle]
  /\ UNCHANGED <<schedule, now, overlapped>>

Tick ==
  /\ now < MaxTime
  /\ now' = now + 1
  /\ UNCHANGED <<schedule, publisher, overlapped>>

FNext ==
  \/ \E c \in Publishers, pair \in Pairs : expireExistingSchedules(c, pair)
  \/ \E c \in Publishers, n \in Numbers, from \in Times : insertSchedule(c, n, from)
  \/ \E c \in Publishers : Fails(c)
  \/ Tick

\* The schedule that a payment is charged by, of those in force the one with
\* the latest start.
InForce(pair, asOf) ==
  {n \in ActiveFor(pair) :
     schedule[n].from <= asOf /\ (schedule[n].to # None => schedule[n].to >= asOf)}

findActiveSchedule(pair, asOf) ==
  {n \in InForce(pair, asOf) : \A m \in InForce(pair, asOf) : schedule[m].from <= schedule[n].from}

-----------------------------------------------------------------------------
(* calculateFromSchedule.  max is None when there is no limit; a tier ends *)
(* at to, None for the last, and has a fee or basis points.                *)

applyMinMax(fee, min, max) ==
  LET raised == IF fee < min THEN min ELSE fee IN
  IF max # None /\ raised > max THEN max ELSE raised

Share(amount, bps) == (amount * bps) \div 10000

\* Mutant: an upper end is not part of its tier.
InTierBelow(t, amount) == amount >= t.from /\ (t.to = None \/ amount < t.to)

InTier(t, amount) == amount >= t.from /\ (t.to = None \/ amount <= t.to)

\* The tier of an amount, the first that fits; 0 when none does, and the
\* calculation throws.
TierOf(tiers, amount) ==
  LET fits == {i \in DOMAIN tiers : InTier(tiers[i], amount)}
  IN  IF fits = {} THEN 0 ELSE Min(fits)

RawFee(s, amount) ==
  CASE s.type = "FLAT" -> s.flat
    [] s.type = "PERCENTAGE" -> Share(amount, s.bps)
    [] OTHER -> LET t == s.tiers[TierOf(s.tiers, amount)]
                IN  IF t.fee # None THEN t.fee ELSE Share(amount, t.bps)

Charges(s, amount) == s.type = "TIERED" => TierOf(s.tiers, amount) # 0

calculateFromSchedule(s, amount) == applyMinMax(RawFee(s, amount), s.min, s.max)

-----------------------------------------------------------------------------

FTypeOK ==
  /\ schedule \in [Numbers -> Schedule]
  /\ publisher \in [Publishers -> Publisher]
  /\ now \in Times
  /\ overlapped \subseteq Pairs

\* A payment is charged by the schedule published last, whatever the dates of
\* the earlier ones, and by none before that one starts; publications that
\* overlapped apart.
ChargedByTheNewest ==
  \A pair \in Pairs \ overlapped :
    findActiveSchedule(pair, now) =
      IF Newest(pair) # 0 /\ schedule[Newest(pair)].from <= now THEN {Newest(pair)} ELSE {}

\* "This guarantees no two schedules can be active simultaneously for a given
\* pair."
OneScheduleIsActive == \A pair \in Pairs : Cardinality(ActiveFor(pair)) <= 1

\* Tiers that follow one another without a gap charge every amount, in one way.
Adjoining(tiers) ==
  /\ tiers[1].from = 0 /\ tiers[Len(tiers)].to = None
  /\ \A i \in 1 .. Len(tiers) - 1 :
       tiers[i].to # None /\ tiers[i].from <= tiers[i].to /\ tiers[i + 1].from = tiers[i].to + 1

\* Over schedules and amounts given: a fee is within its limits, an upper one
\* having the last word; adjoining tiers charge every amount and an amount at
\* the end of one is charged by it; what is a share of the amount grows with it.
FeesAreAsScheduled(schedules, amounts) ==
  \A s \in schedules :
    /\ \A a \in amounts : Charges(s, a) =>
         LET fee == calculateFromSchedule(s, a) IN
         /\ s.max # None => fee <= s.max
         /\ fee < s.min => s.max # None /\ s.max < s.min
         /\ s.type = "PERCENTAGE" /\ fee > s.min => fee <= a
    /\ s.type = "TIERED" /\ Adjoining(s.tiers) =>
         \A a \in amounts : Charges(s, a) /\ \A i \in DOMAIN s.tiers :
           s.tiers[i].to = a => TierOf(s.tiers, a) = i
    /\ s.type = "PERCENTAGE" =>
         \A a, b \in amounts :
           a <= b => calculateFromSchedule(s, a) <= calculateFromSchedule(s, b)

=============================================================================
