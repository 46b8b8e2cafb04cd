----------------------------- MODULE FraudRules -----------------------------
(***************************************************************************)
(* The fraud engine (modules/fraud).  Rules, gathered in packs, are run    *)
(* over what is known of a payment; the scores of those that hit add up,   *)
(* by weight, to a verdict.  A rule is changed by two users: one proposes, *)
(* another approves.                                                       *)
(*                                                                         *)
(* Scores and weights are percentages; sums are in hundredths, and are     *)
(* rounded once.  What a rule looks at is abstracted to the numbers it     *)
(* compares; amounts are in minor units.                                   *)
(***************************************************************************)
EXTENDS Naturals, FiniteSets, FiniteSetsExt, Functions

CONSTANTS Users, Calls, None,
          Weights               \* that are proposed for a rule

VARIABLES
  rule,         \* a row of fraud_rules
  call,         \* approvals between their reads and their write
  inForce       \* history: who proposed and who approved what is in force,
                \* and whether the proposal was the one that was tested

rvars == <<rule, call, inForce>>

-----------------------------------------------------------------------------
(* Verdicts.                                                               *)

\* A context.  flag is the highest severity of a peer's flag, max the
\* highest amount of the originator's baseline, 0 if there is none.
Fires(code, c) ==
  CASE code = "R001" -> c.lastHour >= 8
    [] code = "R002" -> c.max > 0 /\ ~c.young /\ c.amount >= 5 * c.max
    [] code = "R003" -> c.first /\ c.amount >= 500000
    [] code = "R004" -> c.lastDay >= 8 /\ c.amount < 500000
    [] code = "R005" -> c.lastHour >= 3 /\ c.beneficiaries >= 3
    [] code = "R006" -> c.simSwapped /\ c.lastHour >= 3
    [] code = "R007" -> c.agent /\ (c.hour >= 23 \/ c.hour < 5)
    [] code = "R008" -> FALSE           \* no device is ever described
    [] code = "R009" -> ~c.young /\ c.officeHours >= 80 /\ c.hour \in 2 .. 3
    [] code = "R010" -> FALSE           \* asks for no observation, and for some
    [] code = "R011" -> c.flag > 0
    [] code = "R012" -> c.sanctioned
    [] code = "R013" -> c.watched
    [] code = "R014" -> c.mule
    [] code = "R015" -> /\ c.age <= 30
                        /\ IF c.max = 0 THEN c.amount >= 1000000
                                        ELSE c.amount >= (c.max * 9) \div 5

ScoreOf(code, c) ==
  CASE code = "R011" -> Min({100, c.flag})
    [] code = "R001" -> 80 [] code \in {"R002", "R015"} -> 75 [] code = "R003" -> 60
    [] code \in {"R004", "R006"} -> 85 [] code \in {"R005", "R014"} -> 90
    [] code = "R007" -> 50 [] code = "R008" -> 95 [] code = "R009" -> 40
    [] code \in {"R010", "R013"} -> 70 [] code = "R012" -> 100

DEFAULT_RULE_WEIGHTS ==
  [R001 |-> 70, R002 |-> 60, R003 |-> 50, R004 |-> 80, R005 |-> 90, R006 |-> 80, R007 |-> 40,
   R008 |-> 90, R009 |-> 30, R010 |-> 50, R011 |-> 85, R012 |-> 100, R013 |-> 60, R014 |-> 90,
   R015 |-> 60]
RULE_CODES == DOMAIN DEFAULT_RULE_WEIGHTS

PACK_DEFINITIONS ==
  [UNIVERSAL |-> RULE_CODES \ {"R005", "R006", "R007"}, GHANA |-> {"R005", "R006", "R007"}]
PACK_CODES == DOMAIN PACK_DEFINITIONS

\* The packs of a participant, each with thresholds of its own.
listActiveRulesForParticipant(packs) == UNION {PACK_DEFINITIONS[p] : p \in packs}

Strictest(packs, thresholds, default) ==
  IF packs = {} THEN default ELSE Min({thresholds[p] : p \in packs})

\* What each rule adds if it hits.
Points(weights, c) == [code \in RULE_CODES |-> ScoreOf(code, c) * weights[code]]

\* Mutant: the average of what has hit.
CompositeAverage(codes, weights, c) ==
  LET hits == {code \in codes : Fires(code, c)} IN
  IF hits = {} THEN 0
  ELSE SumFunctionOnSet(Points(weights, c), hits)
         \div (100 * Cardinality(hits))

Composite(codes, weights, c) ==
  LET hits == {code \in codes : Fires(code, c)}
      sum == SumFunctionOnSet(Points(weights, c), hits) IN
  Min({100, (sum + 50) \div 100})

Severity == [PASS |-> 0, REVIEW |-> 1, BLOCK |-> 2]

computeComposite(packs, block, review, weights, c) ==
  LET composite == Composite(listActiveRulesForParticipant(packs), weights, c) IN
  CASE composite >= Strictest(packs, block, 80) -> "BLOCK"
    [] /\ composite < Strictest(packs, block, 80)
       /\ composite >= Strictest(packs, review, 50) -> "REVIEW"
    [] OTHER -> "PASS"

-----------------------------------------------------------------------------
(* Changing a rule.                                                        *)

Proposal == [weight : Weights, by : Users]
Rule == [weight : Weights \cup {50}, pending : Proposal \cup {None}]
Call == [step : {"idle", "tested", "read"}, checker : Users \cup {None},
         tested : Proposal \cup {None}, read : Proposal \cup {None}]
Idle == [step |-> "idle", checker |-> None, tested |-> None, read |-> None]
Nobody == [maker |-> None, checker |-> None, asTested |-> TRUE]

RInit ==
  /\ rule = [weight |-> 50, pending |-> None]
  /\ call = [c \in Calls |-> Idle]
  /\ inForce = Nobody

\* A proposal takes the place of one that is pending.
proposeChange(user, weight) ==
  /\ rule' = [rule EXCEPT !.pending = [weight |-> weight, by |-> user]]
  /\ UNCHANGED <<call, inForce>>

\* Mutant: everyone may approve.
MayApproveAny(user) == rule.pending # None
MayApprove(user) == rule.pending # None /\ rule.pending.by # user

approveChange(c, user) ==
  /\ call[c] = Idle
  /\ MayApprove(user)
  /\ call' = [call EXCEPT ![c] = [Idle EXCEPT !.step = "tested", !.checker = user,
                                              !.tested = rule.pending]]
  /\ UNCHANGED <<rule, inForce>>

\* What is applied is read again, without a lock.
ReadsPending(c) ==
  /\ call[c].step = "tested"
  /\ call' = [call EXCEPT ![c].step = "read", ![c].read = rule.pending]
  /\ UNCHANGED <<rule, inForce>>

\* If another approval was faster there is nothing to apply, and what is
\* pending by now is cleared all the same.
approveRuleChange(c) ==
  LET read == call[c].read IN
  /\ call[c].step = "read"
  /\ rule' = [weight |-> IF read = None THEN rule.weight ELSE read.weight, pending |-> None]
  /\ inForce' = IF read = None THEN inForce
                ELSE [maker |-> read.by, checker |-> call[c].checker,
                      asTested |-> read = call[c].tested]
  /\ call' = [call EXCEPT ![c] = Idle]

Fails(c) ==
  /\ call[c] # Idle
  /\ call' = [call EXCEPT ![c] = Idle]
  /\ UNCHANGED <<rule, inForce>>

RNext ==
  \/ \E user \in Users, weight \in Weights : proposeChange(user, weight)
  \/ \E c \in Calls, user \in Users : approveChange(c, user)
  \/ \E c \in Calls : ReadsPending(c) \/ approveRuleChange(c) \/ Fails(c)

-----------------------------------------------------------------------------

RTypeOK ==
  /\ rule \in Rule
  /\ call \in [Calls -> Call]
  /\ inForce \in [maker : Users \cup {None}, checker : Users \cup {None}, asTested : BOOLEAN]

\* What is in force was approved by another user than the one who proposed
\* it, unless the proposal was replaced between the test and the second read.
CheckedByAnotherUnlessReplaced ==
  inForce.asTested /\ inForce # Nobody => inForce.maker # inForce.checker

\* The message of approveChange: the proposer cannot approve his own change.
ProposerDoesNotApprove == inForce # Nobody => inForce.maker # inForce.checker

\* One thing more that speaks against a payment.
Worse(c) ==
  {[c EXCEPT !.lastHour = n] : n \in {3, 8}} \cup {[c EXCEPT !.beneficiaries = 3]}
  \cup {[c EXCEPT !.lastDay = 8]} \cup {[c EXCEPT !.flag = n] : n \in {70, 100}}
  \cup {[c EXCEPT !.sanctioned = TRUE], [c EXCEPT !.mule = TRUE], [c EXCEPT !.watched = TRUE],
        [c EXCEPT !.first = TRUE], [c EXCEPT !.simSwapped = TRUE], [c EXCEPT !.agent = TRUE]}

\* Verdicts do not get milder with one thing more against a payment, nor with
\* one pack more; and with the thresholds as delivered, one confirmed signal
\* (sanctions, a mule ring, a flag of full severity) blocks.
VerdictsGetNoMilder(contexts, thresholds) ==
  \A c \in contexts, packs \in SUBSET PACK_CODES, block \in thresholds :
    LET review == [p \in PACK_CODES |-> block[p] - 30]
        Of(ps, d) == Severity[computeComposite(ps, block, review, DEFAULT_RULE_WEIGHTS, d)] IN
    /\ \A d \in Worse(c) :
         d.lastHour >= c.lastHour /\ d.flag >= c.flag => Of(packs, d) >= Of(packs, c)
    /\ \A p \in PACK_CODES : Of(packs \cup {p}, c) >= Of(packs, c) \/ packs = {}
    /\ "UNIVERSAL" \in packs /\ (c.sanctioned \/ c.mule \/ c.flag = 100)
         /\ block["UNIVERSAL"] <= 80 => Of(packs, c) = 2

=============================================================================
