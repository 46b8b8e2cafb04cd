------------------------------ MODULE Disputes ------------------------------
(***************************************************************************)
(* Dispute cases (modules/disputes), next to the fast-track reversals that *)
(* one of the automatic rules reads.                                       *)
(*                                                                         *)
(* An accepted case takes its amount from the beneficiary's account into   *)
(* the rail's reserve; settling the case pays the reserve out.  Evidence,  *)
(* a decision or an automatic rule, an operator's kill and the settlement  *)
(* move the case in between.                                               *)
(*                                                                         *)
(* Every handler is one transaction that reads the case without a lock;    *)
(* most then call transition(), which reads the case again, tests that     *)
(* copy and writes the state by the row's key.  A worker is such a         *)
(* transaction: Starts, transition and the write with the commit are steps *)
(* of their own, and other workers come in between.                        *)
(***************************************************************************)
EXTENDS FastTrack, Sequences, TLC

CONSTANTS Cases, Workers, Users,
          Sides,        \* who hands in evidence
          Reasons,      \* the reason codes in use
          Amount,       \* disputed amount of a case
          FilingLimit   \* FILING_RATE_LIMIT.maxPerCustomer, of the one customer here

ASSUME NoCase == None \notin Cases \cup Users
ASSUME AmountAssumption == Amount \in Nat \ {0}
ASSUME LimitAssumption == FilingLimit \in Nat

VARIABLES
  kase,         \* rows of dispute_cases
  filings,      \* the cases in the order they were filed
  evidence,     \* sides that have rows in dispute_evidence
  decision,     \* rows of dispute_decisions
  reserve,      \* history: journals into and out of the reserve, by case
  worker,       \* transactions on a case
  overwritten,  \* history: cases written over a state that was not read
  confirmedBy   \* history: who confirmed the settlement of a case

dvars == <<kase, filings, evidence, decision, reserve, worker, overwritten, confirmedBy>>
vars == <<fvars, dvars>>

CASE_STATES == {"FILED", "ACCEPTED", "EVIDENCE_PENDING", "ADJUDICATING", "AUTO_RESOLVED",
                "UPHELD", "PARTIAL_UPHELD", "DENIED", "REJECTED", "SETTLED"}

TERMINAL_STATES == {"REJECTED", "SETTLED"}

\* ACCEPTED is written over by the transaction that writes it.
TRANSITIONS == [FILED            |-> {"ACCEPTED", "REJECTED", "DENIED"},
                ACCEPTED         |-> {"EVIDENCE_PENDING", "AUTO_RESOLVED", "DENIED"},
                EVIDENCE_PENDING |-> {"ADJUDICATING", "DENIED"},
                ADJUDICATING     |-> {"UPHELD", "DENIED", "PARTIAL_UPHELD"},
                AUTO_RESOLVED    |-> {"SETTLED"},
                UPHELD           |-> {"SETTLED"},
                PARTIAL_UPHELD   |-> {"SETTLED"},
                DENIED           |-> {"SETTLED"},
                REJECTED         |-> {},
                SETTLED          |-> {}]

canTransition(from, to) == to \in TRANSITIONS[from]

OUTCOMES == {"UPHOLD", "REJECT", "PARTIAL"}

Case == [state    : CASE_STATES \cup {"ABSENT"},
         of       : Payments \cup {None},
         reason   : Reasons \cup {"NONE"},
         outcome  : OUTCOMES \cup {"NONE"},
         share    : 0..Amount,                \* outcome_amount_minor
         held     : BOOLEAN,                  \* reserve_journal_id
         released : BOOLEAN]                  \* release_journal_id

\* The columns of the copy that a handler goes on to use.
Copy == [state : CASE_STATES \cup {"ABSENT"}, outcome : OUTCOMES \cup {"NONE"}, share : 0..Amount]

copyOf(row) == [state |-> row.state, outcome |-> row.outcome, share |-> row.share]

Decision == [type : {"NONE", "AUTO", "MANUAL"}, by : Users \cup {None}]

Reserve == [holds : Nat, releases : Nat, toOriginator : Nat, toBeneficiary : Nat]

Operations == {"file", "processFiled", "upload", "expireWindowAndAdvance", "decideManually",
               "operatorKill", "settleAutoResolved", "confirmSettlement"}

Worker == [op      : Operations \cup {"none"},
           at      : {"idle", "read", "same", "checked", "settled"},
           on      : Cases \cup {None},
           by      : Users \cup {None},
           side    : Sides \cup {"NONE"},
           outcome : OUTCOMES \cup {"NONE"},
           share   : 0..Amount,
           ok      : BOOLEAN,                 \* what the validation said
           seen    : Copy]

Absent == [state |-> "ABSENT", of |-> None, reason |-> "NONE", outcome |-> "NONE",
           share |-> 0, held |-> FALSE, released |-> FALSE]

Resting == [op |-> "none", at |-> "idle", on |-> None, by |-> None, side |-> "NONE",
            outcome |-> "NONE", share |-> 0, ok |-> FALSE, seen |-> copyOf(Absent)]

DInit ==
  /\ kase = [c \in Cases |-> Absent]
  /\ filings = <<>>
  /\ evidence = [c \in Cases |-> {}]
  /\ decision = [c \in Cases |-> [type |-> "NONE", by |-> None]]
  /\ reserve = [c \in Cases |->
                 [holds |-> 0, releases |-> 0, toOriginator |-> 0, toBeneficiary |-> 0]]
  /\ worker = [w \in Workers |-> Resting]
  /\ overwritten = {}
  /\ confirmedBy = [c \in Cases |-> None]

-----------------------------------------------------------------------------
(* Reading the case.                                                       *)

\* The same payment disputed for the same reason, as the newest filing says:
\* findRecentDuplicateFiling returns one row, this one if it is the newest.
NewestFiling(c) ==
  LET same == {i \in 1..Len(filings) : /\ kase[filings[i]].of = kase[c].of
                                       /\ kase[filings[i]].reason = kase[c].reason}
  IN filings[CHOOSE i \in same : \A j \in same : j <= i]

\* The second look, before money moves into the reserve.  The payment may
\* also have grown too old in the meantime (Requests).
validate(c) ==
  \/ NewestFiling(c) = c
  \/ kase[NewestFiling(c)].state \notin {"ACCEPTED", "EVIDENCE_PENDING", "ADJUDICATING"}

validateManualDecision(outcome, share) ==
  IF outcome = "PARTIAL" THEN share \in 1..(Amount - 1) ELSE share = 0

\* Mutant: the decider may confirm.
AnyoneConfirms(c, user) == ~kase[c].released /\ decision[c].type # "NONE"

\* A case without a decision is not confirmed by anybody; an AUTO decision has
\* no user, and a case with one that was killed is for anybody.
MayConfirm(c, user) ==
  /\ ~kase[c].released
  /\ decision[c].type # "NONE"
  /\ decision[c].by # user

\* Mutant: a kill does not ask whether the case has ended.
StartsInAnyState(op) ==
  CASE op = "processFiled"           -> {"FILED"}
    [] op = "upload"                 -> {"EVIDENCE_PENDING", "ADJUDICATING"}
    [] op = "expireWindowAndAdvance" -> {"EVIDENCE_PENDING"}
    [] op = "decideManually"         -> {"ADJUDICATING"}
    [] op = "operatorKill"           -> CASE_STATES
    [] op = "settleAutoResolved"     -> {"AUTO_RESOLVED"}
    [] op = "confirmSettlement"      -> {"UPHELD", "PARTIAL_UPHELD", "DENIED"}

StartsIn(op) ==
  CASE op = "processFiled"           -> {"FILED"}
    [] op = "upload"                 -> {"EVIDENCE_PENDING", "ADJUDICATING"}
    [] op = "expireWindowAndAdvance" -> {"EVIDENCE_PENDING"}
    [] op = "decideManually"         -> {"ADJUDICATING"}
    [] op = "operatorKill"           -> CASE_STATES \ TERMINAL_STATES
    [] op = "settleAutoResolved"     -> {"AUTO_RESOLVED"}
    [] op = "confirmSettlement"      -> {"UPHELD", "PARTIAL_UPHELD", "DENIED"}

Request(op, c) == [Resting EXCEPT !.op = op, !.at = "read", !.on = c, !.seen = copyOf(kase[c])]

\* What an operation asks for, once it has read the case.
Requests(op, c) ==
  CASE op = "processFiled" -> {[Request(op, c) EXCEPT !.ok = ok] : ok \in {FALSE, validate(c)}}
    [] op = "upload" -> {[Request(op, c) EXCEPT !.side = side] : side \in Sides}
    [] op = "decideManually" ->
         {[Request(op, c) EXCEPT !.by = d[1], !.outcome = d[2], !.share = d[3]] :
            d \in {x \in Users \X OUTCOMES \X (0..Amount) : validateManualDecision(x[2], x[3])}}
    [] op = "confirmSettlement" ->
         {[Request(op, c) EXCEPT !.by = user] : user \in {u \in Users : MayConfirm(c, u)}}
    [] op \in {"expireWindowAndAdvance", "operatorKill", "settleAutoResolved"} -> {Request(op, c)}

UnchangedRows == UNCHANGED <<kase, filings, evidence, decision, reserve, overwritten,
                             confirmedBy, fvars>>

\* The response window may have passed at any time.
Starts(w, op, c) ==
  /\ worker[w].at = "idle"
  /\ kase[c].state \in StartsIn(op)
  /\ \E request \in Requests(op, c) : worker' = [worker EXCEPT ![w] = request]
  /\ UnchangedRows

\* The customer's filings, the ones of other payments among them, are counted
\* before, on a connection of its own.
StartsFiling(w, c) ==
  /\ worker[w].at = "idle"
  /\ kase[c].state = "ABSENT" /\ \A v \in Workers : worker[v].on # c
  /\ \E ok \in {FALSE, Len(filings) < FilingLimit} :
       worker' = [worker EXCEPT ![w] = [Request("file", c) EXCEPT !.ok = ok]]
  /\ UnchangedRows

-----------------------------------------------------------------------------
(* transition(): the second read, and its test.                            *)

stateForOutcome(outcome) ==
  CASE outcome = "UPHOLD" -> "UPHELD" [] outcome = "REJECT" -> "DENIED"
    [] outcome = "PARTIAL" -> "PARTIAL_UPHELD"

Target(w) ==
  CASE worker[w].op \in {"upload", "expireWindowAndAdvance"} -> "ADJUDICATING"
    [] worker[w].op = "decideManually" -> stateForOutcome(worker[w].outcome)
    [] worker[w].op \in {"settleAutoResolved", "confirmSettlement"} -> "SETTLED"

\* Evidence of both sides ends the wait; the count sees what is committed.
EvidenceComplete(w) == {"FILER", "RESPONDER"} \subseteq evidence[worker[w].on] \cup {worker[w].side}

NeedsTransition(w) ==
  worker[w].op = "upload" => worker[w].seen.state = "EVIDENCE_PENDING" /\ EvidenceComplete(w)

\* A case that is there already is left alone, and the transaction goes on.
transition(w) ==
  LET current == kase[worker[w].on].state IN
  /\ worker[w].at = "read"
  /\ worker[w].op \notin {"file", "processFiled", "operatorKill"}
  /\ \/ /\ ~NeedsTransition(w) \/ current = Target(w)
        /\ worker' = [worker EXCEPT ![w].at = "same"]
     \/ /\ NeedsTransition(w) /\ canTransition(current, Target(w))
        /\ worker' = [worker EXCEPT ![w].at = "checked"]
     \/ /\ NeedsTransition(w) /\ current # Target(w) /\ ~canTransition(current, Target(w))
        /\ worker' = [worker EXCEPT ![w] = Resting]
  /\ UnchangedRows

-----------------------------------------------------------------------------
(* The write and the commit.                                               *)

\* The row is written by its key, whatever state it has come to.
Notes(w) ==
  LET c == worker[w].on IN
  overwritten' = IF kase[c].state = worker[w].seen.state THEN overwritten ELSE overwritten \cup {c}

Leaves(w) == worker' = [worker EXCEPT ![w] = Resting]

Inserts(w, state) ==
  LET c == worker[w].on IN
  /\ \E p \in Payments, reason \in Reasons :
       kase' = [kase EXCEPT ![c] = [Absent EXCEPT !.state = state, !.of = p, !.reason = reason]]
  /\ filings' = Append(filings, c)

\* A filing over the limit or beyond the window is kept, as REJECTED.
RateLimits(w) == ~worker[w].ok /\ Inserts(w, "REJECTED")
WindowExpired(w) == worker[w].ok /\ Inserts(w, "REJECTED")
Files(w) == worker[w].ok /\ Inserts(w, "FILED")

file(w) ==
  /\ worker[w].op = "file"
  /\ RateLimits(w) \/ WindowExpired(w) \/ Files(w)
  /\ Leaves(w)
  /\ UNCHANGED <<evidence, decision, reserve, overwritten, confirmedBy, fvars>>

RejectsFiling(w) ==
  /\ worker[w].op = "processFiled" /\ ~worker[w].ok
  /\ kase' = [kase EXCEPT ![worker[w].on].state = "REJECTED"]
  /\ Notes(w) /\ Leaves(w)
  /\ UNCHANGED <<filings, evidence, decision, reserve, confirmedBy, fvars>>

\* Mutant: a freeze without an answer counts.
FindingsUnanswered(c) ==
  IF /\ kase[c].reason = "FRAUD"
     /\ \E f \in FastTracks : fastTrack[f].of = kase[c].of /\ fastTrack[f].state # "rejected"
    THEN {"UPHOLD"} ELSE {"NONE"}

\* Mutant: the rule answers with a state for an outcome.
FindingsAsStates(c) == IF kase[c].reason = "WRONG_BENEFICIARY" THEN {"DENIED", "NONE"} ELSE {"NONE"}

\* The rules: only the one of fraud reads rows that are modelled, a frozen or
\* completed fast-track reversal of the payment.
rFraud(c) ==
  IF \E f \in FastTracks : /\ fastTrack[f].of = kase[c].of
                           /\ fastTrack[f].state \in {"completed", "frozen"}
    THEN {"UPHOLD"} ELSE {"NONE"}

rDuplicate == {"UPHOLD", "NONE"}
rTechnical == {"UPHOLD", "NONE"}
rWrongBeneficiary == {"REJECT", "NONE"}

\* What the rule of the case's reason finds, if there is one.
Findings(c) ==
  CASE kase[c].reason = "FRAUD" -> rFraud(c)
    [] kase[c].reason = "DUPLICATE" -> rDuplicate
    [] kase[c].reason = "TECHNICAL" -> rTechnical
    [] kase[c].reason = "WRONG_BENEFICIARY" -> rWrongBeneficiary
    [] OTHER -> {"NONE"}

\* Mutant: the reserve is taken whether or not the row has it.
HoldsAgain(c) == reserve' = [reserve EXCEPT ![c].holds = @ + 1]

\* The row is this transaction's own by now, and shows an earlier hold.
holdAmount(c) == reserve' = IF kase[c].held THEN reserve ELSE [reserve EXCEPT ![c].holds = @ + 1]

Accepted(c) == [kase[c] EXCEPT !.state = "ACCEPTED", !.held = TRUE]

AwaitsEvidence(c) ==
  /\ kase' = [kase EXCEPT ![c] = [Accepted(c) EXCEPT !.state = "EVIDENCE_PENDING"]]
  /\ UNCHANGED decision

AutoResolves(c, found) ==
  /\ kase' = [kase EXCEPT ![c] = [Accepted(c) EXCEPT !.state = "AUTO_RESOLVED",
                                                    !.outcome = found, !.share = 0]]
  /\ decision' = IF decision[c].type # "NONE" THEN decision
                 ELSE [decision EXCEPT ![c] = [type |-> "AUTO", by |-> None]]

processFiled(w) ==
  LET c == worker[w].on IN
  /\ worker[w].op = "processFiled" /\ worker[w].ok
  /\ holdAmount(c)
  /\ \E found \in Findings(c) :
       IF found = "NONE" THEN AwaitsEvidence(c) ELSE AutoResolves(c, found)
  /\ Notes(w) /\ Leaves(w)
  /\ UNCHANGED <<filings, evidence, confirmedBy, fvars>>

WritesIfChecked(w, row) ==
  IF worker[w].at = "checked"
    THEN kase' = [kase EXCEPT ![worker[w].on] = row] /\ Notes(w)
    ELSE UNCHANGED <<kase, overwritten>>

Transitioned(w) == worker[w].at \in {"same", "checked"}

upload(w) ==
  LET c == worker[w].on IN
  /\ worker[w].op = "upload" /\ Transitioned(w)
  /\ evidence' = [evidence EXCEPT ![c] = @ \cup {worker[w].side}]
  /\ WritesIfChecked(w, [kase[c] EXCEPT !.state = "ADJUDICATING"])
  /\ Leaves(w)
  /\ UNCHANGED <<filings, decision, reserve, confirmedBy, fvars>>

expireWindowAndAdvance(w) ==
  /\ worker[w].op = "expireWindowAndAdvance" /\ Transitioned(w)
  /\ WritesIfChecked(w, [kase[worker[w].on] EXCEPT !.state = "ADJUDICATING"])
  /\ Leaves(w)
  /\ UNCHANGED <<filings, evidence, decision, reserve, confirmedBy, fvars>>

\* The decision goes in first, one to a case.
decideManually(w) ==
  LET c == worker[w].on IN
  /\ worker[w].op = "decideManually" /\ Transitioned(w)
  /\ decision[c].type = "NONE"
  /\ decision' = [decision EXCEPT ![c] = [type |-> "MANUAL", by |-> worker[w].by]]
  /\ WritesIfChecked(w, [kase[c] EXCEPT !.state = Target(w), !.outcome = worker[w].outcome,
                                        !.share = worker[w].share])
  /\ Leaves(w)
  /\ UNCHANGED <<filings, evidence, reserve, confirmedBy, fvars>>

\* No decision, and nothing out of the reserve.
operatorKill(w) ==
  /\ worker[w].op = "operatorKill"
  /\ kase' = [kase EXCEPT ![worker[w].on].state = "DENIED"]
  /\ Notes(w) /\ Leaves(w)
  /\ UNCHANGED <<filings, evidence, decision, reserve, confirmedBy, fvars>>

\* The outcome that is paid: an automatic one is in the row, a manual one is
\* read off the state.
Outcome(w) ==
  CASE worker[w].op = "settleAutoResolved"            -> worker[w].seen.outcome
    [] worker[w].seen.state = "UPHELD"                -> "UPHOLD"
    [] worker[w].seen.state = "DENIED"                -> "REJECT"
    [] worker[w].seen.state = "PARTIAL_UPHELD"        -> "PARTIAL"

ShareOf(outcome, share) ==
  CASE outcome = "UPHOLD" -> Amount [] outcome = "REJECT" -> 0 [] outcome = "PARTIAL" -> share

\* Mutant: a partial outcome pays the originator in full.
PaysInFull(w) ==
  LET upheld == IF Outcome(w) = "REJECT" THEN 0 ELSE Amount
  IN reserve' = [reserve EXCEPT ![worker[w].on].releases = @ + 1,
                                ![worker[w].on].toOriginator = @ + upheld,
                                ![worker[w].on].toBeneficiary = @ + Amount - upheld]

postReleaseJournal(w) ==
  LET upheld == ShareOf(Outcome(w), worker[w].seen.share)
  IN reserve' = [reserve EXCEPT ![worker[w].on].releases = @ + 1,
                                ![worker[w].on].toOriginator = @ + upheld,
                                ![worker[w].on].toBeneficiary = @ + Amount - upheld]

\* The journal is posted before the transition, and stays when the case is
\* found SETTLED by another.
Settles(w) ==
  LET c == worker[w].on IN
  /\ Transitioned(w)
  /\ reserve[c].releases < Cardinality(Workers)     \* bound of the instance
  /\ postReleaseJournal(w)
  /\ kase' = IF worker[w].at = "same" THEN kase
             ELSE [kase EXCEPT ![c].state = "SETTLED", ![c].released = TRUE]
  /\ Notes(w)
  /\ IF Outcome(w) = "REJECT" THEN Leaves(w) ELSE worker' = [worker EXCEPT ![w].at = "settled"]
  /\ UNCHANGED <<filings, evidence, decision, fvars>>

settleAutoResolved(w) ==
  /\ worker[w].op = "settleAutoResolved" /\ Settles(w)
  /\ confirmedBy' = [confirmedBy EXCEPT ![worker[w].on] = None]

confirmSettlement(w) ==
  /\ worker[w].op = "confirmSettlement" /\ Settles(w)
  /\ confirmedBy' = [confirmedBy EXCEPT ![worker[w].on] = worker[w].by]

\* After the commit, in the reversal's own transaction; a refusal is logged.
InitiatesReversal(w) ==
  LET p == kase[worker[w].on].of IN
  /\ worker[w].at = "settled"
  /\ \/ MayReverse(p) /\ \E ok \in BOOLEAN : Reverses(p, ok)
     \/ ~MayReverse(p) /\ UNCHANGED payment
  /\ Leaves(w)
  /\ UNCHANGED <<kase, filings, evidence, decision, reserve, overwritten, confirmedBy,
                 fastTrack, handler, frozen>>

\* An error or a crash.
WorkerFails(w) ==
  /\ worker[w].at # "idle"
  /\ Leaves(w)
  /\ UnchangedRows

-----------------------------------------------------------------------------

Writes(w) ==
  \/ file(w)
  \/ RejectsFiling(w)
  \/ processFiled(w)
  \/ upload(w)
  \/ expireWindowAndAdvance(w)
  \/ decideManually(w)
  \/ operatorKill(w)
  \/ settleAutoResolved(w)
  \/ confirmSettlement(w)
  \/ InitiatesReversal(w)

Dispute(w) ==
  \/ \E c \in Cases : StartsFiling(w, c) \/ \E op \in Operations \ {"file"} : Starts(w, op, c)
  \/ transition(w)
  \/ Writes(w)
  \/ WorkerFails(w)

Init == FInit /\ DInit

Next ==
  \/ FNext /\ UNCHANGED dvars
  \/ \E w \in Workers : Dispute(w)

Spec == Init /\ [][Next]_vars

-----------------------------------------------------------------------------

TypeOK ==
  /\ FTypeOK
  /\ kase \in [Cases -> Case]
  /\ filings \in Seq(Cases)
  /\ evidence \in [Cases -> SUBSET Sides]
  /\ decision \in [Cases -> Decision]
  /\ reserve \in [Cases -> Reserve]
  /\ worker \in [Workers -> Worker]
  /\ overwritten \subseteq Cases
  /\ confirmedBy \in [Cases -> Users \cup {None}]

\* However handlers overlap, a case takes its amount into the reserve once,
\* and nothing leaves the reserve for a case that has not.
HeldOnceBeforeRelease ==
  \A c \in Cases :
    /\ reserve[c].holds <= 1
    /\ reserve[c].releases > 0 => reserve[c].holds = 1

\* The reserve of a case is paid out when the case is SETTLED and not before,
\* once and whole, and the originator is paid what the outcome gives it, or
\* nothing if the case was killed; as long as no handler acts on a state that
\* has gone.
ReleasedOnceUnlessOverwritten ==
  \A c \in Cases \ overwritten :
    /\ reserve[c].releases = IF kase[c].state = "SETTLED" THEN 1 ELSE 0
    /\ reserve[c].toOriginator + reserve[c].toBeneficiary = reserve[c].releases * Amount
    /\ reserve[c].toOriginator > 0 =>
         reserve[c].toOriginator = ShareOf(kase[c].outcome, kase[c].share)

\* Who decided a case does not confirm its settlement, however the two
\* handlers overlap.
CheckerIsNotMaker ==
  \A c \in Cases : confirmedBy[c] # None => decision[c].by # confirmedBy[c]

\* What goes through the reserve goes through it once, and at the word of two
\* users when one of them decided.
HeldAndReleasedOnce ==
  TypeOK /\ HeldOnceBeforeRelease /\ ReleasedOnceUnlessOverwritten /\ CheckerIsNotMaker

\* An automatic verdict for the filer of a fraud case stands on money that
\* the receiving bank has frozen.
FraudUpheldWasFrozen ==
  \A c \in Cases :
    kase[c].reason = "FRAUD" /\ decision[c].type = "AUTO" => kase[c].of \in frozen

\* A case moves along the table, and what has ended stays, unless the state
\* that a handler read has gone.
MovesLegally ==
  [][\A c \in Cases \ overwritten' :
       kase[c].state # "ABSENT" /\ kase'[c].state # kase[c].state =>
         \/ canTransition(kase[c].state, kase'[c].state)
         \/ \E s \in TRANSITIONS[kase[c].state] : canTransition(s, kase'[c].state)
         \/ kase'[c].state = "DENIED" /\ kase[c].state \notin TERMINAL_STATES]_vars

\* The comment of the validation: the same payment, disputed for the same
\* reason while the first case is open, is a duplicate.
IdenticalCaseIsRefused ==
  \A c, d \in Cases :
    /\ c # d
    /\ kase[c].of = kase[d].of /\ kase[c].reason = kase[d].reason
    /\ kase[c].state \in {"EVIDENCE_PENDING", "ADJUDICATING"}
    => kase[d].state \notin {"EVIDENCE_PENDING", "ADJUDICATING"}

\* The comment of the states: the reserve of a DENIED case goes back to the
\* beneficiary through the confirmation, which needs a decision.
DeniedCanBeConfirmed ==
  \A c \in Cases :
    kase[c].state = "DENIED" /\ kase[c].held => decision[c].type # "NONE"

\* For TLC: workers, users and cases are interchangeable.
Symmetry == Permutations(Workers) \cup Permutations(Users) \cup Permutations(Cases)

=============================================================================
