------------------------------ MODULE Onboarding ------------------------------
(***************************************************************************)
(* Participants and their onboarding (modules/participants and             *)
(* participant-onboarding): a participant is created, uploads its KYB      *)
(* documents, which are reviewed, runs the certification suites and is     *)
(* moved from status to status, the last of them for good.                 *)
(*                                                                         *)
(* Every handler reads the participant outside its transaction and does    *)
(* not lock it; its writes are by code, whatever the status has become.    *)
(***************************************************************************)
EXTENDS CryptoKeys

CONSTANTS Calls, KYB_DOC_TYPES,
          CERT_SUITES    \* those whose outcome is not the same in every run

VARIABLES
  participant,  \* status of the participants' rows
  kyb,          \* review status of the rows of participant_kyb
  cert,         \* rows of participant_certifications
  call,         \* handlers between their reads and their writes
  overwritten,  \* history: participants whose status was written over one
                \* that the writer had not read
  reviewed,     \* history: those whose documents were all approved at one time
  passed        \* history: those whose suites all passed at one time

ovars == <<participant, kyb, cert, call, overwritten, reviewed, passed>>
vars == <<kvars, ovars>>

Statuses == {"absent", "pending", "kyb", "certifying", "active", "suspended", "terminated"}

ALLOWED_TRANSITIONS ==
  [pending |-> {"kyb", "terminated"}, kyb |-> {"certifying", "terminated"},
   certifying |-> {"active", "terminated"}, active |-> {"suspended", "terminated"},
   suspended |-> {"active", "terminated"}, terminated |-> {}, absent |-> {}]

Handler == [op : {"none", "upload", "cert", "gate", "key", "write"}, on : Codes \cup {None},
            from : Statuses,
            arg : KYB_DOC_TYPES \cup CERT_SUITES \cup Statuses \cup {None},
            out : {"none", "pass", "fail"}]

Idle == [op |-> "none", on |-> None, from |-> "absent", arg |-> None, out |-> "none"]

allKybApproved(p) == \A d \in KYB_DOC_TYPES : kyb[p][d] = "approved"

allCertsPassing(p) == \A s \in CERT_SUITES : cert[p][s] = "pass"

OInit ==
  /\ participant = [p \in Codes |-> "absent"]
  /\ kyb = [p \in Codes |-> [d \in KYB_DOC_TYPES |-> "none"]]
  /\ cert = [p \in Codes |-> [s \in CERT_SUITES |-> "none"]]
  /\ call = [c \in Calls |-> Idle]
  /\ overwritten = {}
  /\ reviewed = {p \in Codes : allKybApproved(p)}
  /\ passed = {p \in Codes : allCertsPassing(p)}

Init == KInit /\ OInit

-----------------------------------------------------------------------------

Takes(c, op, p, from, arg, out) ==
  /\ call[c] = Idle
  /\ call' = [call EXCEPT ![c] = [op |-> op, on |-> p, from |-> from, arg |-> arg, out |-> out]]

Ends(c) == call' = [call EXCEPT ![c] = Idle]

\* A failed statement, or a handler that dies: what it wrote is rolled back.
Fails(c) ==
  /\ call[c] # Idle
  /\ Ends(c)
  /\ UNCHANGED <<kvars, participant, kyb, cert, overwritten, reviewed, passed>>

\* A second create finds the row.
create(p) ==
  /\ participant[p] = "absent"
  /\ participant' = [participant EXCEPT ![p] = "pending"]
  /\ UNCHANGED <<kvars, kyb, cert, call, overwritten, reviewed, passed>>

setStatus(c, status) ==
  LET p == call[c].on IN
  /\ participant' = [participant EXCEPT ![p] = status]
  /\ overwritten' = IF participant[p] = call[c].from THEN overwritten ELSE overwritten \cup {p}

uploadKyb(c, p, d) ==
  /\ participant[p] \notin {"absent", "terminated"}
  /\ Takes(c, "upload", p, participant[p], d, "none")
  /\ UNCHANGED <<kvars, participant, kyb, cert, overwritten, reviewed, passed>>

\* Another upload of a document takes its review back.
upsertKybDoc(c) ==
  LET p == call[c].on IN
  /\ call[c].op = "upload"
  /\ kyb' = [kyb EXCEPT ![p][call[c].arg] = "unreviewed"]
  /\ IF call[c].from = "pending" THEN setStatus(c, "kyb") ELSE UNCHANGED <<participant, overwritten>>
  /\ Ends(c)
  /\ UNCHANGED <<kvars, cert, reviewed, passed>>

\* In whatever status the participant is.
reviewKyb(p, d, status) ==
  /\ kyb[p][d] # "none"
  /\ kyb' = [kyb EXCEPT ![p][d] = status]
  /\ reviewed' = reviewed \cup {q \in Codes : allKybApproved(q)'}
  /\ UNCHANGED <<kvars, participant, cert, call, overwritten, passed>>

\* The credit leg's suite looks for an active key.  The suite of idempotency
\* takes its key from the clock, and fails when two runs share a millisecond.
Outcomes(s, p) ==
  IF s = "IDEMPOTENCY" THEN {"pass", "fail"}
  ELSE {IF listActive(p) = {} THEN "fail" ELSE "pass"}

runCertSuite(c, p, s) ==
  /\ participant[p] # "absent"
  /\ \E out \in Outcomes(s, p) : Takes(c, "cert", p, "absent", s, out)
  /\ UNCHANGED <<kvars, participant, kyb, cert, overwritten, reviewed, passed>>

upsertCertResult(c) ==
  /\ call[c].op = "cert"
  /\ cert' = [cert EXCEPT ![call[c].on][call[c].arg] = call[c].out]
  /\ passed' = passed \cup {q \in Codes : allCertsPassing(q)'}
  /\ Ends(c)
  /\ UNCHANGED <<kvars, participant, kyb, overwritten, reviewed>>

-----------------------------------------------------------------------------
(* transition.                                                             *)

Asks(c, p, to) ==
  /\ to \in ALLOWED_TRANSITIONS[participant[p]]
  /\ Takes(c, "gate", p, participant[p], to, "none")
  /\ UNCHANGED <<kvars, participant, kyb, cert, overwritten, reviewed, passed>>

\* Mutant: a participant is certified without a key.
NeedsKeyNever(c) == call[c].arg = "certifying" /\ call[c].from = "absent"

NeedsKey(c) == call[c].arg = "certifying" /\ listActive(call[c].on) = {}

\* Mutant: the reviews of the documents are not looked at.
PassesUnreviewed(c) ==
  call[c].from = "certifying" /\ call[c].arg = "active" => allCertsPassing(call[c].on)

\* Mutant: the suites are not looked at.
PassesUncertified(c) ==
  call[c].from = "kyb" /\ call[c].arg = "certifying" => allKybApproved(call[c].on)

Passes(c) ==
  LET p == call[c].on IN
  /\ call[c].from = "kyb" /\ call[c].arg = "certifying" => allKybApproved(p)
  /\ call[c].from = "certifying" /\ call[c].arg = "active" => allCertsPassing(p)

\* A participant that does not pass fails, as by any other error.
Gate(c) ==
  /\ call[c].op = "gate"
  /\ Passes(c)
  /\ call' = [call EXCEPT ![c].op = IF NeedsKey(c) THEN "key" ELSE "write"]
  /\ UNCHANGED <<kvars, participant, kyb, cert, overwritten, reviewed, passed>>

\* The key is committed for itself: when the transition fails it stays.
Provisions(c, k) ==
  /\ call[c].op = "key"
  /\ generateForOwner(call[c].on, k)
  /\ call' = [call EXCEPT ![c].op = "write"]
  /\ UNCHANGED <<participant, kyb, cert, overwritten, reviewed, passed>>

Writes(c) ==
  /\ call[c].op = "write"
  /\ setStatus(c, call[c].arg)
  /\ Ends(c)
  /\ UNCHANGED <<kvars, kyb, cert, reviewed, passed>>

Next ==
  \/ KNext /\ UNCHANGED ovars
  \/ \E p \in Codes : create(p)
  \/ \E p \in Codes, d \in KYB_DOC_TYPES, s \in {"approved", "rejected"} : reviewKyb(p, d, s)
  \/ \E c \in Calls, p \in Codes :
       \/ \E d \in KYB_DOC_TYPES : uploadKyb(c, p, d)
       \/ \E s \in CERT_SUITES : runCertSuite(c, p, s)
       \/ \E to \in Statuses : Asks(c, p, to)
  \/ \E c \in Calls : upsertKybDoc(c) \/ upsertCertResult(c) \/ Gate(c) \/ Writes(c) \/ Fails(c)
  \/ \E c \in Calls, k \in Kids : Provisions(c, k)

-----------------------------------------------------------------------------

OTypeOK ==
  /\ participant \in [Codes -> Statuses]
  /\ kyb \in [Codes -> [KYB_DOC_TYPES -> {"none", "unreviewed", "approved", "rejected"}]]
  /\ cert \in [Codes -> [CERT_SUITES -> {"none", "pass", "fail"}]]
  /\ call \in [Calls -> Handler]
  /\ overwritten \subseteq Codes
  /\ reviewed \subseteq Codes /\ passed \subseteq Codes

\* A participant that was let into certification has a key of its own, made by
\* the handler that moved it or found by it, whatever failed on the way.
CertifiedHasAKey ==
  \A p \in Codes :
    participant[p] \in {"certifying", "active", "suspended"} =>
      \E k \in Kids : key[k].owner = p

\* A participant is in certification or beyond only if at some time all of its
\* documents were approved, and active or suspended only if at some time all
\* of its suites passed: no overlapping of uploads, reviews, runs and
\* transitions takes it past a review or a certification that it never had.
ActiveWasExamined ==
  \A p \in Codes :
    /\ participant[p] \in {"certifying", "active", "suspended"} => p \in reviewed
    /\ participant[p] \in {"active", "suspended"} => p \in passed

\* terminated: [] in the table of transitions, "an immediate kill-switch":
\* a terminated participant stays it.
TerminatedIsFinal ==
  [][\A p \in Codes : participant[p] = "terminated" => participant'[p] = "terminated"]_vars

=============================================================================
