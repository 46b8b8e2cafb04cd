------------------------------ MODULE HashChain ------------------------------
(***************************************************************************)
(* Hash chains: the journals of an operating date (modules/ledger), the    *)
(* audit events of a day (modules/audit) and the evidence of a dispute     *)
(* (modules/disputes) are each linked by hash, so that a walk over the     *)
(* rows in their order shows whether one was changed.                      *)
(*                                                                         *)
(* A hash stands for the row it was computed from: rows are numbered in    *)
(* the order of their sequence or time, and 0 is GENESIS.  Nothing is      *)
(* locked, and a row is read by others when its transaction commits.       *)
(***************************************************************************)
EXTENDS Naturals, FiniteSets, FiniteSetsExt, Sequences

CONSTANTS Dates, Day, Cases,    \* the chains: of journals, of audit events, of evidence
          Writers, None,
          MaxRows,              \* bound of the instance
          MaxJournals           \* journals of one transaction, a bound

VARIABLES
  row,          \* rows of ledger_journal, audit_events and dispute_evidence
  writer,       \* transactions: the rows they have still to write
  overlapped    \* history: chains of which a row was committed while another
                \* transaction was already bound to the state before it

hvars == <<row, writer, overlapped>>

GENESIS == 0
Numbers == 1 .. MaxRows
Chains == Dates \cup {Day} \cup Cases

Row == [chain : Chains \cup {None}, prev : 0 .. MaxRows, by : Writers \cup {None},
        status : {"absent", "open", "committed", "undone"}]

\* todo: the chains to write to, in order.  last: the row to link to, once
\* read.  at: the number that evidence takes when its transaction begins.
Writer == [todo : UNION {[1 .. n -> Chains] : n \in 0 .. 2 * MaxJournals},
           last : 0 .. MaxRows \cup {None}, at : 0 .. MaxRows]

NoRow == [chain |-> None, prev |-> 0, by |-> None, status |-> "absent"]
Idle == [todo |-> <<>>, last |-> None, at |-> 0]

HInit ==
  /\ row = [n \in Numbers |-> NoRow]
  /\ writer = [w \in Writers |-> Idle]
  /\ overlapped = {}

-----------------------------------------------------------------------------

Own(w) == {n \in Numbers : row[n].by = w /\ row[n].status = "open"}

Taken == {n \in Numbers : row[n] # NoRow} \cup {writer[w].at : w \in Writers}

NextNumber == Max(Taken \cup {0}) + 1

Begins(w, chains, at) ==
  /\ writer[w] = Idle /\ Own(w) = {}
  /\ writer' = [writer EXCEPT ![w] = [todo |-> chains, last |-> None, at |-> at]]
  /\ UNCHANGED <<row, overlapped>>

\* A transaction posts a journal or several, each with an audit event.
postJournal(w, dates) ==
  Begins(w, [i \in 1 .. 2 * Len(dates) |-> IF i % 2 = 1 THEN dates[(i + 1) \div 2] ELSE Day], 0)

recordAudit(w) == Begins(w, <<Day>>, 0)

\* uploaded_at is the time at which the transaction began.
uploadEvidence(w, case) == NextNumber \in Numbers /\ Begins(w, <<case, Day>>, NextNumber)

\* Committed rows and those of the reader.
Visible(w, chain) ==
  {n \in Numbers : row[n].chain = chain /\ (row[n].status = "committed" \/ n \in Own(w))}

\* Mutant: the journal is linked to the last one of any date.
LastOfAnyDate(w, chain) ==
  Max({GENESIS} \cup UNION {Visible(w, d) : d \in IF chain \in Dates THEN Dates ELSE {chain}})

LastOf(w, chain) == Max({GENESIS} \cup Visible(w, chain))

ReadsLast(w) ==
  /\ writer[w].todo # <<>> /\ writer[w].last = None
  /\ writer' = [writer EXCEPT ![w].last = LastOf(w, Head(writer[w].todo))]
  /\ UNCHANGED <<row, overlapped>>

\* Inserting and sealing: what is seen of the row is its hash.
Links(w) ==
  LET n == IF writer[w].at # 0 THEN writer[w].at ELSE NextNumber IN
  /\ writer[w].last # None
  /\ n \in Numbers
  /\ row' = [row EXCEPT ![n] = [chain |-> Head(writer[w].todo), prev |-> writer[w].last,
                                by |-> w, status |-> "open"]]
  /\ writer' = [writer EXCEPT ![w] = [todo |-> Tail(writer[w].todo), last |-> None, at |-> 0]]
  /\ UNCHANGED overlapped

Lost == [NoRow EXCEPT !.status = "undone"]

\* What another transaction has linked to, or will number, whatever commits now.
BoundBy(v) ==
  {row[n].chain : n \in Own(v)}
    \cup (IF writer[v].last # None \/ writer[v].at # 0 THEN {Head(writer[v].todo)} ELSE {})

Commits(w) ==
  /\ writer[w].todo = <<>> /\ Own(w) # {}
  /\ row' = [n \in Numbers |->
       IF n \in Own(w) THEN [row[n] EXCEPT !.status = "committed", !.by = None] ELSE row[n]]
  /\ overlapped' = overlapped \cup
       ({row[n].chain : n \in Own(w)} \cap UNION {BoundBy(v) : v \in Writers \ {w}})
  /\ UNCHANGED writer

\* At any point; the numbers that were taken are lost.
RollsBack(w) ==
  /\ writer[w] # Idle \/ Own(w) # {}
  /\ row' = [n \in Numbers |-> IF n \in Own(w) THEN Lost ELSE row[n]]
  /\ writer' = [writer EXCEPT ![w] = Idle]
  /\ UNCHANGED overlapped

HNext ==
  \E w \in Writers :
    \/ \E n \in 1 .. MaxJournals : \E dates \in [1 .. n -> Dates] : postJournal(w, dates)
    \/ recordAudit(w)
    \/ \E case \in Cases : uploadEvidence(w, case)
    \/ ReadsLast(w) \/ Links(w) \/ Commits(w) \/ RollsBack(w)

-----------------------------------------------------------------------------

HTypeOK ==
  /\ row \in [Numbers -> Row]
  /\ writer \in [Writers -> Writer]
  /\ overlapped \subseteq Chains

Committed(chain) == {n \in Numbers : row[n].chain = chain /\ row[n].status = "committed"}

\* The walk: every row names the one before it.
Verifies(chain) ==
  \A n \in Committed(chain) :
    row[n].prev = Max({GENESIS} \cup {m \in Committed(chain) : m < n})

verifyDayChain(date) == Verifies(date)
verifyDay == Verifies(Day)
verifyChain(case) == Verifies(case)

\* A chain verifies whatever was rolled back and however its transactions and
\* those of other chains were interleaved, unless two that write to it overlap.
ChainsVerifyUnlessOverlapped ==
  /\ \A d \in Dates \ overlapped : verifyDayChain(d)
  /\ Day \notin overlapped => verifyDay
  /\ \A c \in Cases \ overlapped : verifyChain(c)

\* "each operating day has its own chain root so closed days can be verified
\* independently": the walk over a date succeeds.
ClosedDaysVerify == \A d \in Dates : verifyDayChain(d)

=============================================================================
