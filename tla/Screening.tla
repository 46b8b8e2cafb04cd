------------------------------ MODULE Screening ------------------------------
(***************************************************************************)
(* Sanctions screening (modules/sanctions, and the check of                *)
(* modules/authorization that calls it): both parties of a payment are     *)
(* compared with the watchlists, at once and on the payment's connection.  *)
(* A process keeps what it found for a minute.                             *)
(*                                                                         *)
(* Whether a name resembles another one is given (Strong): a weak          *)
(* resemblance is reported but decides nothing.                            *)
(***************************************************************************)
EXTENDS Naturals, FiniteSets

CONSTANTS Payments, Processes, None,
          Subjects,             \* names and accounts, as they are compared
          Entries,              \* of the watchlists
          Direct, Strong,       \* <<subject, entry>>: same account or card, and names
          Blocking,             \* entries of SANCTIONS and BLACKLIST lists
          CACHE_TTL, MaxTime    \* the latter a bound of the instance

VARIABLES
  now,
  entry,        \* watchlist_entries, with the time of their last change
  cache,        \* what each process remembers
  payment,      \* what became of each payment, and the process at it
  screen,       \* screenings of the two parties of each payment
  screening     \* rows of watchlist_screenings, by payment and party

svars == <<now, entry, cache, payment, screen, screening>>

Times == 0 .. MaxTime
Parties == {"ORIGINATOR", "BENEFICIARY"}
Entry == [state : {"absent", "listed", "removed"}, at : Times]
Cached == [matches : SUBSET Entries, until : 0 .. MaxTime + CACHE_TTL, late : BOOLEAN]
Payment == [state : {"new", "checking", "passed", "refused"}, by : Processes \cup {None}]
Screen == [step : {"idle", "keys", "names", "found", "answered"}, of : Subjects \cup {None},
           matches : SUBSET Entries,
           at : Times,          \* when it was answered
           late : BOOLEAN]      \* the lists changed while they were read
NoScreen == [step |-> "idle", of |-> None, matches |-> {}, at |-> 0, late |-> FALSE]

SInit ==
  /\ now = 0
  /\ entry = [e \in Entries |-> [state |-> "absent", at |-> 0]]
  /\ cache = [p \in Processes |-> << >>]
  /\ payment = [t \in Payments |-> [state |-> "new", by |-> None]]
  /\ screen = [t \in Payments |-> [party \in Parties |-> NoScreen]]
  /\ screening = {}

-----------------------------------------------------------------------------
(* The lists.                                                              *)

Changes(e, state) ==
  /\ entry' = [entry EXCEPT ![e] = [state |-> state, at |-> now]]
  /\ screen' = [t \in Payments |-> [party \in Parties |->
       IF screen[t][party].step \in {"names", "found"}
         THEN [screen[t][party] EXCEPT !.late = TRUE] ELSE screen[t][party]]]
  /\ UNCHANGED <<now, cache, payment, screening>>

upsertEntry(e) == entry[e].state = "absent" /\ Changes(e, "listed")
removeEntry(e) == entry[e].state = "listed" /\ Changes(e, "removed")

-----------------------------------------------------------------------------
(* A payment.                                                              *)

Remembered(p) == DOMAIN cache[p]

\* Mutant: what is remembered is remembered for good.
IsFreshForever(p, k) == TRUE
IsFresh(p, k) == now <= cache[p][k].until

\* What a screening starts with: the answer, if the process remembers it.
Asks(p, k) ==
  IF k \in Remembered(p) /\ IsFresh(p, k)
    THEN [NoScreen EXCEPT !.step = "answered", !.of = k, !.at = now,
                          !.matches = cache[p][k].matches, !.late = cache[p][k].late]
    ELSE [NoScreen EXCEPT !.step = "keys", !.of = k]

\* Both parties are looked up in the memory before either reads the lists.
sanctions(t, p, originator, beneficiary) ==
  /\ payment[t].state = "new"
  /\ payment' = [payment EXCEPT ![t] = [state |-> "checking", by |-> p]]
  /\ screen' = [screen EXCEPT ![t] =
       [party \in Parties |-> Asks(p, IF party = "ORIGINATOR" THEN originator ELSE beneficiary)]]
  /\ UNCHANGED <<now, entry, cache, screening>>

Listed(k, relation) == {e \in Entries : entry[e].state = "listed" /\ <<k, e>> \in relation}

\* Accounts and cards, and then names, each as committed by then.
Reads(t, party) ==
  LET s == screen[t][party] IN
  /\ s.step \in {"keys", "names"}
  /\ screen' = [screen EXCEPT ![t][party] =
       IF s.step = "keys" THEN [s EXCEPT !.step = "names", !.matches = Listed(s.of, Direct)]
                          ELSE [s EXCEPT !.step = "found", !.matches = @ \cup Listed(s.of, Strong)]]
  /\ UNCHANGED <<now, entry, cache, payment, screening>>

\* The minute runs from here.  The row is the payment's, the memory is not.
Remembers(t, party) ==
  LET s == screen[t][party]
      p == payment[t].by IN
  /\ s.step = "found"
  /\ cache' = [cache EXCEPT ![p] = [k \in Remembered(p) \cup {s.of} |->
       IF k = s.of THEN [matches |-> s.matches, until |-> now + CACHE_TTL, late |-> s.late]
                   ELSE cache[p][k]]]
  /\ screening' = screening \cup {<<t, party>>}
  /\ screen' = [screen EXCEPT ![t][party].step = "answered", ![t][party].at = now]
  /\ UNCHANGED <<now, entry, payment>>

IsHit(s) == s.matches \cap Blocking # {}

Concludes(t) ==
  /\ payment[t].state = "checking"
  /\ \A party \in Parties : screen[t][party].step = "answered"
  /\ payment' = [payment EXCEPT ![t].state =
       IF \E party \in Parties : IsHit(screen[t][party]) THEN "refused" ELSE "passed"]
  /\ screen' = [screen EXCEPT ![t] = [party \in Parties |-> NoScreen]]
  /\ UNCHANGED <<now, entry, cache, screening>>

\* The payment fails, here or later, and takes its rows with it; it may be
\* sent again.
RollsBack(t) ==
  /\ payment[t].state = "checking"
  /\ payment' = [payment EXCEPT ![t] = [state |-> "new", by |-> None]]
  /\ screen' = [screen EXCEPT ![t] = [party \in Parties |-> NoScreen]]
  /\ screening' = {row \in screening : row[1] # t}
  /\ UNCHANGED <<now, entry, cache>>

Restarts(p) ==
  /\ \A t \in Payments : payment[t] # [state |-> "checking", by |-> p]
  /\ cache' = [cache EXCEPT ![p] = << >>]
  /\ UNCHANGED <<now, entry, payment, screen, screening>>

Tick ==
  /\ now < MaxTime
  /\ now' = now + 1
  /\ screen' = [t \in Payments |-> [party \in Parties |->
       IF screen[t][party].step \in {"names", "found"}
         THEN [screen[t][party] EXCEPT !.late = TRUE] ELSE screen[t][party]]]
  /\ UNCHANGED <<entry, cache, payment, screening>>

SNext ==
  \/ \E e \in Entries : upsertEntry(e) \/ removeEntry(e)
  \/ \E t \in Payments, p \in Processes, k, m \in Subjects : sanctions(t, p, k, m)
  \/ \E t \in Payments, party \in Parties : Reads(t, party) \/ Remembers(t, party)
  \/ \E t \in Payments : Concludes(t) \/ RollsBack(t)
  \/ \E p \in Processes : Restarts(p)
  \/ Tick

-----------------------------------------------------------------------------

STypeOK ==
  /\ now \in Times
  /\ entry \in [Entries -> Entry]
  /\ \A p \in Processes : \A k \in Remembered(p) :
       k \in Subjects /\ cache[p][k] \in Cached
  /\ payment \in [Payments -> Payment]
  /\ screen \in [Payments -> [Parties -> Screen]]
  /\ screening \subseteq Payments \X Parties

\* The answer of a screening is one of the last minute: it has every entry
\* that was listed for longer and none that was removed before, unless the
\* lists changed, or time passed, while they were read.
AnswersAreOfTheLastMinute ==
  \A t \in Payments, party \in Parties :
    LET s == screen[t][party] IN
    s.step = "answered" /\ ~s.late =>
      \A e \in Entries :
        <<s.of, e>> \in Direct \cup Strong /\ entry[e].at + CACHE_TTL < s.at =>
          (e \in s.matches <=> entry[e].state = "listed")

\* The comment on the check: a row of watchlist_screenings per party, so
\* that the trail of what was screened is complete.
EveryScreeningIsRecorded ==
  \A t \in Payments, party \in Parties :
    payment[t].state \in {"passed", "refused"} => <<t, party>> \in screening

=============================================================================
