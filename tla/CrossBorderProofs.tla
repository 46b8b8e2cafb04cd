-------------------------- MODULE CrossBorderProofs --------------------------
(***************************************************************************)
(* Proofs about CrossBorder, for any number of transfers, quotes and ticks *)
(* and for all bounds.                                                     *)
(*                                                                         *)
(* The invariant has one part per place where somebody acts on what it has *)
(* read before: a tick on its copies (TicksInv), the orchestrator on the   *)
(* quote it holds (HoldsInv), and the first commit on a transfer of which  *)
(* nothing is recorded yet (FreshInv).  RowOK is what those copies then    *)
(* leave true of a row, BackedInv what they leave true of a quote.         *)
(*                                                                         *)
(* Steps come in three kinds: those at home leave the foreign tables alone *)
(* (HomeStep), those abroad leave the quotes alone (TickStep and the two   *)
(* of a single row), and coordinateOnClient commits to both.               *)
(***************************************************************************)
EXTENDS CrossBorder, FiniteSetTheorems, TLAPS

\* What a tick holds of a transfer.
GoodCopy(row, t) ==
  /\ row.state \in InFlight
  /\ row.foreignTx <= Len(rail[t])
  /\ row.attempts <= inconclusive[t]

GoodTick(k) ==
  /\ \A t \in DOMAIN tick[k].rows : GoodCopy(tick[k].rows[t], t)
  /\ tick[k].pc # "idle" =>
       /\ tick[k].on \in DOMAIN tick[k].rows
       /\ tick[k].about \in DOMAIN rail[tick[k].on]
       /\ tick[k].learned <= Len(rail[tick[k].on])

TicksInv == \A k \in Ticks : GoodTick(k)

RowsInv == \A t \in Transfers : xb[t].foreignTx <= Len(rail[t])

Untouched(t) ==
  /\ tx[t] = "ABSENT"
  /\ xb[t] = NoRow
  /\ \A k \in Ticks : t \notin DOMAIN tick[k].rows

\* Until the first commit nothing is recorded of a transfer, and no tick has
\* picked it.
FreshInv == \A t \in Transfers : orch[t].pc # "done" => Untouched(t)

HeldBy(q, t) == orch[t].pc = "consumed" /\ orch[t].on = q

\* The row lock of a quote is the open transaction that consumes it.
HoldsInv ==
  /\ \A t \in Transfers : orch[t].pc \in {"read", "consumed"} => orch[t].on \in Quotes
  /\ \A t \in Transfers, q \in Quotes : holder[q] = t <=> HeldBy(q, t)

\* What is held can be consumed, and what backs a transfer cannot.
BackedInv ==
  \A q \in Quotes \ overwritten :
    /\ holder[q] # None => quote[q].state \in Usable
    /\ \A t \in Transfers : xb[t].quote = q => quote[q].state \notin Usable
    /\ \A t, u \in Transfers : xb[t].quote = q /\ xb[u].quote = q => t = u

QuotesInv == HoldsInv /\ BackedInv

Copies == UNION {[picked -> XbRow] : picked \in SUBSET Transfers}

Tick == [pc      : {"idle", "asked", "bumped"},
         rows    : Copies,
         on      : Transfers \cup {None},
         about   : Nat,
         learned : Nat]

LEMMA CopyTypes ==
  /\ \A c \in Copies : DOMAIN c \subseteq Transfers /\ c \in [DOMAIN c -> XbRow]
  /\ \A S \in SUBSET Transfers : \A c : c \in [S -> XbRow] => c \in Copies
<1>1. ASSUME NEW c \in Copies
      PROVE  DOMAIN c \subseteq Transfers /\ c \in [DOMAIN c -> XbRow]
  <2>1. PICK S \in SUBSET Transfers : c \in [S -> XbRow]
    BY DEF Copies
  <2>2. DOMAIN c = S
    BY <2>1
  <2> QED
    BY <2>1, <2>2
<1>2. ASSUME NEW S \in SUBSET Transfers, NEW c, c \in [S -> XbRow]
      PROVE  c \in Copies
  BY <1>2 DEF Copies
<1> QED
  BY <1>1, <1>2

LEMMA TickTypesAre ==
  \A f : AreTicks(f) <=> f \in [Ticks -> Tick]
<1>1. ASSUME NEW k, NEW picked \in SUBSET Transfers, k \in TickWith(picked)
      PROVE  k \in Tick
  <2>1. k.rows \in Copies
    BY <1>1, CopyTypes DEF TickWith
  <2> QED
    BY <1>1, <2>1 DEF TickWith, Tick
<1>2. ASSUME NEW k \in Tick
      PROVE  \E picked \in SUBSET Transfers : k \in TickWith(picked)
  <2>1. PICK picked \in SUBSET Transfers : k.rows \in [picked -> XbRow]
    BY DEF Tick, Copies
  <2>2. k \in TickWith(picked)
    BY <2>1 DEF Tick, TickWith
  <2> QED
    BY <2>2
<1>3. ASSUME NEW f, AreTicks(f) PROVE f \in [Ticks -> Tick]
  BY <1>1, <1>3 DEF AreTicks
<1>4. ASSUME NEW f \in [Ticks -> Tick] PROVE AreTicks(f)
  BY <1>2 DEF AreTicks
<1> QED
  BY <1>3, <1>4

LEMMA RowTypes ==
  /\ NoRow \in XbRow
  /\ Unread \in Quote
  /\ Resting(<<>>) \in Tick
<1>1. NoRow \in XbRow /\ Unread \in Quote
  BY NoneAssumption DEF NoRow, XbRow, Unread, Quote, QUOTE_STATES, InFlight
<1>2. <<>> \in [{} -> XbRow]
  OBVIOUS
<1>3. <<>> \in Copies
  BY <1>2, CopyTypes
<1> QED
  BY <1>1, <1>3 DEF Resting, Tick

LEMMA HomeTypes ==
  ASSUME TypeOK,
         NEW q, NEW t,
         \/ q \in Quotes /\ QuoteStep(q)
         \/ SweepSelects \/ SweepUpdates
         \/ t \in Transfers /\ q \in Quotes /\ ReadsQuote(t, q)
         \/ t \in Transfers /\ (ProcessDeclined(t) \/ QuoteRefused(t))
  PROVE  TypeOK'
<1> USE RowTypes, BoundsAssumption, TickTypesAre DEF TypeOK, quoting, foreign
<1>1. CASE q \in Quotes /\ ExpiryPasses(q)
  BY <1>1 DEF ExpiryPasses, Quote
<1>2. CASE q \in Quotes /\ LockExpires(q)
  BY <1>2 DEF LockExpires, SetQuote, Quote, QUOTE_STATES
<1>3. CASE q \in Quotes /\ LockReads(q)
  BY <1>3 DEF LockReads
<1>4. CASE q \in Quotes /\ LockWrites(q)
  BY <1>4 DEF LockWrites, SetQuote, Quote, QUOTE_STATES, Notes
<1>5. CASE SweepSelects
  BY <1>5 DEF SweepSelects
<1>6. CASE SweepUpdates
  BY <1>6 DEF SweepUpdates, Quote, QUOTE_STATES
<1>7. CASE t \in Transfers /\ ProcessDeclined(t)
  BY <1>7 DEF ProcessDeclined, Finalize, Leaves, Orch, STATES
<1>8. CASE t \in Transfers /\ q \in Quotes /\ ReadsQuote(t, q)
  BY <1>8 DEF ReadsQuote, Orch
<1>9. CASE t \in Transfers /\ QuoteRefused(t)
  BY <1>9 DEF QuoteRefused, Finalize, Leaves, Orch, STATES
<1> QED
  BY <1>1, <1>2, <1>3, <1>4, <1>5, <1>6, <1>7, <1>8, <1>9 DEF QuoteStep

LEMMA ProcessTypes ==
  ASSUME TypeOK, QuotesInv,
         NEW t \in Transfers,
         \/ QuoteSpoiled(t) \/ verifyAndConsume(t) \/ TravelRuleRefuses(t)
         \/ coordinateOnClient(t) \/ ProcessFails(t)
  PROVE  TypeOK'
<1> USE RowTypes, BoundsAssumption, TickTypesAre DEF TypeOK, quoting, foreign
<1>0. orch[t].pc \in {"read", "consumed"}
  BY DEF QuoteSpoiled, verifyAndConsume, TravelRuleRefuses, coordinateOnClient,
         CommitConsumed, ProcessFails
<1>q. orch[t].on \in Quotes
  BY <1>0 DEF QuotesInv, HoldsInv
<1>1. CASE QuoteSpoiled(t)
  <2>1. PICK verdict \in QUOTE_STATES :
          quote' = [quote EXCEPT ![orch[t].on].state = verdict,
                                 ![orch[t].on].by = quote[orch[t].on].by]
    BY <1>1 DEF QuoteSpoiled, SetQuote, QUOTE_STATES
  <2>2. quote' \in [Quotes -> Quote]
    BY <2>1, <1>q DEF Quote
  <2> QED
    BY <1>1, <2>2 DEF QuoteSpoiled, Finalize, Leaves, Orch, STATES
<1>2. CASE verifyAndConsume(t)
  BY <1>2, <1>q DEF verifyAndConsume, Notes, Orch
<1>3. CASE TravelRuleRefuses(t)
  BY <1>3, <1>q DEF TravelRuleRefuses, CommitConsumed, Quote, QUOTE_STATES, Finalize, Leaves, Orch, STATES
<1>4. CASE coordinateOnClient(t)
  <2>1. quote' \in [Quotes -> Quote] /\ holder' \in [Quotes -> Transfers \cup {None}]
    BY <1>4, <1>q DEF coordinateOnClient, CommitConsumed, Quote, QUOTE_STATES
  <2>2. xb' \in [Transfers -> XbRow]
    BY <1>4, <1>q DEF coordinateOnClient, NoRow, XbRow, InFlight
  <2> QED
    BY <1>4, <2>1, <2>2 DEF coordinateOnClient, CommitConsumed, Leaves, Orch, STATES
<1>5. CASE ProcessFails(t)
  BY <1>5, <1>q DEF ProcessFails, Orch
<1> QED
  BY <1>1, <1>2, <1>3, <1>4, <1>5

LEMMA RowUpdates ==
  ASSUME NEW row \in XbRow, NEW n \in Nat
  PROVE  /\ [row EXCEPT !.state = "REJECTED", !.compensations = @ + 1] \in XbRow
         /\ [row EXCEPT !.state = "FAILED", !.attempts = n + 1, !.due = TRUE] \in XbRow
         /\ [row EXCEPT !.attempts = @ + 1, !.due = FALSE] \in XbRow
<1> USE DEF XbRow
<1>1. row.compensations + 1 \in Nat /\ row.attempts + 1 \in Nat /\ n + 1 \in Nat
  OBVIOUS
<1>2. [row EXCEPT !.state = "REJECTED", !.compensations = @ + 1] \in XbRow
  BY <1>1
<1>3. [row EXCEPT !.state = "FAILED", !.attempts = n + 1, !.due = TRUE] \in XbRow
  BY <1>1
<1>4. [row EXCEPT !.attempts = @ + 1, !.due = FALSE] \in XbRow
  BY <1>1
<1> QED
  BY <1>2, <1>3, <1>4

LEMMA WithoutTypes ==
  ASSUME NEW k \in Tick, NEW t
  PROVE  Resting(Without(k.rows, t)) \in Tick
  BY CopyTypes DEF Tick, Resting, Without

LEMMA TickTypes ==
  ASSUME TypeOK, TicksInv,
         NEW k \in Ticks, NEW t \in Transfers,
         \/ PickBatch(k) \/ Instruct(k, t) \/ AskStatus(k, t)
         \/ HandleAccepted(k) \/ HandleRejected(k) \/ HandleExhausted(k)
         \/ HandleTimeout(k) \/ HandlePending(k) \/ SetPending(k)
         \/ HandleUnknown(k) \/ TickDies(k)
  PROVE  TypeOK'
<1> USE RowTypes, BoundsAssumption, TickTypesAre DEF TypeOK, quoting
<1>n. ASSUME NextRow(k), tick[k].pc # "idle" PROVE tick' \in [Ticks -> Tick]
  BY <1>n, WithoutTypes DEF NextRow
<1>o. ASSUME tick[k].pc # "idle" PROVE tick[k].on \in Transfers /\ tick[k].about \in Nat /\ tick[k].learned \in Nat
                                       /\ tick[k].rows[tick[k].on] \in XbRow
                                       /\ xb[tick[k].on] \in XbRow
  BY <1>o, CopyTypes DEF TicksInv, GoodTick, Tick
<1>s. ASSUME SetsState(k), tick[k].pc # "idle" PROVE overwritten' \subseteq Transfers \cup Quotes
  BY <1>s, <1>o DEF SetsState, Notes
<1>1. CASE PickBatch(k)
  <2>1. Resting([u \in DueRows |-> xb[u]]) \in Tick
    <3>1. DueRows \subseteq Transfers
      BY DEF DueRows
    <3>2. [u \in DueRows |-> xb[u]] \in [DueRows -> XbRow]
      BY <3>1
    <3>3. [u \in DueRows |-> xb[u]] \in Copies
      BY <3>1, <3>2, CopyTypes
    <3> QED
      BY <3>3 DEF Tick, Resting
  <2> QED
    BY <1>1, <2>1 DEF PickBatch
<1>2. CASE Instruct(k, t)
  <2>1. rail' \in [Transfers -> Seq(Fates)]
    BY <1>2 DEF Instruct, Fates
  <2>2. Len(rail[t]) + 1 \in Nat
    OBVIOUS
  <2>3. tick' \in [Ticks -> Tick]
    BY <1>2, <2>2, CopyTypes DEF Instruct, Asks, Tick
  <2> QED
    BY <1>2, <2>1, <2>3 DEF Instruct
<1>3. CASE AskStatus(k, t)
  <2>1. tick[k].rows[t].foreignTx \in Nat
    BY <1>3, CopyTypes DEF AskStatus, Tick, XbRow
  <2>3. tick' \in [Ticks -> Tick]
    BY <1>3, <2>1, CopyTypes DEF AskStatus, Asks, Tick
  <2> QED
    BY <1>3, <2>3 DEF AskStatus
<1>4. CASE HandleAccepted(k)
  <2>1. tick[k].pc # "idle"
    BY <1>4 DEF HandleAccepted, Answered
  <2>2. xb' \in [Transfers -> XbRow] /\ tx' \in [Transfers -> STATES \cup {"ABSENT"}]
    BY <1>4, <2>1, <1>o DEF HandleAccepted, XbRow, Parent, STATES
  <2> QED
    BY <1>4, <2>1, <2>2, <1>n, <1>s DEF HandleAccepted
<1>5. CASE HandleRejected(k)
  <2>1. tick[k].pc # "idle"
    BY <1>5 DEF HandleRejected, Answered
  <2>2. tx' \in [Transfers -> STATES \cup {"ABSENT"}]
    BY <1>5 DEF HandleRejected, Parent, STATES
  <2> DEFINE o == tick[k].on
             row == [xb[o] EXCEPT !.state = "REJECTED", !.compensations = @ + 1]
  <2>3. xb' = [xb EXCEPT ![o] = row]
    BY <1>5, <2>1, <1>o DEF HandleRejected
  <2>4. row \in XbRow
    BY <2>1, <1>o, RowUpdates
  <2>5. xb' \in [Transfers -> XbRow]
    BY <2>3, <2>4
  <2> QED
    BY <1>5, <2>1, <2>2, <2>5, <1>n, <1>s DEF HandleRejected
<1>i. ASSUME Inconclusive(k) PROVE tick[k].pc # "idle" /\ inconclusive' \in [Transfers -> Nat]
  BY <1>i, <1>o DEF Inconclusive
<1>6. CASE HandleExhausted(k)
  <2>1. tick[k].pc # "idle" /\ inconclusive' \in [Transfers -> Nat]
    BY <1>6, <1>i DEF HandleExhausted
  <2>2. xb' \in [Transfers -> XbRow]
    <3> DEFINE o == tick[k].on
               row == [xb[o] EXCEPT !.state = "FAILED",
                                    !.attempts = tick[k].rows[o].attempts + 1, !.due = TRUE]
    <3>1. xb' = [xb EXCEPT ![o] = row]
      BY <1>6, <2>1, <1>o DEF HandleExhausted
    <3>2. row \in XbRow
      <4>1. tick[k].rows[o].attempts \in Nat
        BY <2>1, <1>o DEF XbRow
      <4> QED
        BY <4>1, <2>1, <1>o, RowUpdates
    <3> QED
      BY <3>1, <3>2
  <2> QED
    BY <1>6, <2>1, <2>2, <1>n, <1>s DEF HandleExhausted
<1>b. ASSUME NEW l \in Nat, Bump(k, l), tick[k].pc # "idle"
      PROVE  xb' \in [Transfers -> XbRow] /\ tick' \in [Ticks -> Tick]
  <2> DEFINE o == tick[k].on
             row == [xb[o] EXCEPT !.attempts = @ + 1, !.due = FALSE]
  <2>1. xb' = [xb EXCEPT ![o] = row]
    BY <1>b, <1>o DEF Bump
  <2>2. row \in XbRow
    BY <1>b, <1>o, RowUpdates
  <2>3. xb' \in [Transfers -> XbRow]
    BY <2>1, <2>2
  <2>4. tick' \in [Ticks -> Tick]
    BY <1>b, CopyTypes DEF Bump, Tick
  <2> QED
    BY <2>3, <2>4
<1>7. CASE HandleTimeout(k)
  BY <1>7, <1>i, <1>b DEF HandleTimeout
<1>8. CASE HandlePending(k)
  <2>1. tick[k].pc # "idle" /\ inconclusive' \in [Transfers -> Nat]
    BY <1>8, <1>i DEF HandlePending
  <2> QED
    BY <1>8, <2>1, <1>o, <1>b DEF HandlePending
<1>9. CASE SetPending(k)
  <2>1. tick[k].pc # "idle"
    BY <1>9 DEF SetPending
  <2>2. xb' \in [Transfers -> XbRow]
    <3> DEFINE o == tick[k].on
    <3>1. PICK i \in Nat : xb' = [xb EXCEPT ![o].state = "PENDING_FOREIGN", ![o].foreignTx = i]
      <4>1. CASE tick[k].learned = 0
        <5>1. xb' = [xb EXCEPT ![o].state = "PENDING_FOREIGN", ![o].foreignTx = xb[o].foreignTx]
          BY <1>9, <2>1, <1>o, <4>1 DEF SetPending
        <5> QED
          BY <5>1, <2>1, <1>o DEF XbRow
      <4>2. CASE tick[k].learned # 0
        BY <1>9, <2>1, <1>o, <4>2 DEF SetPending
      <4> QED
        BY <4>1, <4>2
    <3> QED
      BY <3>1, <2>1, <1>o DEF XbRow, InFlight
  <2> QED
    BY <1>9, <2>1, <2>2, <1>n, <1>s DEF SetPending
<1>10. CASE HandleUnknown(k)
  <2>1. tick[k].pc # "idle"
    BY <1>10 DEF HandleUnknown
  <2> QED
    BY <1>10, <2>1, <1>n DEF HandleUnknown
<1>11. CASE TickDies(k)
  <2>1. tick' \in [Ticks -> Tick]
    BY <1>11 DEF TickDies
  <2>2. faults' \in Nat /\ UNCHANGED <<tx, quote, holder, orch, lockRead, sweep, xb, rail,
                                       inconclusive, overwritten>>
    BY <1>11 DEF TickDies
  <2> QED
    BY <2>1, <2>2
<1> QED
  BY <1>1, <1>2, <1>3, <1>4, <1>5, <1>6, <1>7, <1>8, <1>9, <1>10, <1>11

LEMMA RailTypes ==
  ASSUME TypeOK, NEW t \in Transfers, NEW i, BackoffElapses(t) \/ RailDecides(t, i)
  PROVE  TypeOK'
<1>1. CASE BackoffElapses(t)
  <2>1. xb' = [xb EXCEPT ![t] = [xb[t] EXCEPT !.due = TRUE]] /\ xb[t] \in XbRow
    BY <1>1, TickTypesAre DEF TypeOK, BackoffElapses
  <2>2. [xb[t] EXCEPT !.due = TRUE] \in XbRow
    BY <2>1 DEF XbRow
  <2>3. xb' \in [Transfers -> XbRow]
    BY <2>1, <2>2, TickTypesAre DEF TypeOK
  <2> QED
    BY <1>1, <2>3, TickTypesAre DEF TypeOK, BackoffElapses, quoting
<1>2. CASE RailDecides(t, i)
  BY <1>2, TickTypesAre DEF TypeOK, RailDecides, quoting, Fates
<1> QED
  BY <1>1, <1>2

TickStep(k) ==
  \/ PickBatch(k) \/ (\E t \in Transfers : Instruct(k, t) \/ AskStatus(k, t))
  \/ HandleAccepted(k) \/ HandleRejected(k) \/ HandleExhausted(k)
  \/ HandleTimeout(k) \/ HandlePending(k) \/ SetPending(k)
  \/ HandleUnknown(k) \/ TickDies(k)

\* What the rail has decided stays, and so do answers.
Grows ==
  \A t \in Transfers :
    /\ Len(rail[t]) <= Len(rail'[t])
    /\ \A i \in DOMAIN rail[t] : rail[t][i] # "OPEN" => rail'[t][i] = rail[t][i]
    /\ inconclusive[t] <= inconclusive'[t]

LEMMA TicksGrow ==
  ASSUME TypeOK, TicksInv, NEW k \in Ticks, TickStep(k)
  PROVE  Grows
<1> USE TickTypesAre DEF TypeOK
<1>1. ASSUME rail' = rail, inconclusive' = inconclusive PROVE Grows
  BY <1>1 DEF Grows
<1>2. ASSUME rail' = rail, Inconclusive(k) PROVE Grows
  <2>1. tick[k].on \in Transfers
    BY <1>2, CopyTypes DEF Inconclusive, TicksInv, GoodTick, Tick
  <2>2. \A t \in Transfers : inconclusive[t] <= inconclusive'[t]
    BY <1>2, <2>1 DEF Inconclusive
  <2> QED
    BY <1>2, <2>2 DEF Grows
<1>3. ASSUME NEW t \in Transfers, Instruct(k, t) PROVE Grows
  <2>1. rail' = [rail EXCEPT ![t] = Append(@, "OPEN")] /\ inconclusive' = inconclusive
    BY <1>3 DEF Instruct
  <2>2. \A u \in Transfers : rail'[u] = IF u = t THEN Append(rail[t], "OPEN") ELSE rail[u]
    BY <2>1
  <2>3. Len(Append(rail[t], "OPEN")) = Len(rail[t]) + 1
        /\ \A i \in DOMAIN rail[t] : Append(rail[t], "OPEN")[i] = rail[t][i]
    OBVIOUS
  <2> QED
    BY <2>1, <2>2, <2>3 DEF Grows
<1> QED
  BY <1>1, <1>2, <1>3 DEF TickStep, PickBatch, AskStatus, HandleAccepted, HandleRejected,
     HandleExhausted, HandleTimeout, HandlePending, SetPending, HandleUnknown, TickDies

LEMMA RailStepGrows ==
  ASSUME TypeOK, NEW t \in Transfers, NEW i, RailDecides(t, i)
  PROVE  Grows
  BY TickTypesAre DEF TypeOK, RailDecides, Grows

LEMMA KeptTick ==
  ASSUME TypeOK, TypeOK', Grows, NEW k \in Ticks, GoodTick(k),
         NEW rows, tick'[k].rows = rows,
         \A t \in DOMAIN rows : t \in DOMAIN tick[k].rows /\ rows[t] = tick[k].rows[t]
  PROVE  (\A t \in DOMAIN tick[k].rows : GoodCopy(tick[k].rows[t], t))'
<1> USE TickTypesAre DEF TypeOK
<1> SUFFICES ASSUME NEW t \in DOMAIN rows PROVE GoodCopy(rows[t], t)'
  OBVIOUS
<1>1. t \in Transfers /\ rows[t] \in XbRow /\ GoodCopy(rows[t], t)
  BY CopyTypes DEF GoodTick, Tick
<1>2. Len(rail[t]) \in Nat /\ Len(rail'[t]) \in Nat /\ rows[t].foreignTx \in Nat /\ rows[t].attempts \in Nat
  BY <1>1 DEF XbRow
<1> QED
  BY <1>1, <1>2 DEF GoodCopy, Grows

LEMMA SameTick ==
  ASSUME TypeOK, TypeOK', Grows, NEW k \in Ticks, GoodTick(k),
         tick'[k].rows = tick[k].rows,
         tick[k].pc # "idle",
         tick'[k].on = tick[k].on, tick'[k].about = tick[k].about,
         tick'[k].learned \in {tick[k].learned, tick[k].about, 0}
  PROVE  GoodTick(k)'
<1> USE TickTypesAre DEF TypeOK
<1>1. (\A t \in DOMAIN tick[k].rows : GoodCopy(tick[k].rows[t], t))'
  BY KeptTick
<1>2. tick[k].on \in Transfers
  BY CopyTypes DEF GoodTick, Tick
<1>3. Len(rail[tick[k].on]) \in Nat /\ Len(rail'[tick[k].on]) \in Nat
      /\ DOMAIN rail[tick[k].on] = 1 .. Len(rail[tick[k].on])
      /\ DOMAIN rail'[tick[k].on] = 1 .. Len(rail'[tick[k].on])
  BY <1>2
<1>4. tick[k].about \in Nat /\ tick[k].learned \in Nat
  BY CopyTypes DEF Tick
<1> QED
  BY <1>1, <1>2, <1>3, <1>4 DEF GoodTick, Grows

LEMMA UnmovedTick ==
  ASSUME TypeOK, TypeOK', Grows, NEW k \in Ticks, GoodTick(k), tick'[k] = tick[k]
  PROVE  GoodTick(k)'
<1>1. CASE tick[k].pc = "idle"
  BY <1>1, KeptTick DEF GoodTick
<1>2. CASE tick[k].pc # "idle"
  BY <1>2, SameTick
<1> QED
  BY <1>1, <1>2

LEMMA RestingTick ==
  ASSUME TypeOK, TypeOK', Grows, NEW k \in Ticks, GoodTick(k), NextRow(k)
  PROVE  GoodTick(k)'
<1>1. tick'[k] = Resting(Without(tick[k].rows, tick[k].on))
  BY TickTypesAre DEF NextRow, TypeOK
<1>2. tick'[k].rows = Without(tick[k].rows, tick[k].on) /\ tick'[k].pc = "idle"
  BY <1>1 DEF Resting
<1>3. \A t \in DOMAIN Without(tick[k].rows, tick[k].on) :
        t \in DOMAIN tick[k].rows /\ Without(tick[k].rows, tick[k].on)[t] = tick[k].rows[t]
  BY DEF Without
<1>4. (\A t \in DOMAIN tick[k].rows : GoodCopy(tick[k].rows[t], t))'
  BY <1>2, <1>3, KeptTick
<1> QED
  BY <1>2, <1>4 DEF GoodTick

LEMMA TicksStep ==
  ASSUME TypeOK, TypeOK', TicksInv, RowsInv, GivesUpAfterFullSchedule,
         NEW k \in Ticks, TickStep(k)
  PROVE  TicksInv'
<1> USE TickTypesAre DEF TypeOK
<1>g. Grows
  BY TicksGrow
<1>k. \A j \in Ticks : GoodTick(j)
  BY DEF TicksInv
<1>o. ASSUME NEW j \in Ticks, j # k PROVE GoodTick(j)'
  <2>1. tick'[j] = tick[j]
    BY <1>o DEF TickStep, PickBatch, Instruct, AskStatus, Asks, HandleAccepted, HandleRejected,
       HandleExhausted, HandleTimeout, HandlePending, Bump, SetPending, HandleUnknown, NextRow, TickDies
  <2> QED
    BY <1>g, <1>k, <2>1, UnmovedTick
<1> SUFFICES GoodTick(k)'
  BY <1>o DEF TicksInv
<1>1. CASE PickBatch(k)
  <2>1. tick'[k] = Resting([t \in DueRows |-> xb[t]]) /\ rail' = rail /\ inconclusive' = inconclusive
    BY <1>1 DEF PickBatch
  <2>2. tick'[k].rows = [t \in DueRows |-> xb[t]] /\ tick'[k].pc = "idle"
    BY <2>1 DEF Resting
  <2>3. \A t \in DueRows : /\ xb[t].state \in InFlight
                            /\ xb[t].foreignTx <= Len(rail'[t])
                            /\ xb[t].attempts <= inconclusive'[t]
    BY <2>1 DEF DueRows, RowsInv, GivesUpAfterFullSchedule
  <2> QED
    BY <2>2, <2>3 DEF GoodTick, GoodCopy
<1>2. ASSUME NEW t \in Transfers, Instruct(k, t) PROVE GoodTick(k)'
  <2>1. tick'[k] = [pc |-> "asked", rows |-> tick[k].rows, on |-> t,
                    about |-> Len(rail[t]) + 1, learned |-> 0]
        /\ rail' = [rail EXCEPT ![t] = Append(@, "OPEN")] /\ t \in DOMAIN tick[k].rows
    BY <1>2 DEF Instruct, Asks
  <2>2. (\A u \in DOMAIN tick[k].rows : GoodCopy(tick[k].rows[u], u))'
    <3>1. tick'[k].rows = tick[k].rows
      BY <2>1
    <3> QED
      BY <3>1, <1>g, <1>k, KeptTick
  <2>3. rail'[t] = Append(rail[t], "OPEN")
    BY <2>1
  <2>4. Len(rail[t]) + 1 \in DOMAIN rail'[t] /\ 0 <= Len(rail'[t])
    BY <2>3
  <2> QED
    BY <2>1, <2>2, <2>4 DEF GoodTick
<1>3. ASSUME NEW t \in Transfers, AskStatus(k, t) PROVE GoodTick(k)'
  <2>1. tick'[k] = [pc |-> "asked", rows |-> tick[k].rows, on |-> t,
                    about |-> tick[k].rows[t].foreignTx, learned |-> 0]
        /\ rail' = rail /\ t \in DOMAIN tick[k].rows /\ tick[k].rows[t].foreignTx # 0
    BY <1>3 DEF AskStatus, Asks, KnowsForeignTx
  <2>2. (\A u \in DOMAIN tick[k].rows : GoodCopy(tick[k].rows[u], u))'
    <3>1. tick'[k].rows = tick[k].rows
      BY <2>1
    <3> QED
      BY <3>1, <1>g, <1>k, KeptTick
  <2>3. tick[k].rows[t].foreignTx \in Nat /\ tick[k].rows[t].foreignTx <= Len(rail[t])
    BY <2>1, <1>k, CopyTypes DEF GoodTick, GoodCopy, Tick, XbRow
  <2>4. tick[k].rows[t].foreignTx \in DOMAIN rail'[t] /\ 0 <= Len(rail'[t])
    BY <2>1, <2>3
  <2> QED
    BY <2>1, <2>2, <2>4 DEF GoodTick
<1>4. CASE HandleAccepted(k) \/ HandleRejected(k) \/ HandleExhausted(k) \/ SetPending(k) \/ HandleUnknown(k)
  <2>1. NextRow(k)
    BY <1>4 DEF HandleAccepted, HandleRejected, HandleExhausted, SetPending, HandleUnknown
  <2> QED
    BY <1>g, <1>k, <2>1, RestingTick
<1>5. CASE HandleTimeout(k) \/ HandlePending(k)
  <2>1. PICK l \in {0, tick[k].about} : tick' = [tick EXCEPT ![k].pc = "bumped", ![k].learned = l]
    BY <1>5 DEF HandleTimeout, HandlePending, Bump
  <2>2. tick[k].pc # "idle"
    BY <1>5 DEF HandleTimeout, HandlePending, Inconclusive
  <2>3. /\ tick'[k].rows = tick[k].rows /\ tick'[k].on = tick[k].on
        /\ tick'[k].about = tick[k].about /\ tick'[k].learned = l
    BY <2>1, CopyTypes DEF Tick
  <2> QED
    BY <1>g, <1>k, <2>2, <2>3, SameTick
<1>6. CASE TickDies(k)
  <2>1. tick'[k] = Resting(<<>>)
    BY <1>6 DEF TickDies
  <2> QED
    BY <2>1 DEF GoodTick, Resting
<1> QED
  BY <1>1, <1>2, <1>3, <1>4, <1>5, <1>6 DEF TickStep

\* What is known of a row and of what the rail has answered about it.
RowOK(t) ==
  /\ xb[t].foreignTx <= Len(rail[t])
  /\ "CONFIRMED" \in {tx[t], xb[t].state} => Got(t, "ACCEPTED")
  /\ xb[t].compensations > 0 => Got(t, "REJECTED")
  /\ xb[t].state = "REJECTED" => xb[t].compensations > 0
  /\ xb[t].attempts <= inconclusive[t]
  /\ xb[t].state = "FAILED" => xb[t].attempts >= MaxAttempts
  /\ t \notin overwritten => xb[t].compensations = IF xb[t].state = "REJECTED" THEN 1 ELSE 0

LEMMA RowsAreOK ==
  ASSUME TypeOK
  PROVE  (\A t \in Transfers : RowOK(t)) <=>
           RowsInv /\ ConfirmedWasAccepted /\ CompensatedWasRefused
           /\ GivesUpAfterFullSchedule /\ DecidedOnceUnlessOverwritten
  BY DEF RowOK, RowsInv, ConfirmedWasAccepted, CompensatedWasRefused,
         GivesUpAfterFullSchedule, DecidedOnceUnlessOverwritten, TypeOK

LEMMA GotStays ==
  ASSUME TypeOK, TypeOK', Grows, NEW t \in Transfers, NEW fate \in {"ACCEPTED", "REJECTED"}, Got(t, fate)
  PROVE  Got(t, fate)'
<1>1. PICK i \in DOMAIN rail[t] : rail[t][i] = fate
  BY DEF Got
<1>2. Len(rail[t]) \in Nat /\ Len(rail'[t]) \in Nat
      /\ DOMAIN rail[t] = 1 .. Len(rail[t]) /\ DOMAIN rail'[t] = 1 .. Len(rail'[t])
  BY TickTypesAre DEF TypeOK
<1>3. i \in DOMAIN rail'[t] /\ rail'[t][i] = fate
  BY <1>1, <1>2 DEF Grows
<1> QED
  BY <1>3 DEF Got

\* What a step may do to a row without making any of that false.
LEMMA RowMoves ==
  ASSUME TypeOK, TypeOK', Grows, overwritten \subseteq overwritten',
         NEW t \in Transfers, RowOK(t),
         tx'[t] = "CONFIRMED" => tx[t] = "CONFIRMED" \/ Got(t, "ACCEPTED"),
         xb'[t].state = "CONFIRMED" => xb[t].state = "CONFIRMED" \/ Got(t, "ACCEPTED"),
         xb'[t].foreignTx <= Len(rail[t]) \/ xb'[t].foreignTx = xb[t].foreignTx,
         xb'[t].attempts <= inconclusive'[t],
         xb'[t].state = "FAILED" => xb'[t].attempts >= MaxAttempts,
         \/ /\ xb'[t].compensations = xb[t].compensations
            /\ xb'[t].state = "REJECTED" => xb[t].state = "REJECTED"
            /\ t \notin overwritten' => (xb[t].state = "REJECTED" => xb'[t].state = "REJECTED")
         \/ /\ xb'[t].compensations = xb[t].compensations + 1
            /\ xb'[t].state = "REJECTED" /\ Got(t, "REJECTED")
            /\ t \notin overwritten' => xb[t].state # "REJECTED"
  PROVE  RowOK(t)'
<1>1. Len(rail[t]) \in Nat /\ Len(rail'[t]) \in Nat /\ Len(rail[t]) <= Len(rail'[t])
      /\ xb[t].compensations \in Nat /\ xb'[t].compensations \in Nat
      /\ xb'[t].foreignTx \in Nat /\ xb[t].foreignTx \in Nat
  BY TickTypesAre DEF TypeOK, XbRow, Grows
<1>2. \A fate \in {"ACCEPTED", "REJECTED"} : Got(t, fate) => Got(t, fate)'
  BY GotStays
<1>3. xb'[t].foreignTx <= Len(rail'[t])
  BY <1>1 DEF RowOK
<1>4. "CONFIRMED" \in {tx'[t], xb'[t].state} => Got(t, "ACCEPTED")
  BY DEF RowOK
<1>5. xb'[t].compensations > 0 => Got(t, "REJECTED")
  BY <1>1 DEF RowOK
<1>6. xb'[t].state = "REJECTED" => xb'[t].compensations > 0
  BY <1>1 DEF RowOK
<1>7. t \notin overwritten' =>
        xb'[t].compensations = IF xb'[t].state = "REJECTED" THEN 1 ELSE 0
  BY <1>1 DEF RowOK
<1> QED
  BY <1>2, <1>3, <1>4, <1>5, <1>6, <1>7 DEF RowOK

LEMMA RowStays ==
  ASSUME TypeOK, TypeOK', Grows, overwritten \subseteq overwritten',
         NEW t \in Transfers, RowOK(t),
         tx'[t] # tx[t] => tx'[t] # "CONFIRMED",
         xb'[t].state = xb[t].state, xb'[t].foreignTx = xb[t].foreignTx,
         xb'[t].attempts = xb[t].attempts, xb'[t].compensations = xb[t].compensations
  PROVE  RowOK(t)'
<1>2. xb'[t].attempts <= inconclusive'[t]
  <2>1. xb[t].attempts \in Nat /\ inconclusive[t] \in Nat /\ inconclusive'[t] \in Nat
    BY TickTypesAre DEF TypeOK, XbRow
  <2> QED
    BY <2>1 DEF RowOK, Grows
<1>3. xb'[t].state = "FAILED" => xb'[t].attempts >= MaxAttempts
  BY DEF RowOK
<1> QED
  BY <1>2, <1>3, RowMoves

\* A step abroad touches the row it handles and that row's parent only.
Touches(t) ==
  /\ UNCHANGED quoting
  /\ overwritten \subseteq overwritten'
  /\ \A u \in Transfers \ {t} : xb'[u] = xb[u] /\ tx'[u] = tx[u]
  /\ xb'[t].quote = xb[t].quote
  /\ tx'[t] # tx[t] => ~isTerminal(tx[t])

LEMMA HandlesRow ==
  ASSUME TypeOK, TicksInv, NEW k \in Ticks, tick[k].pc # "idle"
  PROVE  /\ tick[k].on \in Transfers
         /\ tick[k].on \in DOMAIN tick[k].rows
         /\ tick[k].about \in DOMAIN rail[tick[k].on]
         /\ tick[k].about <= Len(rail[tick[k].on])
         /\ tick[k].learned <= Len(rail[tick[k].on])
         /\ tick[k].rows[tick[k].on].state \in InFlight
         /\ tick[k].rows[tick[k].on].attempts \in Nat
         /\ tick[k].rows[tick[k].on].attempts <= inconclusive[tick[k].on]
<1>1. tick[k].on \in Transfers /\ tick[k].on \in DOMAIN tick[k].rows
  BY CopyTypes, TickTypesAre DEF TicksInv, GoodTick, TypeOK, Tick
<1>2. Len(rail[tick[k].on]) \in Nat /\ DOMAIN rail[tick[k].on] = 1 .. Len(rail[tick[k].on])
  BY <1>1, TickTypesAre DEF TypeOK
<1>3. tick[k].about \in DOMAIN rail[tick[k].on] /\ tick[k].learned <= Len(rail[tick[k].on])
  BY DEF TicksInv, GoodTick
<1>4. tick[k].rows[tick[k].on] \in XbRow
  BY <1>1, CopyTypes, TickTypesAre DEF TypeOK, Tick
<1>5. GoodCopy(tick[k].rows[tick[k].on], tick[k].on)
  BY <1>1 DEF TicksInv, GoodTick
<1> QED
  BY <1>1, <1>2, <1>3, <1>4, <1>5 DEF GoodCopy, XbRow

LEMMA TickTouches ==
  ASSUME TypeOK, TicksInv, NEW k \in Ticks,
         \/ HandleAccepted(k) \/ HandleRejected(k) \/ HandleExhausted(k)
         \/ HandleTimeout(k) \/ HandlePending(k) \/ SetPending(k)
  PROVE  tick[k].pc # "idle" /\ Touches(tick[k].on)
<1> USE TickTypesAre DEF TypeOK, quoting
<1>0. tick[k].pc # "idle"
  BY DEF HandleAccepted, HandleRejected, HandleExhausted, HandleTimeout, HandlePending,
         SetPending, Answered, Inconclusive
<1>t. tick[k].on \in Transfers
  BY <1>0, HandlesRow
<1> DEFINE t == tick[k].on
<1>1. CASE HandleAccepted(k)
  BY <1>0, <1>t, <1>1 DEF HandleAccepted, Parent, SetsState, Notes, Touches, XbRow
<1>2. CASE HandleRejected(k)
  BY <1>0, <1>t, <1>2 DEF HandleRejected, Parent, SetsState, Notes, Touches, XbRow
<1>3. CASE HandleExhausted(k)
  BY <1>0, <1>t, <1>3 DEF HandleExhausted, SetsState, Notes, Touches, XbRow
<1>4. CASE HandleTimeout(k)
  BY <1>0, <1>t, <1>4 DEF HandleTimeout, Bump, Touches, XbRow
<1>5. CASE HandlePending(k)
  BY <1>0, <1>t, <1>5 DEF HandlePending, Bump, Touches, XbRow
<1>6. CASE SetPending(k)
  BY <1>0, <1>t, <1>6 DEF SetPending, SetsState, Notes, Touches, XbRow
<1> QED
  BY <1>0, <1>1, <1>2, <1>3, <1>4, <1>5, <1>6

\* Each outcome of handleOne is such a step, whatever the row has become
\* since it was picked.
LEMMA TickRowsOK ==
  ASSUME TypeOK, TypeOK', TicksInv, \A u \in Transfers : RowOK(u),
         NEW k \in Ticks,
         \/ HandleAccepted(k) \/ HandleRejected(k) \/ HandleExhausted(k)
         \/ HandleTimeout(k) \/ HandlePending(k) \/ SetPending(k)
  PROVE  \A u \in Transfers : RowOK(u)'
<1>t. PICK t : t = tick[k].on
  OBVIOUS
<1> DEFINE row == tick[k].rows[t]
<1>0. tick[k].pc # "idle" /\ Touches(t) /\ Grows
  BY <1>t, TickTouches, TicksGrow DEF TickStep
<1>r. t \in Transfers /\ tick[k].about \in DOMAIN rail[t] /\ tick[k].about <= Len(rail[t])
      /\ tick[k].learned <= Len(rail[t])
      /\ row.state \in InFlight /\ row.attempts \in Nat /\ row.attempts <= inconclusive[t]
  BY <1>t, <1>0, HandlesRow
<1>x. xb[t] \in XbRow /\ xb'[t] \in XbRow /\ xb' \in [Transfers -> XbRow] /\ xb \in [Transfers -> XbRow]
      /\ inconclusive[t] \in Nat /\ inconclusive \in [Transfers -> Nat]
      /\ tx \in [Transfers -> STATES \cup {"ABSENT"}]
  BY <1>r, TickTypesAre DEF TypeOK
<1>y. xb[t].attempts <= inconclusive[t] /\ xb[t].attempts \in Nat
      /\ inconclusive'[t] \in Nat /\ inconclusive[t] \in Nat /\ inconclusive[t] <= inconclusive'[t]
      /\ xb[t].compensations \in Nat
  BY <1>r, <1>x, <1>0, TickTypesAre DEF RowOK, XbRow, Grows, TypeOK
<1>i. ASSUME Inconclusive(k) PROVE inconclusive'[t] = inconclusive[t] + 1
  BY <1>t, <1>i, <1>r, <1>x DEF Inconclusive
<1>u. ASSUME NEW u \in Transfers, u # t PROVE RowOK(u)'
  BY <1>0, <1>u, RowStays DEF Touches
<1>n. ASSUME SetsState(k), t \notin overwritten' PROVE xb[t].state = row.state
  BY <1>t, <1>n DEF SetsState, Notes
<1>p. RowOK(t) /\ overwritten \subseteq overwritten'
  BY <1>0, <1>r DEF Touches
<1> HIDE DEF row
<1> SUFFICES RowOK(t)'
  BY <1>u
<1>1. CASE HandleAccepted(k)
  <2>1. Got(t, "ACCEPTED") /\ SetsState(k)
    BY <1>t, <1>1, <1>r DEF HandleAccepted, Answered, Got
  <2>2. xb'[t] = [xb[t] EXCEPT !.state = "CONFIRMED", !.foreignTx = tick[k].about]
    BY <1>t, <1>1, <1>r, <1>x DEF HandleAccepted
  <2>3. /\ xb'[t].state = "CONFIRMED" /\ xb'[t].foreignTx = tick[k].about
        /\ xb'[t].attempts = xb[t].attempts /\ xb'[t].compensations = xb[t].compensations
    BY <2>2, <1>x DEF XbRow
  <2>4. xb'[t].attempts <= inconclusive'[t]
    BY <2>3, <1>y
  <2> QED
    BY <1>0, <1>r, <1>p, <1>n, <2>1, <2>3, <2>4, RowMoves DEF InFlight
<1>2. CASE HandleRejected(k)
  <2>1. Got(t, "REJECTED") /\ SetsState(k)
    BY <1>t, <1>2, <1>r DEF HandleRejected, Answered, Got
  <2>2. xb'[t] = [xb[t] EXCEPT !.state = "REJECTED", !.compensations = @ + 1]
    BY <1>t, <1>2, <1>r, <1>x DEF HandleRejected
  <2>3. /\ xb'[t].state = "REJECTED" /\ xb'[t].foreignTx = xb[t].foreignTx
        /\ xb'[t].attempts = xb[t].attempts /\ xb'[t].compensations = xb[t].compensations + 1
    BY <2>2, <1>x DEF XbRow
  <2>4. xb'[t].attempts <= inconclusive'[t]
    BY <2>3, <1>y
  <2>5. tx'[t] # tx[t] => tx'[t] = "REJECTED"
    BY <1>t, <1>2, <1>r, <1>x DEF HandleRejected, Parent
  <2>6. t \notin overwritten' => xb[t].state # "REJECTED"
    BY <2>1, <1>n, <1>r DEF InFlight
  <2> QED
    BY <1>0, <1>r, <1>p, <2>1, <2>3, <2>4, <2>5, <2>6, RowMoves
<1>3. CASE HandleExhausted(k)
  <2>1. Inconclusive(k) /\ SetsState(k) /\ row.attempts + 1 >= MaxAttempts /\ tx' = tx
    BY <1>t, <1>3 DEF HandleExhausted, row
  <2>2. xb'[t] = [xb[t] EXCEPT !.state = "FAILED", !.attempts = row.attempts + 1, !.due = TRUE]
    BY <1>t, <1>3, <1>r, <1>x DEF HandleExhausted, row
  <2>3. /\ xb'[t].state = "FAILED" /\ xb'[t].foreignTx = xb[t].foreignTx
        /\ xb'[t].attempts = row.attempts + 1 /\ xb'[t].compensations = xb[t].compensations
    BY <2>2, <1>x DEF XbRow
  <2>4. xb'[t].attempts <= inconclusive'[t]
    BY <2>1, <2>3, <1>i, <1>r, <1>x
  <2>6. t \notin overwritten' => xb[t].state # "REJECTED"
    BY <2>1, <1>n, <1>r DEF InFlight
  <2> QED
    BY <1>0, <1>r, <1>p, <2>1, <2>3, <2>4, <2>6, RowMoves
<1>4. CASE HandleTimeout(k) \/ HandlePending(k)
  <2>1. Inconclusive(k) /\ tx' = tx
    BY <1>4 DEF HandleTimeout, HandlePending
  <2>2. xb'[t] = [xb[t] EXCEPT !.attempts = xb[t].attempts + 1, !.due = FALSE]
    BY <1>t, <1>4, <1>r, <1>x DEF HandleTimeout, HandlePending, Bump
  <2>3. /\ xb'[t].state = xb[t].state /\ xb'[t].foreignTx = xb[t].foreignTx
        /\ xb'[t].attempts = xb[t].attempts + 1 /\ xb'[t].compensations = xb[t].compensations
    BY <2>2, <1>x DEF XbRow
  <2>4. xb'[t].attempts <= inconclusive'[t]
    BY <2>1, <2>3, <1>i, <1>y, <1>x
  <2>5. xb'[t].state = "FAILED" => xb'[t].attempts >= MaxAttempts
    BY <2>3, <1>p, <1>y, BoundsAssumption DEF RowOK
  <2> QED
    BY <1>0, <1>r, <1>p, <2>1, <2>3, <2>4, <2>5, RowMoves
<1>5. CASE SetPending(k)
  <2>1. SetsState(k) /\ tx' = tx
    BY <1>5 DEF SetPending
  <2>2. PICK i : /\ i = xb[t].foreignTx \/ i = tick[k].learned
                 /\ xb'[t] = [xb[t] EXCEPT !.state = "PENDING_FOREIGN", !.foreignTx = i]
    BY <1>t, <1>5, <1>r, <1>x DEF SetPending
  <2>3. /\ xb'[t].state = "PENDING_FOREIGN" /\ xb'[t].foreignTx = i
        /\ xb'[t].attempts = xb[t].attempts /\ xb'[t].compensations = xb[t].compensations
    BY <2>2, <1>x DEF XbRow
  <2>4. xb'[t].attempts <= inconclusive'[t]
    BY <2>3, <1>y
  <2>6. t \notin overwritten' => xb[t].state # "REJECTED"
    BY <2>1, <1>n, <1>r DEF InFlight
  <2> QED
    BY <1>0, <1>r, <1>p, <2>1, <2>2, <2>3, <2>4, <2>6, RowMoves
<1> QED
  BY <1>1, <1>2, <1>3, <1>4, <1>5

\* The other steps abroad change no row but for the time it is due.
LEMMA OtherSteps ==
  ASSUME TypeOK, TicksInv, NEW k, NEW t, NEW i,
         \/ k \in Ticks /\ (PickBatch(k) \/ HandleUnknown(k) \/ TickDies(k))
         \/ k \in Ticks /\ t \in Transfers /\ (Instruct(k, t) \/ AskStatus(k, t))
         \/ t \in Transfers /\ (BackoffElapses(t) \/ RailDecides(t, i))
  PROVE  /\ Grows
         /\ UNCHANGED quoting
         /\ tx' = tx
         /\ overwritten \subseteq overwritten'
         /\ \A u \in Transfers :
              /\ xb'[u].state = xb[u].state /\ xb'[u].foreignTx = xb[u].foreignTx
              /\ xb'[u].attempts = xb[u].attempts /\ xb'[u].compensations = xb[u].compensations
              /\ xb'[u].quote = xb[u].quote
              /\ xb'[u] # xb[u] => xb[u].state \in InFlight
<1>1. CASE t \in Transfers /\ BackoffElapses(t)
  BY <1>1, TickTypesAre DEF BackoffElapses, TypeOK, XbRow, Grows, quoting
<1>2. CASE t \in Transfers /\ RailDecides(t, i)
  BY <1>2, RailStepGrows DEF RailDecides, quoting
<1>3. CASE \/ k \in Ticks /\ (PickBatch(k) \/ HandleUnknown(k) \/ TickDies(k))
           \/ k \in Ticks /\ t \in Transfers /\ (Instruct(k, t) \/ AskStatus(k, t))
  <2>1. TickStep(k)
    BY <1>3 DEF TickStep
  <2>2. Grows
    BY <1>3, <2>1, TicksGrow
  <2> QED
    BY <1>3, <2>2 DEF PickBatch, Instruct, AskStatus, HandleUnknown, TickDies, quoting
<1> QED
  BY <1>1, <1>2, <1>3

LEMMA AbroadFresh ==
  ASSUME TypeOK, TicksInv, FreshInv, NEW k, NEW t, NEW i,
         (k \in Ticks /\ TickStep(k)) \/ BackoffElapses(t) \/ RailDecides(t, i)
  PROVE  FreshInv'
<1> USE TickTypesAre DEF TypeOK
<1> SUFFICES ASSUME NEW u \in Transfers, orch'[u].pc # "done" PROVE Untouched(u)'
  BY DEF FreshInv
<1>1. orch' = orch
  BY DEF TickStep, PickBatch, Instruct, AskStatus, HandleAccepted, HandleRejected, HandleExhausted,
     HandleTimeout, HandlePending, SetPending, HandleUnknown, TickDies, BackoffElapses, RailDecides, quoting
<1>2. Untouched(u)
  BY <1>1 DEF FreshInv
<1>3. xb[u].state \notin InFlight
  BY <1>2 DEF Untouched, NoRow, InFlight
<1>4. CASE BackoffElapses(t) \/ RailDecides(t, i)
  <2>1. tx' = tx /\ tick' = tick /\ xb'[u] = xb[u]
    BY <1>3, <1>4 DEF BackoffElapses, RailDecides
  <2> QED
    BY <2>1, <1>2 DEF Untouched
<1>5. CASE k \in Ticks /\ TickStep(k)
  <2>1. tx'[u] = tx[u] /\ xb'[u] = xb[u]
    <3>1. ASSUME tick[k].pc # "idle" PROVE tick[k].on # u
      BY <1>5, <3>1, <1>2, HandlesRow DEF Untouched
    <3>2. CASE \/ HandleAccepted(k) \/ HandleRejected(k) \/ HandleExhausted(k)
               \/ HandleTimeout(k) \/ HandlePending(k) \/ SetPending(k)
      BY <1>5, <3>1, <3>2, TickTouches DEF Touches
    <3> QED
      BY <1>5, <3>2 DEF TickStep, PickBatch, Instruct, AskStatus, HandleUnknown, TickDies
  <2>2. ASSUME NEW j \in Ticks PROVE u \notin DOMAIN tick'[j].rows
    <3>1. u \notin DOMAIN tick[j].rows
      BY <1>2 DEF Untouched
    <3>2. CASE tick'[j] = tick[j]
      BY <3>1, <3>2
    <3>3. CASE PickBatch(k) /\ j = k
      <4>1. tick'[j] = Resting([v \in DueRows |-> xb[v]])
        BY <3>3 DEF PickBatch
      <4>2. DOMAIN tick'[j].rows = DueRows
        BY <4>1 DEF Resting
      <4> QED
        BY <4>2, <1>3 DEF DueRows
    <3>4. CASE j = k /\ ~PickBatch(k)
      <4>1. \/ tick'[k] = Resting(Without(tick[k].rows, tick[k].on))
            \/ tick'[k] = Resting(<<>>)
            \/ tick'[k].rows = tick[k].rows
        <5>1. CASE HandleAccepted(k) \/ HandleRejected(k) \/ HandleExhausted(k)
                   \/ SetPending(k) \/ HandleUnknown(k)
          BY <1>5, <5>1 DEF HandleAccepted, HandleRejected, HandleExhausted, SetPending,
             HandleUnknown, NextRow
        <5>2. CASE HandleTimeout(k) \/ HandlePending(k)
          <6>1. PICK l : tick' = [tick EXCEPT ![k].pc = "bumped", ![k].learned = l]
            BY <5>2 DEF HandleTimeout, HandlePending, Bump
          <6> QED
            BY <1>5, <6>1, CopyTypes DEF Tick
        <5>3. CASE TickDies(k)
          BY <5>3 DEF TickDies
        <5>4. ASSUME NEW v \in Transfers, Instruct(k, v) \/ AskStatus(k, v)
              PROVE  tick'[k].rows = tick[k].rows
          BY <1>5, <5>4 DEF Instruct, AskStatus, Asks
        <5> QED
          BY <1>5, <3>4, <5>1, <5>2, <5>3, <5>4 DEF TickStep
      <4> QED
        BY <4>1, <3>1, <3>4 DEF Resting, Without
    <3>5. j # k => tick'[j] = tick[j]
      BY <1>5 DEF TickStep, PickBatch, Instruct, AskStatus, Asks, HandleAccepted, HandleRejected,
         HandleExhausted, HandleTimeout, HandlePending, Bump, SetPending, HandleUnknown,
         NextRow, TickDies
    <3> QED
      BY <3>2, <3>3, <3>4, <3>5
  <2> QED
    BY <2>1, <2>2, <1>2 DEF Untouched
<1> QED
  BY <1>4, <1>5

LEMMA AbroadQuotes ==
  ASSUME QuotesInv, UNCHANGED quoting, overwritten \subseteq overwritten',
         \A u \in Transfers : xb'[u].quote = xb[u].quote
  PROVE  QuotesInv'
  BY DEF QuotesInv, HoldsInv, BackedInv, quoting, HeldBy

\* No edge and no kill switch leads from a final state to REJECTED.
LEMMA RejectsOnlyTheUndecided ==
  ASSUME NEW s \in STATES, canTransition(s, "REJECTED")
  PROVE  ~isTerminal(s)
  BY DEF STATES, canTransition, isTerminal, TERMINAL_STATES, VALID_TRANSITIONS

\* The steps at home that leave the tables of the transfers abroad alone.
HomeStep(q, t) ==
  \/ q \in Quotes /\ QuoteStep(q)
  \/ SweepSelects \/ SweepUpdates
  \/ /\ t \in Transfers
     /\ \/ q \in Quotes /\ ReadsQuote(t, q)
        \/ ProcessDeclined(t) \/ QuoteRefused(t) \/ QuoteSpoiled(t)
        \/ verifyAndConsume(t) \/ TravelRuleRefuses(t) \/ ProcessFails(t)

LEMMA HomeRejects ==
  ASSUME TypeOK, NEW q, NEW t, HomeStep(q, t)
  PROVE  /\ UNCHANGED foreign
         /\ overwritten \subseteq overwritten'
         /\ \A u \in Transfers : tx'[u] # tx[u] => tx'[u] = "REJECTED" /\ ~isTerminal(tx[u])
         /\ \A u \in Transfers : orch'[u].pc # "done" => orch[u].pc # "done" /\ tx'[u] = tx[u]
<1> USE TickTypesAre DEF TypeOK
<1>f. ASSUME t \in Transfers, Finalize(t, "REJECTED")
      PROVE  \A u \in Transfers : tx'[u] # tx[u] => tx'[u] = "REJECTED" /\ ~isTerminal(tx[u]) /\ u = t
  <2>1. tx' = [tx EXCEPT ![t] = "REJECTED"]
    BY <1>f DEF Finalize
  <2>2. tx[t] = "ABSENT" \/ ~isTerminal(tx[t])
    BY <1>f, RejectsOnlyTheUndecided DEF Finalize
  <2>3. ~isTerminal("ABSENT")
    BY DEF isTerminal, TERMINAL_STATES
  <2> QED
    BY <2>1, <2>2, <2>3
<1>l. ASSUME Leaves(t) PROVE \A u \in Transfers : orch'[u].pc # "done" => u # t /\ orch'[u] = orch[u]
  BY <1>l DEF Leaves
<1>1. CASE (q \in Quotes /\ QuoteStep(q)) \/ SweepSelects \/ SweepUpdates
  BY <1>1 DEF QuoteStep, ExpiryPasses, LockExpires, LockReads, LockWrites, Notes,
     SweepSelects, SweepUpdates, foreign
<1>2. CASE t \in Transfers /\ ProcessDeclined(t)
  BY <1>2, <1>f, <1>l DEF ProcessDeclined
<1>3. CASE t \in Transfers /\ q \in Quotes /\ ReadsQuote(t, q)
  BY <1>3 DEF ReadsQuote, foreign, Orch
<1>4. CASE t \in Transfers /\ QuoteRefused(t)
  BY <1>4, <1>f, <1>l DEF QuoteRefused
<1>5. CASE t \in Transfers /\ QuoteSpoiled(t)
  BY <1>5, <1>f, <1>l DEF QuoteSpoiled
<1>6. CASE t \in Transfers /\ verifyAndConsume(t)
  BY <1>6 DEF verifyAndConsume, Notes, foreign, Orch
<1>7. CASE t \in Transfers /\ TravelRuleRefuses(t)
  BY <1>7, <1>f, <1>l DEF TravelRuleRefuses, CommitConsumed
<1>8. CASE t \in Transfers /\ ProcessFails(t)
  BY <1>8 DEF ProcessFails, foreign, Orch
<1> QED
  BY <1>1, <1>2, <1>3, <1>4, <1>5, <1>6, <1>7, <1>8 DEF HomeStep

LEMMA HomeKeepsAbroad ==
  ASSUME TypeOK, TypeOK', TicksInv, FreshInv, \A u \in Transfers : RowOK(u),
         NEW q, NEW t, HomeStep(q, t)
  PROVE  TicksInv' /\ FreshInv' /\ \A u \in Transfers : RowOK(u)'
<1>1. /\ UNCHANGED foreign
      /\ overwritten \subseteq overwritten'
      /\ \A u \in Transfers : tx'[u] # tx[u] => tx'[u] = "REJECTED" /\ ~isTerminal(tx[u])
      /\ \A u \in Transfers : orch'[u].pc # "done" => orch[u].pc # "done" /\ tx'[u] = tx[u]
  BY HomeRejects
<1>2. TicksInv'
  BY <1>1 DEF TicksInv, GoodTick, GoodCopy, foreign
<1>3. FreshInv'
  BY <1>1 DEF FreshInv, Untouched, foreign
<1>4. Grows
  BY <1>1, TickTypesAre DEF foreign, Grows, TypeOK
<1>5. ASSUME NEW u \in Transfers PROVE RowOK(u)'
  BY <1>1, <1>4, RowStays DEF foreign
<1> QED
  BY <1>2, <1>3, <1>5

LEMMA HoldsStay ==
  ASSUME HoldsInv, UNCHANGED holder,
         \A u \in Transfers :
           /\ orch'[u].pc \in {"read", "consumed"} => orch'[u].on \in Quotes
           /\ orch'[u].pc = "consumed" <=> orch[u].pc = "consumed"
           /\ orch'[u].pc = "consumed" => orch'[u].on = orch[u].on
  PROVE  HoldsInv'
<1>1. \A u \in Transfers, p \in Quotes : HeldBy(p, u)' <=> HeldBy(p, u)
  BY DEF HeldBy
<1> QED
  BY <1>1 DEF HoldsInv

LEMMA BackedStays ==
  ASSUME BackedInv, UNCHANGED xb, overwritten \subseteq overwritten',
         \A p \in Quotes \ overwritten' :
           /\ holder'[p] # None => quote'[p].state \in Usable
           /\ quote[p].state \notin Usable => quote'[p].state \notin Usable
  PROVE  BackedInv'
  BY DEF BackedInv

LEMMA HomeHolds ==
  ASSUME TypeOK, HoldsInv,
         NEW q, NEW t, HomeStep(q, t)
  PROVE  HoldsInv'
<1>t. orch \in [Transfers -> Orch] /\ holder \in [Quotes -> Transfers \cup {None}]
      /\ None \notin Transfers
  BY NoneAssumption, TickTypesAre DEF TypeOK
<1>on. \A u \in Transfers : orch[u].pc \in {"read", "consumed"} => orch[u].on \in Quotes
  BY DEF HoldsInv
<1>l. ASSUME Leaves(t) \/ ProcessFails(t)
      PROVE  \A u \in Transfers : IF u = t THEN orch'[u].pc \in {"new", "done"} ELSE orch'[u] = orch[u]
  BY <1>l, <1>t DEF Leaves, ProcessFails
<1>1. CASE (q \in Quotes /\ QuoteStep(q)) \/ SweepSelects \/ SweepUpdates
  <2>1. orch' = orch /\ holder' = holder
    BY <1>1 DEF QuoteStep, ExpiryPasses, LockExpires, LockReads, LockWrites, SweepSelects, SweepUpdates
  <2> QED
    BY <2>1 DEF HoldsInv, HeldBy
<1>2. CASE (t \in Transfers /\ ProcessDeclined(t)) \/ (t \in Transfers /\ QuoteRefused(t)) \/ (t \in Transfers /\ QuoteSpoiled(t))
  <2>1. Leaves(t) /\ orch[t].pc \in {"new", "read", "done"} /\ UNCHANGED holder
    BY <1>2 DEF ProcessDeclined, QuoteRefused, QuoteSpoiled
  <2>2. \A u \in Transfers : /\ orch'[u].pc \in {"read", "consumed"} => orch'[u].on \in Quotes
                             /\ orch'[u].pc = "consumed" <=> orch[u].pc = "consumed"
                             /\ orch'[u].pc = "consumed" => orch'[u].on = orch[u].on
    BY <2>1, <1>l, <1>on
  <2> QED
    BY <2>1, <2>2, HoldsStay
<1>3. CASE t \in Transfers /\ q \in Quotes /\ ReadsQuote(t, q)
  <2>1. UNCHANGED holder /\ orch[t].pc = "new"
        /\ \A u \in Transfers : IF u = t THEN orch'[u].pc = "read" /\ orch'[u].on = q ELSE orch'[u] = orch[u]
    BY <1>3, <1>t DEF ReadsQuote
  <2> QED
    BY <1>3, <2>1, <1>on, HoldsStay
<1>4. CASE t \in Transfers /\ verifyAndConsume(t)
  <2>1. PICK p \in Quotes : p = orch[t].on
    BY <1>4, <1>on DEF verifyAndConsume
  <2>2. orch' = [orch EXCEPT ![t].pc = "consumed"] /\ orch[t].pc = "read"
        /\ holder' = [holder EXCEPT ![p] = t] /\ holder[p] = None
    BY <1>4, <2>1 DEF verifyAndConsume
  <2>3. \A u \in Transfers : /\ orch'[u].pc = IF u = t THEN "consumed" ELSE orch[u].pc
                             /\ orch'[u].on = orch[u].on
    BY <2>2, <1>t DEF Orch
  <2>4. \A r \in Quotes : holder'[r] = IF r = p THEN t ELSE holder[r]
    BY <2>2, <1>t
  <2> QED
    BY <1>4, <2>1, <2>2, <2>3, <2>4, <1>t DEF HoldsInv, HeldBy
<1>5. CASE (t \in Transfers /\ TravelRuleRefuses(t)) \/ (t \in Transfers /\ ProcessFails(t))
  <2>1. PICK p \in Quotes : p = orch[t].on
    BY <1>5, <1>on DEF TravelRuleRefuses, CommitConsumed, ProcessFails
  <2>2. \A u \in Transfers : IF u = t THEN orch'[u].pc \in {"new", "done"} ELSE orch'[u] = orch[u]
    BY <1>5, <1>l DEF TravelRuleRefuses, CommitConsumed
  <2>3. \A r \in Quotes : holder'[r] = IF r = p /\ orch[t].pc = "consumed" THEN None ELSE holder[r]
    BY <1>5, <2>1, <1>t DEF TravelRuleRefuses, CommitConsumed, ProcessFails
  <2> QED
    BY <1>5, <2>1, <2>2, <2>3, <1>t DEF HoldsInv, HeldBy
<1> QED
  BY <1>1, <1>2, <1>3, <1>4, <1>5 DEF HomeStep

LEMMA HomeBacked ==
  ASSUME TypeOK, QuotesInv,
         NEW q, NEW t, HomeStep(q, t)
  PROVE  BackedInv'
<1>t. quote \in [Quotes -> Quote] /\ holder \in [Quotes -> Transfers \cup {None}]
  BY TickTypesAre DEF TypeOK
<1>on. \A u \in Transfers : orch[u].pc \in {"read", "consumed"} => orch[u].on \in Quotes
  BY DEF QuotesInv, HoldsInv
<1>0. BackedInv /\ UNCHANGED xb /\ overwritten \subseteq overwritten'
  BY HomeRejects DEF foreign, QuotesInv
<1>h. \A p \in Quotes \ overwritten : holder[p] # None => quote[p].state \in Usable
  BY <1>0 DEF BackedInv
<1>1. CASE UNCHANGED <<quote, holder>>
  BY <1>0, <1>1, <1>h, BackedStays
<1>2. CASE q \in Quotes /\ ExpiryPasses(q)
  <2>1. \A p \in Quotes : quote'[p].state = quote[p].state
    BY <1>2, <1>t DEF ExpiryPasses, Quote
  <2> QED
    BY <1>0, <1>2, <1>h, <2>1, BackedStays DEF ExpiryPasses
<1>3. CASE q \in Quotes /\ LockExpires(q)
  <2>1. \A p \in Quotes : quote'[p].state = IF p = q THEN "EXPIRED" ELSE quote[p].state
    BY <1>3, <1>t DEF LockExpires, SetQuote, Quote
  <2>2. UNCHANGED holder /\ holder[q] = None /\ "EXPIRED" \notin Usable
    BY <1>3 DEF LockExpires, SetQuote, Usable
  <2> QED
    BY <2>1, <2>2, <1>0, <1>h, BackedStays
<1>4. CASE q \in Quotes /\ LockWrites(q)
  <2>1. \A p \in Quotes : quote'[p].state = IF p = q THEN "LOCKED" ELSE quote[p].state
    BY <1>4, <1>t DEF LockWrites, SetQuote, Quote
  <2>2. q \in overwritten' \/ quote[q].state \in Usable
    BY <1>4 DEF LockWrites, Notes, Usable
  <2>3. UNCHANGED holder /\ holder[q] = None
    BY <1>4 DEF LockWrites, SetQuote
  <2> QED
    BY <2>1, <2>2, <2>3, <1>0, <1>h, BackedStays
<1>5. CASE SweepUpdates
  <2>1. \A p \in Quotes : quote'[p].state = IF p \in sweep THEN "EXPIRED" ELSE quote[p].state
    BY <1>5, <1>t DEF SweepUpdates, Quote
  <2>2. UNCHANGED holder /\ (\A p \in sweep : holder[p] = None) /\ "EXPIRED" \notin Usable
    BY <1>5 DEF SweepUpdates, Usable
  <2> QED
    BY <2>1, <2>2, <1>0, <1>h, BackedStays
<1>6. CASE t \in Transfers /\ QuoteSpoiled(t)
  <2>1. PICK p \in Quotes : p = orch[t].on
    BY <1>6, <1>on DEF QuoteSpoiled
  <2>2. PICK verdict \in {"EXPIRED", "REJECTED_SLIPPAGE"} :
          \A r \in Quotes : quote'[r].state = IF r = p THEN verdict ELSE quote[r].state
    BY <1>6, <2>1, <1>t DEF QuoteSpoiled, SetQuote, Quote
  <2>3. UNCHANGED holder /\ holder[p] = None /\ verdict \notin Usable
    BY <1>6, <2>1 DEF QuoteSpoiled, SetQuote, Usable
  <2> QED
    BY <2>2, <2>3, <1>0, <1>h, BackedStays
<1>7. CASE t \in Transfers /\ verifyAndConsume(t)
  <2>1. PICK p \in Quotes : p = orch[t].on
    BY <1>7, <1>on DEF verifyAndConsume
  <2>2. p \in overwritten' \/ quote[p].state \in Usable
    BY <1>7, <2>1 DEF verifyAndConsume, Notes
  <2>3. \A r \in Quotes : holder'[r] = IF r = p THEN t ELSE holder[r]
    BY <1>7, <2>1, <1>t DEF verifyAndConsume
  <2>4. quote' = quote
    BY <1>7 DEF verifyAndConsume
  <2> QED
    BY <2>2, <2>3, <2>4, <1>0, <1>h, BackedStays
<1>8. CASE t \in Transfers /\ TravelRuleRefuses(t)
  <2>1. PICK p \in Quotes : p = orch[t].on
    BY <1>8, <1>on DEF TravelRuleRefuses, CommitConsumed
  <2>2. \A r \in Quotes : /\ holder'[r] = IF r = p THEN None ELSE holder[r]
                          /\ quote'[r].state = IF r = p THEN "CONSUMED" ELSE quote[r].state
    BY <1>8, <2>1, <1>t DEF TravelRuleRefuses, CommitConsumed, Quote
  <2>3. "CONSUMED" \notin Usable
    BY DEF Usable
  <2> QED
    BY <2>2, <2>3, <1>0, <1>h, BackedStays
<1>9. CASE t \in Transfers /\ ProcessFails(t)
  <2>1. PICK p \in Quotes : p = orch[t].on
    BY <1>9, <1>on DEF ProcessFails
  <2>2. \A r \in Quotes : holder'[r] \in {None, holder[r]}
    BY <1>9, <2>1, <1>t DEF ProcessFails
  <2>3. quote' = quote
    BY <1>9 DEF ProcessFails
  <2> QED
    BY <2>2, <2>3, <1>0, <1>h, BackedStays
<1>10. CASE (q \in Quotes /\ LockReads(q)) \/ SweepSelects \/ (t \in Transfers /\ ProcessDeclined(t)) \/ (t \in Transfers /\ q \in Quotes /\ ReadsQuote(t, q)) \/ (t \in Transfers /\ QuoteRefused(t))
  BY <1>1, <1>10 DEF LockReads, SweepSelects, ProcessDeclined, ReadsQuote, QuoteRefused
<1> QED
  BY <1>2, <1>3, <1>4, <1>5, <1>6, <1>7, <1>8, <1>9, <1>10 DEF HomeStep, QuoteStep

\* The commit of both legs: a transfer that nothing was known of, and a quote
\* that nobody was backed by.
LEMMA Coordinates ==
  ASSUME TypeOK, TypeOK', TicksInv, FreshInv, QuotesInv, \A u \in Transfers : RowOK(u),
         NEW t \in Transfers, coordinateOnClient(t)
  PROVE  TicksInv' /\ FreshInv' /\ QuotesInv' /\ \A u \in Transfers : RowOK(u)'
<1>t. /\ quote \in [Quotes -> Quote] /\ holder \in [Quotes -> Transfers \cup {None}]
      /\ orch \in [Transfers -> Orch] /\ tx \in [Transfers -> STATES \cup {"ABSENT"}]
      /\ xb \in [Transfers -> XbRow] /\ None \notin Transfers
  BY NoneAssumption, TickTypesAre DEF TypeOK
<1>p. PICK p \in Quotes : p = orch[t].on
  BY DEF coordinateOnClient, CommitConsumed, QuotesInv, HoldsInv
<1>0. orch[t].pc = "consumed" /\ UNCHANGED <<rail, tick, inconclusive, overwritten>>
  BY DEF coordinateOnClient, CommitConsumed
<1>1. Untouched(t)
  BY <1>0 DEF FreshInv
<1>2. \A u \in Transfers : u # t => xb'[u] = xb[u] /\ tx'[u] = tx[u] /\ orch'[u] = orch[u]
  BY <1>t DEF coordinateOnClient, CommitConsumed, Leaves
<1>3. orch'[t].pc = "done" /\ tx'[t] = "CREDIT_LEG_PENDING"
  BY <1>t DEF coordinateOnClient, CommitConsumed, Leaves
<1>4. xb'[t] = [NoRow EXCEPT !.quote = p, !.state = "FOREIGN_INSTRUCTING"]
  BY <1>t, <1>p DEF coordinateOnClient
<1>5. /\ xb'[t].quote = p /\ xb'[t].state = "FOREIGN_INSTRUCTING" /\ xb'[t].foreignTx = 0
      /\ xb'[t].attempts = 0 /\ xb'[t].compensations = 0
  BY <1>4 DEF NoRow
<1>6. \A r \in Quotes : /\ holder'[r] = IF r = p THEN None ELSE holder[r]
                        /\ quote'[r].state = IF r = p THEN "CONSUMED" ELSE quote[r].state
  BY <1>p, <1>t DEF coordinateOnClient, CommitConsumed, Quote
<1>7. TicksInv'
  BY <1>0 DEF TicksInv, GoodTick, GoodCopy
<1>8. FreshInv'
  BY <1>0, <1>2, <1>3 DEF FreshInv, Untouched
<1>9. \A u \in Transfers : RowOK(u)'
  <2>1. \A u \in Transfers : u # t => RowOK(u)'
    BY <1>0, <1>2 DEF RowOK, Got
  <2>2. Len(rail[t]) \in Nat /\ inconclusive[t] \in Nat
    BY TickTypesAre DEF TypeOK
  <2>3. RowOK(t)'
    BY <1>0, <1>3, <1>5, <2>2 DEF RowOK
  <2> QED
    BY <2>1, <2>3
<1>10. HoldsInv'
  <2>1. HoldsInv
    BY DEF QuotesInv
  <2> QED
    BY <2>1, <1>p, <1>t, <1>0, <1>2, <1>3, <1>6 DEF HoldsInv, HeldBy
<1>11. BackedInv'
  <2>1. holder[p] = t /\ BackedInv
    BY <1>p, <1>0 DEF QuotesInv, HoldsInv, HeldBy
  <2>2. \A u \in Transfers, r \in Quotes : xb'[u].quote = r => IF u = t THEN r = p ELSE xb[u].quote = r
    BY <1>2, <1>5
  <2>3. p \notin overwritten => \A u \in Transfers : xb[u].quote # p
    BY <2>1, <1>t DEF BackedInv
  <2>4. "CONSUMED" \notin Usable
    BY DEF Usable
  <2> QED
    BY <2>1, <2>2, <2>3, <2>4, <1>0, <1>6 DEF BackedInv
<1> QED
  BY <1>7, <1>8, <1>9, <1>10, <1>11 DEF QuotesInv

-----------------------------------------------------------------------------

IInv ==
  /\ TypeOK
  /\ TicksInv
  /\ FreshInv
  /\ QuotesInv
  /\ \A t \in Transfers : RowOK(t)

LEMMA Starts ==
  ASSUME Init
  PROVE  IInv
<1> USE DEF Init
<1>1. TypeOK
  BY RowTypes, BoundsAssumption, TickTypesAre DEF TypeOK, Quote, QUOTE_STATES, Orch
<1>2. TicksInv
  BY DEF TicksInv, GoodTick, Resting
<1>3. FreshInv
  BY DEF FreshInv, Untouched, Resting
<1>4. QuotesInv
  <2>1. HoldsInv
    BY NoneAssumption DEF HoldsInv, HeldBy
  <2>2. BackedInv
    BY NoneAssumption DEF BackedInv, NoRow
  <2> QED
    BY <2>1, <2>2 DEF QuotesInv
<1>5. \A t \in Transfers : RowOK(t)
  BY DEF RowOK, NoRow
<1> QED
  BY <1>1, <1>2, <1>3, <1>4, <1>5 DEF IInv

LEMMA TickKeeps ==
  ASSUME IInv, NEW k \in Ticks, TickStep(k)
  PROVE  IInv'
<1> USE DEF IInv
<1>0. PICK some \in Transfers : TRUE
  <2>1. CASE tick[k].pc # "idle" \/ DOMAIN tick[k].rows # {}
    <3>1. DOMAIN tick[k].rows \subseteq Transfers
      BY CopyTypes, TickTypesAre DEF TypeOK, Tick
    <3>2. tick[k].pc # "idle" => tick[k].on \in Transfers
      BY HandlesRow
    <3> QED
      BY <2>1, <3>1, <3>2
  <2>2. CASE PickBatch(k)
    BY <2>2 DEF PickBatch, DueRows
  <2> QED
    BY <2>1, <2>2 DEF TickStep, Instruct, AskStatus, HandleAccepted, HandleRejected, HandleExhausted,
       HandleTimeout, HandlePending, SetPending, HandleUnknown, TickDies, Answered, Inconclusive
<1>1. TypeOK'
  BY <1>0, TickTypes DEF TickStep
<1>2. TicksInv'
  BY <1>1, TicksStep, RowsAreOK
<1>3. CASE \/ HandleAccepted(k) \/ HandleRejected(k) \/ HandleExhausted(k)
           \/ HandleTimeout(k) \/ HandlePending(k) \/ SetPending(k)
  <2>1. \A u \in Transfers : RowOK(u)'
    BY <1>1, <1>3, TickRowsOK
  <2>2. PICK t : t = tick[k].on
    OBVIOUS
  <2>3. t \in Transfers /\ Touches(t)
    BY <1>3, <2>2, TickTouches, HandlesRow
  <2>4. FreshInv'
    BY <2>3, AbroadFresh
  <2>5. QuotesInv'
    BY <2>3, AbroadQuotes DEF Touches
  <2> QED
    BY <1>1, <1>2, <2>1, <2>4, <2>5
<1>4. ASSUME NEW t \in Transfers,
             PickBatch(k) \/ Instruct(k, t) \/ AskStatus(k, t) \/ HandleUnknown(k) \/ TickDies(k)
      PROVE  IInv'
  <2>1. /\ Grows /\ UNCHANGED quoting /\ tx' = tx /\ overwritten \subseteq overwritten'
        /\ \A u \in Transfers :
             /\ xb'[u].state = xb[u].state /\ xb'[u].foreignTx = xb[u].foreignTx
             /\ xb'[u].attempts = xb[u].attempts /\ xb'[u].compensations = xb[u].compensations
             /\ xb'[u].quote = xb[u].quote
    BY <1>4, OtherSteps
  <2>2. \A u \in Transfers : RowOK(u)'
    BY <1>1, <2>1, RowStays
  <2>3. FreshInv'
    BY <1>4, AbroadFresh
  <2>4. QuotesInv'
    BY <2>1, AbroadQuotes
  <2> QED
    BY <1>1, <1>2, <2>2, <2>3, <2>4
<1> QED
  BY <1>0, <1>3, <1>4 DEF TickStep

LEMMA RowStepKeeps ==
  ASSUME IInv, NEW t \in Transfers, NEW i, BackoffElapses(t) \/ RailDecides(t, i)
  PROVE  IInv'
<1> USE DEF IInv
<1>1. TypeOK'
  BY RailTypes
<1>2. /\ Grows /\ UNCHANGED quoting /\ tx' = tx /\ overwritten \subseteq overwritten'
      /\ \A u \in Transfers :
           /\ xb'[u].state = xb[u].state /\ xb'[u].foreignTx = xb[u].foreignTx
           /\ xb'[u].attempts = xb[u].attempts /\ xb'[u].compensations = xb[u].compensations
           /\ xb'[u].quote = xb[u].quote
  BY OtherSteps
<1>3. TicksInv'
  <2>1. tick' = tick
    BY DEF BackoffElapses, RailDecides
  <2> QED
    BY <1>1, <1>2, <2>1, UnmovedTick DEF TicksInv
<1>4. FreshInv'
  BY AbroadFresh
<1>5. QuotesInv'
  BY <1>2, AbroadQuotes
<1>6. \A u \in Transfers : RowOK(u)'
  BY <1>1, <1>2, RowStays
<1> QED
  BY <1>1, <1>3, <1>4, <1>5, <1>6

LEMMA HomeKeeps ==
  ASSUME IInv, NEW q, NEW t, HomeStep(q, t)
  PROVE  IInv'
<1> USE DEF IInv
<1>1. TypeOK'
  BY HomeTypes, ProcessTypes DEF HomeStep
<1> QED
  BY <1>1, HomeKeepsAbroad, HomeHolds, HomeBacked DEF QuotesInv

LEMMA StepsAre ==
  ASSUME Next
  PROVE  \/ \E q, t : HomeStep(q, t)
         \/ \E t \in Transfers : coordinateOnClient(t)
         \/ \E k \in Ticks : TickStep(k)
         \/ \E t \in Transfers : \E i : BackoffElapses(t) \/ RailDecides(t, i)
  BY DEF Next, Process, handleOne, HomeStep, TickStep

\* The inductive invariant: what ticks hold of a row and what the rail said
\* stays true of it, a transfer nothing has been committed of is known to
\* nobody, and a quote that somebody holds or that is usable backs nobody.
THEOREM InductiveInvariant == Spec => []IInv
<1>1. Init => IInv
  BY Starts
<1>2. ASSUME IInv, Next PROVE IInv'
  <2>1. ASSUME NEW t \in Transfers, coordinateOnClient(t) PROVE IInv'
    <3>1. TypeOK'
      BY <1>2, <2>1, ProcessTypes DEF IInv
    <3> QED
      BY <1>2, <2>1, <3>1, Coordinates DEF IInv
  <2> QED
    BY <1>2, <2>1, StepsAre, HomeKeeps, TickKeeps, RowStepKeeps
<1>3. IInv /\ UNCHANGED vars => IInv'
  <2> SUFFICES ASSUME IInv, UNCHANGED vars PROVE IInv'
    OBVIOUS
  <2>1. /\ TypeOK' /\ TicksInv' /\ FreshInv' /\ HoldsInv' /\ BackedInv'
        /\ \A t \in Transfers : RowOK(t)'
    BY TickTypesAre DEF IInv, vars, quoting, foreign, TypeOK, TicksInv, GoodTick, GoodCopy, FreshInv, Untouched,
       QuotesInv, HoldsInv, HeldBy, BackedInv, RowOK, Got
  <2> QED
    BY <2>1 DEF IInv, QuotesInv
<1> QED
  BY <1>1, <1>2, <1>3, PTL DEF Spec

\* Success at home was decided abroad, the legs are given back only for what
\* the rail refused, and giving up takes a full schedule of answers: for any
\* number of transfers and of ticks of recovery-worker.js that overlap.
THEOREM AnswersAreTrue == Spec => []AnswersDecide
<1>1. IInv => AnswersDecide
  BY RowsAreOK DEF IInv, AnswersDecide
<1> QED
  BY <1>1, InductiveInvariant, PTL

\* Confirmed or compensated, and compensated once, unless a tick has set the
\* state of a row that had changed since it was picked.
THEOREM DecidesOnce == Spec => []DecidedOnceUnlessOverwritten
<1>1. IInv => DecidedOnceUnlessOverwritten
  BY RowsAreOK DEF IInv
<1> QED
  BY <1>1, InductiveInvariant, PTL

\* verifyAndConsume and lock() look at one copy of a quote and write another,
\* and yet a quote backs one transfer unless the two differed.
THEOREM QuoteBacksOne == Spec => []QuoteBacksOneUnlessOverwritten
<1>1. IInv => QuoteBacksOneUnlessOverwritten
  <2> SUFFICES ASSUME IInv, NEW q \in Quotes \ overwritten PROVE Cardinality(Backed(q)) <= 1
    BY DEF QuoteBacksOneUnlessOverwritten
  <2>1. \A t, u \in Backed(q) : t = u
    BY DEF IInv, QuotesInv, BackedInv, Backed
  <2>2. CASE Backed(q) = {}
    BY <2>2, FS_EmptySet
  <2>3. ASSUME NEW t \in Backed(q) PROVE Cardinality(Backed(q)) <= 1
    <3>1. Backed(q) = {t}
      BY <2>1, <2>3
    <3> QED
      <4>1. Cardinality({t}) = 1
        BY FS_Singleton
      <4> QED
        BY <4>1, <3>1
  <2> QED
    BY <2>2, <2>3
<1> QED
  BY <1>1, InductiveInvariant, PTL

\* No resubmission, kill switch or late tick moves a parent that is final.
THEOREM ParentStays == Spec => ParentIsFinal
<1>1. ASSUME IInv, [Next]_vars
      PROVE  [\A t \in Transfers : isTerminal(tx[t]) => tx'[t] = tx[t]]_vars
  <2> SUFFICES ASSUME Next, NEW u \in Transfers, isTerminal(tx[u]) PROVE tx'[u] = tx[u]
    BY <1>1
  <2> USE <1>1 DEF IInv
  <2>1. ASSUME NEW q, NEW t, HomeStep(q, t) PROVE tx'[u] = tx[u]
    BY <2>1, HomeRejects
  <2>2. ASSUME NEW t \in Transfers, coordinateOnClient(t) PROVE tx'[u] = tx[u]
    <3>1. tx[t] = "ABSENT"
      BY <2>2 DEF coordinateOnClient, CommitConsumed, FreshInv, Untouched
    <3>2. u # t
      BY <3>1 DEF isTerminal, TERMINAL_STATES
    <3> QED
      BY <2>2, <3>2, TickTypesAre DEF coordinateOnClient, TypeOK
  <2>3. ASSUME NEW k \in Ticks, TickStep(k) PROVE tx'[u] = tx[u]
    <3>1. CASE \/ HandleAccepted(k) \/ HandleRejected(k) \/ HandleExhausted(k)
               \/ HandleTimeout(k) \/ HandlePending(k) \/ SetPending(k)
      BY <3>1, TickTouches DEF Touches
    <3> QED
      BY <2>3, <3>1 DEF TickStep, PickBatch, Instruct, AskStatus, HandleUnknown, TickDies
  <2>4. ASSUME NEW t \in Transfers, NEW i, BackoffElapses(t) \/ RailDecides(t, i)
        PROVE  tx'[u] = tx[u]
    BY <2>4 DEF BackoffElapses, RailDecides
  <2> QED
    BY <2>1, <2>2, <2>3, <2>4, StepsAre
<1> QED
  BY <1>1, InductiveInvariant, PTL DEF Spec, ParentIsFinal

=============================================================================
