------------------------------ MODULE FxBooks -------------------------------
(***************************************************************************)
(* The prices and the books of cross-border transfers: what a quote says   *)
(* (modules/crossborder-fx/quote-service.js, core/money.js), whether the   *)
(* market has left it when it is consumed, and the journals that           *)
(* crossborder-tx/coordinator.js and its recovery worker post.             *)
(*                                                                         *)
(* CrossBorder has lock() and the interleavings of the same calls; here    *)
(* each call is one step and has its amounts.  A rate is a mantissa and    *)
(* its number of fractional digits; amounts are minor units.  The journals *)
(* have the amounts of the envelope, and nothing compares these with the   *)
(* quote.  Nothing deactivates a market maker or takes a pair from it, so  *)
(* that the pair of a quote always has one to ask (the `if (maker)` of     *)
(* quote-service.js:140).                                                  *)
(***************************************************************************)
EXTENDS Integers, Sequences, FiniteSets, FiniteSetsExt

CONSTANTS
  Transfers, None,
  Answers,              \* of the market maker: rates, each with its fees
  Amounts,              \* that are asked for
  Sent,                 \* <<payAmount, receiveAmount>> of envelopes
  PayDigits, ReceiveDigits,
  SlippageCap,          \* config.fxSlippageBps
  MaxQuotes             \* bound of the instance

VARIABLES
  maker,     \* what the maker answers now
  quote,     \* rows of fx_quotes, in the order of their creation
  tx,        \* transfers: the parent, its row in crossborder_transactions
  balance,   \* of the ledger accounts: credits less debits
  market     \* history: the maker's rate at which a quote was consumed

fvars == <<maker, quote, tx, balance, market>>

Quotes == 1 .. MaxQuotes
Accounts == {"PARTICIPANT_SETTLEMENT", "FX_NOSTRO_PAY", "FX_NOSTRO_RECEIVE", "FOREIGN_RAIL_NOSTRO"}

-----------------------------------------------------------------------------
(* Prices.                                                                 *)

\* Mutant: rounded up.
convertUp(pay, payDigits, recvDigits, rate) ==
  LET exp == recvDigits - payDigits - rate.scale IN
  IF exp >= 0 THEN pay * rate.mantissa * 10 ^ exp
  ELSE (pay * rate.mantissa + 10 ^ (-exp) - 1) \div 10 ^ (-exp)

convertMinor(pay, payDigits, recvDigits, rate) ==
  LET exp == recvDigits - payDigits - rate.scale IN
  IF exp >= 0 THEN pay * rate.mantissa * 10 ^ exp
  ELSE (pay * rate.mantissa) \div 10 ^ (-exp)

\* Mutant: a rate that falls does not drift.
slippageUpwards(old, new) ==
  LET scale == Max({old.scale, new.scale})
      aligned(rate) == rate.mantissa * 10 ^ (scale - rate.scale)
  IN (Max({aligned(new) - aligned(old), 0}) * 10000) \div aligned(old)

slippageBps(old, new) ==
  LET scale == Max({old.scale, new.scale})
      aligned(rate) == rate.mantissa * 10 ^ (scale - rate.scale)
      diff == Max({aligned(new) - aligned(old), aligned(old) - aligned(new)})
  IN (diff * 10000) \div aligned(old)

\* What the beneficiary gets of an amount, by the maker's answer.
Receives(pay, answer) ==
  convertMinor(pay - answer.feePay, PayDigits, ReceiveDigits, answer.rate) - answer.feeReceive

-----------------------------------------------------------------------------

NoTransfer == [state |-> "ABSENT", quote |-> None, pay |-> 0, receive |-> 0, xb |-> "ABSENT", legs |-> 0]

FInit ==
  /\ maker \in Answers
  /\ quote = << >>
  /\ tx = [t \in Transfers |-> NoTransfer]
  /\ balance = [a \in Accounts |-> 0]
  /\ market = << >>

MakerMoves ==
  /\ maker' \in Answers \ {maker}
  /\ UNCHANGED <<quote, tx, balance, market>>

\* POST /fx/quote; fees that leave nothing are refused.
asksQuote(pay) ==
  LET receive == Receives(pay, maker) IN
  /\ Len(quote) < MaxQuotes
  /\ pay > maker.feePay /\ receive > 0
  /\ quote' = Append(quote, [state |-> "OPEN", pay |-> pay, receive |-> receive, by |-> None,
                             answer |-> maker])
  /\ market' = Append(market, None)
  /\ UNCHANGED <<maker, tx, balance>>

\* A journal: what each account gets, credits positive.
PostsJournal(entry) == balance' = [a \in Accounts |-> balance[a] + entry[a]]

\* The first n legs: the originator owes what the rail holds of the one
\* currency, and the rail owes the foreign rail of the other.
Legs(n, pay, receive) ==
  [PARTICIPANT_SETTLEMENT |-> IF n >= 1 THEN -pay ELSE 0,
   FX_NOSTRO_PAY |-> IF n >= 1 THEN pay ELSE 0,
   FX_NOSTRO_RECEIVE |-> IF n = 2 THEN -receive ELSE 0,
   FOREIGN_RAIL_NOSTRO |-> IF n = 2 THEN receive ELSE 0]

\* An envelope ends at the coordinator: with its parent's state, the row of
\* the transfer and the legs that were posted.
Ends(t, q, sent, state, xb, legs) ==
  /\ tx' = [tx EXCEPT ![t] = [state |-> state, quote |-> q, pay |-> sent[1], receive |-> sent[2],
                              xb |-> xb, legs |-> legs]]
  /\ PostsJournal(Legs(legs, sent[1], sent[2]))

SetQuote(q, state, by) == quote' = [quote EXCEPT ![q].state = state, ![q].by = by]

\* The quote is consumed by another, was spoiled before, expires now or has
\* slipped: the last two are noted.
QuoteRefused(t, q, sent) ==
  /\ tx[t] = NoTransfer
  /\ \/ quote[q].state # "OPEN" /\ UNCHANGED quote
     \/ quote[q].state = "OPEN" /\ SetQuote(q, "EXPIRED", None)
     \/ /\ quote[q].state = "OPEN"
        /\ slippageBps(quote[q].answer.rate, maker.rate) > SlippageCap
        /\ SetQuote(q, "REJECTED_SLIPPAGE", None)
  /\ Ends(t, None, sent, "REJECTED", "ABSENT", 0)
  /\ UNCHANGED <<maker, market>>

verifyAndConsume(t, q) ==
  /\ tx[t] = NoTransfer
  /\ quote[q].state = "OPEN"
  /\ slippageBps(quote[q].answer.rate, maker.rate) <= SlippageCap
  /\ SetQuote(q, "CONSUMED", t)
  /\ market' = [market EXCEPT ![q] = maker.rate]
  /\ UNCHANGED maker

\* What throws after that leaves the quote consumed, and the legs that are
\* posted: the orchestrator catches the error and commits its REJECTED.
TravelRuleRefuses(t, q, sent) ==
  /\ verifyAndConsume(t, q)
  /\ Ends(t, q, sent, "REJECTED", "ABSENT", 0)

\* assertBalanced wants each amount to be positive.
LegThrows(t, q, sent) ==
  /\ verifyAndConsume(t, q)
  /\ 0 \in {sent[1], sent[2]}
  /\ Ends(t, q, sent, "REJECTED", "ABSENT", IF sent[1] = 0 THEN 0 ELSE 1)

coordinate(t, q, sent) ==
  /\ verifyAndConsume(t, q)
  /\ 0 \notin {sent[1], sent[2]}
  /\ Ends(t, q, sent, "CREDIT_LEG_PENDING", "FOREIGN_INSTRUCTING", 2)

\* The recovery worker has the foreign rail's answer.
HandleAccepted(t) ==
  /\ tx[t].xb = "FOREIGN_INSTRUCTING"
  /\ tx' = [tx EXCEPT ![t].xb = "CONFIRMED", ![t].state = "CONFIRMED"]
  /\ UNCHANGED <<maker, quote, balance, market>>

\* Mutant: debits and credits as in the legs.
LegsAgain(pay, receive) == Legs(2, pay, receive)

\* One journal with the sides of both legs swapped.
Compensation(pay, receive) == Legs(2, -pay, -receive)

HandleRejected(t) ==
  /\ tx[t].xb = "FOREIGN_INSTRUCTING"
  /\ tx' = [tx EXCEPT ![t].xb = "REJECTED", ![t].state = "REJECTED"]
  /\ PostsJournal(Compensation(tx[t].pay, tx[t].receive))
  /\ UNCHANGED <<maker, quote, market>>

\* Nor does it know when it gives up; the legs stay.
HandleExhausted(t) ==
  /\ tx[t].xb = "FOREIGN_INSTRUCTING"
  /\ tx' = [tx EXCEPT ![t].xb = "FAILED"]
  /\ UNCHANGED <<maker, quote, balance, market>>

FNext ==
  \/ MakerMoves
  \/ \E pay \in Amounts : asksQuote(pay)
  \/ \E t \in Transfers, sent \in Sent : \E q \in DOMAIN quote :
       \/ QuoteRefused(t, q, sent)
       \/ TravelRuleRefuses(t, q, sent)
       \/ LegThrows(t, q, sent)
       \/ coordinate(t, q, sent)
  \/ \E t \in Transfers : HandleAccepted(t) \/ HandleRejected(t) \/ HandleExhausted(t)

-----------------------------------------------------------------------------

FTypeOK ==
  /\ maker \in Answers
  /\ Len(quote) \in 0 .. MaxQuotes /\ Len(market) = Len(quote)
  /\ \A q \in DOMAIN quote : quote[q].by \in Transfers \cup {None}
  /\ balance \in [Accounts -> Int]

\* A conversion loses less than one minor unit, and never to the rail's
\* disadvantage, for all numbers of digits.
ConvertsDown(digits, rates, amounts) ==
  \A p \in digits, r \in digits, rate \in rates, pay \in amounts :
    LET got == convertMinor(pay, p, r, rate)
        exact == pay * rate.mantissa * 10 ^ r
        unit == 10 ^ (p + rate.scale)
    IN got * unit <= exact /\ exact < (got + 1) * unit

\* A quote that was consumed was worth it: the maker's rate had moved from
\* the quoted one by less than one point more than the cap.
ConsumedNearTheMarket ==
  \A q \in DOMAIN quote :
    market[q] # None =>
      LET old == quote[q].answer.rate
          new == market[q]
          was == old.mantissa * 10 ^ new.scale
          is  == new.mantissa * 10 ^ old.scale
      IN /\ (is - was) * 10000 < (SlippageCap + 1) * was
         /\ (was - is) * 10000 < (SlippageCap + 1) * was

\* The foreign rail is owed what the transfers that were not refused have
\* promised, out of the nostro account of that currency; the originators owe
\* these transfers, and the first legs of those refused half-way.
BooksTellTheTransfers ==
  LET live == {t \in Transfers : tx[t].xb \notin {"ABSENT", "REJECTED"}}
      half == {t \in Transfers : tx[t].xb = "ABSENT" /\ tx[t].legs = 1}
      owed == SumFunctionOnSet([t \in Transfers |-> tx[t].receive], live)
      debt == SumFunctionOnSet([t \in Transfers |-> tx[t].pay], live \cup half)
  IN balance = [PARTICIPANT_SETTLEMENT |-> -debt, FX_NOSTRO_PAY |-> debt,
                FX_NOSTRO_RECEIVE |-> -owed, FOREIGN_RAIL_NOSTRO |-> owed]

\* The comment on the coordinator: before the commit it throws, and the
\* orchestrator rolls back.  So a transfer that was refused there has posted
\* no leg, and holds no quote.
NothingOfARefusedTransfer ==
  \A t \in Transfers :
    tx[t].state = "REJECTED" /\ tx[t].xb = "ABSENT" =>
      /\ tx[t].legs = 0
      /\ \A q \in DOMAIN quote : quote[q].by # t

=============================================================================
