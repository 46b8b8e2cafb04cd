----------------------------- MODULE MCServices -----------------------------
(***************************************************************************)
(* The services around the payments for TLC: who takes part, what is       *)
(* asked before a payment goes on, and what is kept and compared after.    *)
(* They share no row that matters here, so that a behaviour is one of one  *)
(* service, which the initial state chooses; the variables of the others   *)
(* stay as they are.  A variable or a constant that two services have is   *)
(* renamed for one of them.                                                *)
(***************************************************************************)
EXTENDS Integers, FiniteSets, Sequences, TLC

CONSTANTS None, Things, Callers, Two, Codes,
          Rail, MaxKeys, KYB_DOC_TYPES, CERT_SUITES,        \* keys and participants
          ALIAS_TYPES, MaxChallenges, OTP_MAX_ATTEMPTS,     \* aliases
          Rules, MaxSchedules, MaxTime,                     \* routing and fees
          Amounts, DailyCap, MonthlyCap,                    \* authorization
          Processes, Subjects, Entries, Direct, Strong, Blocking, CACHE_TTL,   \* screening
          Hits, Cap, Knowing,                               \* the portal
          Weights, MaxPayments,                             \* fraud and the graph
          Dates, Day, Cases, MaxRows, MaxJournals,          \* hash chains
          Runs, Deviations,                                 \* reconciliation
          Answers, Asked, Sent, PayDigits, ReceiveDigits, SlippageCap, MaxQuotes    \* prices

ASSUME OwnersAssumption == Rail \notin Codes /\ None \notin Codes \cup {Rail} \cup 1 .. MaxKeys
ASSUME BoundsAssumption == MaxKeys \in Nat /\ MaxRows \in Nat /\ MaxJournals \in Nat \ {0}
ASSUME ReconciliationAssumption ==
  /\ IsFiniteSet(Things)
  /\ Deviations \subseteq {"missing", "amount", "state", "phantom"}
  /\ None \notin {"MISSING_AT_PARTICIPANT", "MISSING_AT_RAIL", "AMOUNT_MISMATCH", "STATUS_MISMATCH"}

ASSUME AliasesAssumption ==
  IsFiniteSet(Callers) /\ MaxChallenges \in Nat /\ OTP_MAX_ATTEMPTS \in Nat
ASSUME RoutingAssumption ==
  IsFiniteSet(Rules) /\ \A r \in Rules : r.priority \in Int /\ r.pattern \in Seq(Nat)
ASSUME FeesAssumption == MaxSchedules \in Nat /\ MaxTime \in Nat /\ None \notin Nat
ASSUME ChecksAssumption ==
  /\ IsFiniteSet(Things) /\ None \notin Things
  /\ Amounts \subseteq Nat \ {0} /\ DailyCap \in Nat /\ MonthlyCap \in Nat
ASSUME ScreeningAssumption == CACHE_TTL \in Nat /\ MaxTime \in Nat
ASSUME PortalAssumption == IsFiniteSet(Hits) /\ Cap \in Nat
ASSUME GraphAssumption == IsFiniteSet(Codes) /\ None \notin Things /\ MaxPayments \in Nat
ASSUME FxAssumption == IsFiniteSet(Things) /\ Sent \subseteq Nat \X Nat /\ MaxQuotes \in Nat

VARIABLES
  service,
  key, keyCall, doubled, participant, kyb, cert, call, overwritten, reviewed, passed,
  confirmed, receipt, issuer,
  alias, challenge, port, aliasCall, cooling, ported, early, overtaken,
  account, active, accountCall, rewritten,
  rules, cache, ruleCall, quiet,
  schedule, publisher, now, unseen,
  stored, status, session, missed,
  minute, entry, memory, payment, screen, screening,
  rule, approval, inForce,
  payments, edge, scan, alert,
  recent, past, request, comments,
  row, writer, overlapped,
  tx, run, breaks, moved, feigned,
  maker, quote, transfer, balance, market

-----------------------------------------------------------------------------
(* Who takes part.                                                         *)

Joining == INSTANCE Onboarding WITH KeyCalls <- Callers, Calls <- Callers

Alias == INSTANCE Aliases WITH
  AliasIds <- Codes, Accounts <- Things, Requests <- Two, Calls <- Callers, call <- aliasCall

Accts == INSTANCE Directory WITH
  Accounts <- Things, Contents <- Two, Calls <- Callers,
  call <- accountCall, overwritten <- rewritten

Routes == INSTANCE Routing WITH
  Processes <- Things, Calls <- Callers, call <- ruleCall

Tariff == INSTANCE Fees WITH
  Pairs <- Codes, Publishers <- Callers, overlapped <- unseen

-----------------------------------------------------------------------------
(* What is asked before a payment goes on.                                 *)

Limits == INSTANCE Authorization WITH
  Txs <- Things, E2Es <- Two, Accounts <- Codes, Sessions <- Callers,
  tx <- stored, account <- status, overlapped <- missed

Watch == INSTANCE Screening WITH
  Payments <- Codes, now <- minute, cache <- memory

Portal == INSTANCE DisputePortal

Fraud == INSTANCE FraudRules WITH Users <- Things, Calls <- Callers, call <- approval

Graph == INSTANCE MuleRings WITH Accounts <- Things \cup Codes, Amounts <- {20, 21}

-----------------------------------------------------------------------------
(* What is kept and compared after.                                        *)

Chain == INSTANCE HashChain WITH Writers <- Callers

Recon == INSTANCE Reconciliation WITH Txs <- Things

Receipt == INSTANCE Receipts WITH KeyCalls <- Callers, Payments <- Things, Issuers <- Callers

Fx == INSTANCE FxBooks WITH Transfers <- Things, Amounts <- Asked, tx <- transfer

Naming == INSTANCE Names

-----------------------------------------------------------------------------
(* What only definitions can give TLC.                                     *)

Bin(pattern, code, priority) ==
  [type |-> "BIN", pattern |-> pattern, code |-> code, priority |-> priority]
TwoRules == {Bin(<<1>>, "A", 1), Bin(<<1, 2>>, "B", 1)}
Tables == SUBSET {Bin(<<1>>, "A", 1), Bin(<<1, 2>>, "B", 2), Bin(<<1, 2, 3>>, "C", 1),
                  Bin(<<2>>, "A", 1)}
Values == {<<1>>, <<1, 2, 3, 4>>, <<2>>}

Tier(from, to, fee, bps) == [from |-> from, to |-> to, fee |-> fee, bps |-> bps]
TierLists ==
  {<<Tier(0, 99, 5, None), Tier(100, None, None, 50)>>,
   <<Tier(0, 100, 5, None), Tier(200, 300, None, 10000), Tier(301, None, 7, None)>>,
   <<Tier(0, 9999, None, 0), Tier(10000, None, 3, 3)>>}
Schedules ==
  [type : {"FLAT", "PERCENTAGE"}, flat : {0, 3, 500}, bps : {0, 1, 50, 10000}, tiers : {<< >>},
   min : {0, 2, 10}, max : {None, 0, 5, 1000}]
  \cup [type : {"TIERED"}, flat : {0}, bps : {0}, tiers : TierLists, min : {0, 2, 10},
        max : {None, 5}]
Charged == {0, 1, 50, 99, 100, 101, 150, 200, 300, 9999, 10000, 19999, 123456}

SameAccount == {<<"listed", "entry">>}
SimilarName == {<<"named", "entry">>}

Known(n, b, f, a, m, g, h) ==
  [lastHour |-> n, lastDay |-> 5 * n, beneficiaries |-> b, first |-> f, amount |-> a, max |-> m,
   young |-> (m = 0), age |-> g, officeHours |-> 90, hour |-> h, agent |-> FALSE,
   simSwapped |-> FALSE, flag |-> 0, sanctioned |-> FALSE, watched |-> FALSE, mule |-> FALSE]
Contexts ==
  {Known(n, b, f, a, m, g, h) :
     n \in {0, 3}, b \in {0, 3}, f \in BOOLEAN, a \in {1000, 500000, 1000000}, m \in {0, 100000},
     g \in {10, 100}, h \in {2, 23}}
Thresholds == {[UNIVERSAL |-> u, GHANA |-> g] : u, g \in {60, 80}}

Rate(mantissa, scale) == [mantissa |-> mantissa, scale |-> scale]
Answer(rate, feePay, feeReceive) == [rate |-> rate, feePay |-> feePay, feeReceive |-> feeReceive]
Rates == {Rate(1, 0), Rate(75, 0), Rate(1542, 2), Rate(155, 1), Rate(7, 3)}
ThreeAnswers == {Answer(Rate(1542, 2), 0, 0), Answer(Rate(155, 1), 0, 0), Answer(Rate(15499, 3), 1, 1)}
TwoEnvelopes == {<<100, 15>>, <<7, 0>>}

\* Words: a short one, two that begin alike, one with two letters swapped,
\* and two with nothing in common with these or with one another.
Words == {<<1>>, <<1, 2, 3>>, <<1, 3, 2>>, <<1, 2, 3, 4, 4, 5>>, <<6, 7>>, <<8, 8, 8>>}
TypedNames == {<<v>> : v \in Words} \cup {<<v, w>> : v, w \in Words}
              \cup {<<u, v, w>> : u \in {<<1>>, <<6, 7>>}, v \in {<<1, 2, 3>>}, w \in {<<8, 8, 8>>}}

-----------------------------------------------------------------------------

ownKeys == <<key, keyCall, doubled>>
ownJoining == <<participant, kyb, cert, call, overwritten, reviewed, passed>>
ownReceipts == <<confirmed, receipt, issuer>>
ownAliases == <<alias, challenge, port, aliasCall, cooling, ported, early, overtaken>>
ownDirectory == <<account, active, accountCall, rewritten>>
ownRouting == <<rules, cache, ruleCall, quiet>>
ownFees == <<schedule, publisher, now, unseen>>
ownLimits == <<stored, status, session, missed>>
ownWatch == <<minute, entry, memory, payment, screen, screening>>
ownFraud == <<rule, approval, inForce>>
ownGraph == <<payments, edge, scan, alert>>
ownPortal == <<recent, past, request, comments>>
ownChains == <<row, writer, overlapped>>
ownRecon == <<tx, run, breaks, moved, feigned>>
ownFx == <<maker, quote, transfer, balance, market>>
allvars == <<service, ownKeys, ownJoining, ownReceipts, ownAliases, ownDirectory, ownRouting, ownFees,
             ownLimits, ownWatch, ownFraud, ownGraph, ownPortal, ownChains, ownRecon, ownFx>>

UInit ==
  /\ service \in {"keys", "onboarding", "receipts", "aliases", "directory", "routing", "fees",
                  "authorization", "sanctions", "fraud", "graph", "portal", "chains",
                  "reconciliation", "fx"}
  /\ Joining!Init /\ Receipt!RInit /\ Alias!Init /\ Accts!DInit /\ Routes!RInit /\ Tariff!FInit
  /\ Limits!AInit /\ Watch!SInit /\ Fraud!RInit /\ Graph!MInit /\ Portal!Init /\ Chain!HInit
  /\ Recon!CInit /\ Fx!FInit
  /\ service # "fx" => maker = (CHOOSE answer \in Answers : TRUE)

\* Participants and receipts do with a key less.
FewKeys == key'[MaxKeys] = key[MaxKeys]

Steps ==
  \/ service = "keys" /\ Joining!KNext
  \/ service = "onboarding" /\ Joining!Next /\ FewKeys /\ keyCall' = keyCall
  \/ service = "receipts" /\ Receipt!RNext /\ FewKeys
  \/ service = "aliases" /\ Alias!Next
  \/ service = "directory" /\ Accts!DNext
  \/ service = "routing" /\ Routes!RNext
  \/ service = "fees" /\ Tariff!FNext
  \/ service = "authorization" /\ Limits!ANext
  \/ service = "sanctions" /\ Watch!SNext
  \/ service = "fraud" /\ Fraud!RNext
  \/ service = "graph" /\ Graph!MNext
  \/ service = "portal" /\ Portal!Next
  \/ service = "chains" /\ Chain!HNext
  \/ service = "reconciliation" /\ Recon!CNext
  \/ service = "fx" /\ Fx!FNext

\* What the services that do not run have stays as it is.
OthersRest ==
  /\ service \notin {"keys", "onboarding", "receipts"} => UNCHANGED ownKeys
  /\ service # "onboarding" => UNCHANGED ownJoining
  /\ service # "receipts" => UNCHANGED ownReceipts
  /\ service # "aliases" => UNCHANGED ownAliases
  /\ service # "directory" => UNCHANGED ownDirectory
  /\ service # "routing" => UNCHANGED ownRouting
  /\ service # "fees" => UNCHANGED ownFees
  /\ service # "authorization" => UNCHANGED ownLimits
  /\ service # "sanctions" => UNCHANGED ownWatch
  /\ service # "fraud" => UNCHANGED ownFraud
  /\ service # "graph" => UNCHANGED ownGraph
  /\ service # "portal" => UNCHANGED ownPortal
  /\ service # "chains" => UNCHANGED ownChains
  /\ service # "reconciliation" => UNCHANGED ownRecon
  /\ service # "fx" => UNCHANGED ownFx

UNext == UNCHANGED service /\ Steps /\ OthersRest

USpec == UInit /\ [][UNext]_allvars

\* Who is who does not matter.
Symmetry == Permutations(Things) \cup Permutations(Callers)

-----------------------------------------------------------------------------

\* An alias belongs to the account that it was moved to last, and a closed
\* account stays closed, whatever overlapping calls had read before.
RegistersFollowTheirHistory ==
  /\ service = "aliases" =>
       Alias!TypeOK /\ Alias!AliasFollowsPorts /\ Alias!OnlyEarlyRequestsMoveCooling
  /\ service = "directory" => Accts!DTypeOK /\ Accts!ClosedStaysUnlessOverwritten

\* Who is active had its documents approved and its suites passed, who is
\* certified has a key, and of an owner's keys one is active.
OnlyExaminedTakePart ==
  /\ service = "onboarding" =>
       Joining!OTypeOK /\ Joining!CertifiedHasAKey /\ Joining!ActiveWasExamined
  /\ service \in {"keys", "onboarding"} => Joining!KTypeOK /\ Joining!OneActiveKeyUnlessDoubled

\* The schedule and the routes in use are those published last, and what they
\* yield for an amount or a number is what they say.  (What does not depend
\* on the state is evaluated in an initial one.)
TablesInUseAreThePublished ==
  /\ service = "fees" => Tariff!FTypeOK /\ Tariff!ChargedByTheNewest
  /\ service = "fees" /\ Tariff!FInit => Tariff!FeesAreAsScheduled(Schedules, Charged)
  /\ service = "routing" => Routes!RTypeOK /\ Routes!QuietCacheIsTheTable
  /\ service = "routing" /\ Routes!RInit => Routes!FirstIsBest(Tables, Values)

\* What lets a request through, caps, duplicates, watchlists and the limit of
\* the portal, knows of what was committed before, as far as calls do not
\* overlap.
ChecksKnowWhatWasCommitted ==
  /\ service = "authorization" =>
       /\ Limits!ATypeOK
       /\ Limits!CapsHoldButForOverlapped /\ Limits!OneOfEachIdButForOverlapped
  /\ service = "sanctions" => Watch!STypeOK /\ Watch!AnswersAreOfTheLastMinute
  /\ service = "portal" =>
       Portal!TypeOK /\ Portal!ServedWithinCap /\ Portal!CommentsAreServed

\* A fraud rule in force was checked by a second user; verdicts are monotone;
\* a scan finds the rings there are.
FraudIsJudgedByTheRules ==
  /\ service = "fraud" => Fraud!RTypeOK /\ Fraud!CheckedByAnotherUnlessReplaced
  /\ service = "fraud" /\ Fraud!RInit => Fraud!VerdictsGetNoMilder(Contexts, Thresholds)
  /\ service = "graph" => Graph!MTypeOK /\ Graph!QuietScanFindsTheRings

\* Hash chains that were not written twice at once verify, the breaks of a
\* reconciliation are where the two sides differ, a payment is confirmed
\* together with two receipts that verify, and the books tell what was
\* promised abroad.
TrailsAreTrue ==
  /\ service = "chains" => Chain!HTypeOK /\ Chain!ChainsVerifyUnlessOverlapped
  /\ service = "reconciliation" => Recon!CTypeOK /\ Recon!BreaksAreDeviations
  /\ service = "receipts" => Receipt!RTypeOK /\ Receipt!ReceiptsComeInPairs
  /\ service = "fx" => Fx!FTypeOK /\ Fx!BooksTellTheTransfers

\* Amounts are converted as they should be, a quote is used near its rate,
\* and whatever name a payer types is compared fairly with that of the
\* account.
PricesAndNamesAreFair ==
  /\ service = "fx" => Fx!ConsumedNearTheMarket
  /\ service = "fx" /\ Fx!FInit => Fx!ConvertsDown({0, 2, 3}, Rates, {1, 99, 123})
  /\ service = "directory" /\ Accts!DInit => Naming!NamesAreComparedFairly(TypedNames)

-----------------------------------------------------------------------------
(* Transfers abroad alone, and what a comment on the coordinator says of   *)
(* those that are refused.                                                 *)

FxSpec == UInit /\ service = "fx" /\ [][UNext]_allvars

NothingOfARefusedTransfer == Fx!NothingOfARefusedTransfer

=============================================================================
