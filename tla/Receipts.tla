------------------------------ MODULE Receipts ------------------------------
(***************************************************************************)
(* Receipts of confirmed payments (modules/transaction-receipts): one for  *)
(* the originator and one for the beneficiary, signed with a key of the    *)
(* rail, in the database transaction that confirms the payment.  The key   *)
(* is looked up on another connection, and by each signature once more, so *)
(* that it may be rotated out or revoked in between.                       *)
(*                                                                         *)
(* A signature is the key it was made with.                                *)
(***************************************************************************)
EXTENDS CryptoKeys

CONSTANTS Payments, Issuers

VARIABLES
  confirmed,    \* payments, as committed
  receipt,      \* rows of transaction_receipts, as committed
  issuer        \* open transactions that confirm a payment

rvars == <<confirmed, receipt, issuer>>

Parties == {"ORIGINATOR", "BENEFICIARY"}
Issuer == [on : Payments \cup {None}, kid : Kids \cup {None},
           signed : [Parties -> Kids \cup {None}]]

Unsigned == [p \in Parties |-> None]
NoIssuer == [on |-> None, kid |-> None, signed |-> Unsigned]

RInit ==
  /\ KInit
  /\ confirmed = {}
  /\ receipt = [t \in Payments |-> Unsigned]
  /\ issuer = [i \in Issuers |-> NoIssuer]

\* The credit leg or the recovery has an answer; the row is locked, and a
\* payment is confirmed once.
Confirms(i, t) ==
  /\ issuer[i] = NoIssuer
  /\ t \notin confirmed /\ \A j \in Issuers : issuer[j].on # t
  /\ issuer' = [issuer EXCEPT ![i].on = t]
  /\ UNCHANGED <<confirmed, receipt, kvars>>

\* listActive has the newest first.
Newest == {k \in listActive(Rail) : \A j \in listActive(Rail) : j <= k}

findRailKid(i) ==
  /\ issuer[i].on # None /\ issuer[i].kid = None
  /\ \E k \in Newest : issuer' = [issuer EXCEPT ![i].kid = k]
  /\ UNCHANGED <<confirmed, receipt, kvars>>

\* Mutant: the key is looked up for each receipt.
KidFor(i) == Newest

KidOf(i) == {issuer[i].kid}

\* sign and insert, for the originator first; sign wants the key active.
issueReceiptsOnClient(i, party) ==
  /\ issuer[i].kid # None /\ issuer[i].signed[party] = None
  /\ party = "BENEFICIARY" => issuer[i].signed["ORIGINATOR"] # None
  /\ \E k \in KidOf(i) :
       /\ key[k].status = "active"
       /\ issuer' = [issuer EXCEPT ![i].signed[party] = k]
  /\ UNCHANGED <<confirmed, receipt, kvars>>

Commits(i) ==
  /\ issuer[i].signed["BENEFICIARY"] # None
  /\ confirmed' = confirmed \cup {issuer[i].on}
  /\ receipt' = [receipt EXCEPT ![issuer[i].on] = issuer[i].signed]
  /\ issuer' = [issuer EXCEPT ![i] = NoIssuer]
  /\ UNCHANGED kvars

\* No key, a key that is not active any more, or any other failure: the
\* payment is not confirmed.
RollsBack(i) ==
  /\ issuer[i] # NoIssuer
  /\ issuer' = [issuer EXCEPT ![i] = NoIssuer]
  /\ UNCHANGED <<confirmed, receipt, kvars>>

RNext ==
  \/ \E i \in Issuers :
       \/ \E t \in Payments : Confirms(i, t)
       \/ findRailKid(i)
       \/ \E p \in Parties : issueReceiptsOnClient(i, p)
       \/ Commits(i)
       \/ RollsBack(i)
  \/ KNext /\ UNCHANGED rvars

-----------------------------------------------------------------------------

\* getByKid: keys that were rotated out or revoked still verify.
verify(k) == key[k].owner = Rail

RTypeOK ==
  /\ KTypeOK
  /\ confirmed \subseteq Payments
  /\ receipt \in [Payments -> [Parties -> Kids \cup {None}]]
  /\ issuer \in [Issuers -> Issuer]

\* There is no time at which a payment is confirmed and lacks a receipt, both
\* are signed with one key, and they verify whatever becomes of the key.
ReceiptsComeInPairs ==
  \A t \in Payments :
    LET signers == {receipt[t][p] : p \in Parties} IN
    IF t \in confirmed THEN \E k \in Kids : signers = {k} /\ verify(k)
    ELSE signers = {None}

=============================================================================
