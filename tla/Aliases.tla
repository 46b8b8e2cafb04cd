------------------------------- MODULE Aliases -------------------------------
(***************************************************************************)
(* Aliases (modules/aliases): a phone number, an e-mail address, a         *)
(* national id card or a merchant number stands for an account.  An alias  *)
(* is registered, verified, ported to another account and revoked.         *)
(*                                                                         *)
(* Values are taken in their normal form.  There is one value per type     *)
(* here, so that the unique index over the active rows is one per type.    *)
(* No handler locks what it reads.                                         *)
(***************************************************************************)
EXTENDS Naturals, FiniteSets, FiniteSetsExt

CONSTANTS AliasIds, Accounts, Requests, Calls, None,
          ALIAS_TYPES,
          MaxChallenges,        \* bound of the instance
          OTP_MAX_ATTEMPTS

VARIABLES
  alias,        \* rows of aliases
  challenge,    \* rows of alias_verification_challenges, in their order
  port,         \* rows of alias_portability_requests
  call,         \* handlers between their reads and their writes
  cooling,      \* aliases ported less than COOLING_PERIOD_MS ago
  ported,       \* history: the request completed last, by alias
  early,        \* history: requests that had passed the test of the cooling
                \* period, open or about to be, when their alias was ported
  overtaken     \* history: aliases of a request that was completed twice

avars == <<alias, challenge, port, call, cooling, ported, early, overtaken>>

Challenges == 1 .. MaxChallenges

Statuses == {"absent", "pending", "verified", "revoked"}

Alias == [type : ALIAS_TYPES \cup {None}, status : Statuses, account : Accounts \cup {None}]

Challenge == [of : AliasIds \cup {None}, attempts : 0 .. OTP_MAX_ATTEMPTS + Cardinality(Calls),
              open : BOOLEAN, past : BOOLEAN]

Port == [of : AliasIds \cup {None}, to : Accounts \cup {None},
         status : {"absent", "pending", "completed"}, past : BOOLEAN]

Handler == [op : {"none", "wrong", "verify", "port", "allowed", "consent"},
            on : AliasIds \cup {None}, by : Challenges \cup Requests \cup {None},
            to : Accounts \cup {None}]

NoAlias == [type |-> None, status |-> "absent", account |-> None]
NoChallenge == [of |-> None, attempts |-> 0, open |-> FALSE, past |-> FALSE]
NoPort == [of |-> None, to |-> None, status |-> "absent", past |-> FALSE]
Idle == [op |-> "none", on |-> None, by |-> None, to |-> None]

Init ==
  /\ alias = [a \in AliasIds |-> NoAlias]
  /\ challenge = [n \in Challenges |-> NoChallenge]
  /\ port = [r \in Requests |-> NoPort]
  /\ call = [c \in Calls |-> Idle]
  /\ cooling = {}
  /\ ported = [a \in AliasIds |-> None]
  /\ early = {}
  /\ overtaken = {}

-----------------------------------------------------------------------------

Active(a) == alias[a].status \in {"pending", "verified"}

\* The unique index over the active rows of a value.
MayBeActive(a, type) == \A b \in AliasIds \ {a} : Active(b) => alias[b].type # type

\* A merchant number is not verified; a handle is never.
initialStatusFor(type) == IF type = "MERCHANT" THEN "verified" ELSE "pending"

\* A second registration for the same account finds the row, one for another
\* account is refused.
register(a, type, account) ==
  /\ alias[a].status = "absent"
  /\ MayBeActive(a, type)
  /\ alias' = [alias EXCEPT ![a] = [type |-> type, status |-> initialStatusFor(type),
                                    account |-> account]]
  /\ UNCHANGED <<challenge, port, call, cooling, ported, early, overtaken>>

revoke(a) ==
  /\ Active(a)
  /\ alias' = [alias EXCEPT ![a].status = "revoked"]
  /\ UNCHANGED <<challenge, port, call, cooling, ported, early, overtaken>>

\* startOtp and startEmailLink.
Starts(a, n) ==
  /\ alias[a].type \in {"PHONE", "EMAIL"} /\ alias[a].status = "pending"
  /\ challenge[n].of = None /\ \A m \in 1 .. n - 1 : challenge[m].of # None
  /\ challenge' = [challenge EXCEPT ![n] = [NoChallenge EXCEPT !.of = a, !.open = TRUE]]
  /\ UNCHANGED <<alias, port, call, cooling, ported, early, overtaken>>

ChallengePasses(n) ==
  /\ challenge[n].open /\ ~challenge[n].past
  /\ challenge' = [challenge EXCEPT ![n].past = TRUE]
  /\ UNCHANGED <<alias, port, call, cooling, ported, early, overtaken>>

\* The newest challenge that is not consumed: when it is, an older one is
\* active again.
OpenFor(a) == {n \in Challenges : challenge[n].open /\ challenge[n].of = a}

Takes(c, op, a, by) ==
  /\ call[c] = Idle
  /\ call' = [call EXCEPT ![c] = [op |-> op, on |-> a, by |-> by, to |-> None]]

MayGuess(n) == ~challenge[n].past /\ challenge[n].attempts < OTP_MAX_ATTEMPTS

\* Neither looks at whether the alias is still pending: a revoked one may be
\* verified.
preCheck(c, a) ==
  /\ alias[a].type \in {"PHONE", "EMAIL"} /\ alias[a].status \in {"pending", "revoked"}
  /\ OpenFor(a) # {}
  /\ LET n == Max(OpenFor(a)) IN
       \/ /\ MayGuess(n) \/ (alias[a].type = "EMAIL" /\ ~challenge[n].past)
          /\ Takes(c, "verify", a, n)
          /\ UNCHANGED challenge
       \/ /\ alias[a].type = "PHONE" /\ MayGuess(n)
          /\ Takes(c, "wrong", a, n)
          /\ UNCHANGED challenge
       \/ /\ alias[a].type = "PHONE" /\ ~MayGuess(n)
          /\ challenge' = [challenge EXCEPT ![n].open = FALSE]
          /\ UNCHANGED call
  /\ UNCHANGED <<alias, port, cooling, ported, early, overtaken>>

\* A wrong password is counted, though the call fails; a wrong token is
\* counted in a transaction that its failure rolls back.
incrementAttempts(c) ==
  LET n == call[c].by IN
  /\ call[c].op = "wrong"
  /\ challenge' = [challenge EXCEPT ![n].attempts = @ + 1,
                     ![n].open = @ /\ challenge[n].attempts + 1 < OTP_MAX_ATTEMPTS]
  /\ call' = [call EXCEPT ![c] = Idle]
  /\ UNCHANGED <<alias, port, cooling, ported, early, overtaken>>

verifyGhanacard(c, a) ==
  /\ alias[a].type = "GHANACARD" /\ alias[a].status \in {"pending", "revoked"}
  /\ Takes(c, "verify", a, None)
  /\ UNCHANGED <<alias, challenge, port, cooling, ported, early, overtaken>>

setVerified(c) ==
  LET a == call[c].on IN
  /\ call[c].op = "verify"
  /\ call' = [call EXCEPT ![c] = Idle]
  /\ IF MayBeActive(a, alias[a].type)
       THEN /\ alias' = [alias EXCEPT ![a].status = "verified"]
            /\ challenge' = IF call[c].by = None THEN challenge
                            ELSE [challenge EXCEPT ![call[c].by].open = FALSE]
       ELSE UNCHANGED <<alias, challenge>>
  /\ UNCHANGED <<port, cooling, ported, early, overtaken>>

-----------------------------------------------------------------------------
(* Portability.                                                            *)

\* initiate reads the alias; its request is r from here on.
initiate(c, r, a, to) ==
  /\ port[r].status = "absent" /\ \A d \in Calls : call[d].by # r
  /\ alias[a].status = "verified" /\ alias[a].account # to
  /\ call[c] = Idle
  /\ call' = [call EXCEPT ![c] = [op |-> "port", on |-> a, by |-> r, to |-> to]]
  /\ UNCHANGED <<alias, challenge, port, cooling, ported, early, overtaken>>

\* Mutant: the completed requests of the alias are not looked at.
MayPortHot(a) == a \in AliasIds

MayPort(a) == a \notin cooling

\* The read of the request completed last, which locks nothing.
lastCompletedRequest(c) ==
  /\ call[c].op = "port"
  /\ MayPort(call[c].on)
  /\ call' = [call EXCEPT ![c].op = "allowed"]
  /\ UNCHANGED <<alias, challenge, port, cooling, ported, early, overtaken>>

\* After the account was looked up and the password sent, neither the alias
\* nor the cooling period is looked at again.
insertRequest(c) ==
  LET r == call[c].by IN
  /\ call[c].op = "allowed"
  /\ port' = [port EXCEPT ![r] = [of |-> call[c].on, to |-> call[c].to, status |-> "pending",
                                  past |-> FALSE]]
  /\ call' = [call EXCEPT ![c] = Idle]
  /\ UNCHANGED <<alias, challenge, cooling, ported, early, overtaken>>

\* A port too soon, to an account that is not active or not there, or one
\* whose password is not sent, is refused, and its request is never written.
PortRefused(c) ==
  /\ call[c].op \in {"port", "allowed"}
  /\ call' = [call EXCEPT ![c] = Idle]
  /\ early' = early \ {call[c].by}
  /\ UNCHANGED <<alias, challenge, port, cooling, ported, overtaken>>

\* A late consent is refused; the state expired, written with the refusal, is
\* rolled back.
ConsentPasses(r) ==
  /\ port[r].status = "pending" /\ ~port[r].past
  /\ port' = [port EXCEPT ![r].past = TRUE]
  /\ UNCHANGED <<alias, challenge, call, cooling, ported, early, overtaken>>

consent(c, r) ==
  /\ port[r].status = "pending" /\ ~port[r].past
  /\ Takes(c, "consent", port[r].of, r)
  /\ UNCHANGED <<alias, challenge, port, cooling, ported, early, overtaken>>

\* Mutant: the request is completed and the alias left where it was.
updateAccountOf(r) == UNCHANGED alias

\* Neither the alias nor the cooling period is looked at again.
updateAccount(r) == alias' = [alias EXCEPT ![port[r].of].account = port[r].to]

Moves(c) ==
  LET r == call[c].by
      a == call[c].on IN
  /\ call[c].op = "consent"
  /\ updateAccount(r)
  /\ port' = [port EXCEPT ![r].status = "completed"]
  /\ cooling' = cooling \cup {a}
  /\ ported' = [ported EXCEPT ![a] = IF port[r].status = "pending" THEN r ELSE @]
  /\ overtaken' = IF port[r].status = "pending" THEN overtaken ELSE overtaken \cup {a}
  /\ early' = early \cup {q \in Requests : port[q].of = a /\ port[q].status = "pending"}
                    \cup {call[d].by : d \in {e \in Calls : call[e].op = "allowed" /\ call[e].on = a}}
  /\ call' = [call EXCEPT ![c] = Idle]
  /\ UNCHANGED challenge

CoolingEnds(a) ==
  /\ a \in cooling
  /\ cooling' = cooling \ {a}
  /\ UNCHANGED <<alias, challenge, port, call, ported, early, overtaken>>

Next ==
  \/ \E a \in AliasIds, type \in ALIAS_TYPES, account \in Accounts : register(a, type, account)
  \/ \E a \in AliasIds : revoke(a) \/ CoolingEnds(a)
  \/ \E a \in AliasIds, n \in Challenges : Starts(a, n)
  \/ \E n \in Challenges : ChallengePasses(n)
  \/ \E c \in Calls, a \in AliasIds : preCheck(c, a) \/ verifyGhanacard(c, a)
  \/ \E c \in Calls, r \in Requests, a \in AliasIds, to \in Accounts : initiate(c, r, a, to)
  \/ \E c \in Calls : lastCompletedRequest(c) \/ insertRequest(c) \/ PortRefused(c)
  \/ \E r \in Requests : ConsentPasses(r) \/ \E c \in Calls : consent(c, r)
  \/ \E c \in Calls : incrementAttempts(c) \/ setVerified(c) \/ Moves(c)

-----------------------------------------------------------------------------

TypeOK ==
  /\ alias \in [AliasIds -> Alias]
  /\ challenge \in [Challenges -> Challenge]
  /\ port \in [Requests -> Port]
  /\ call \in [Calls -> Handler]
  /\ cooling \subseteq AliasIds
  /\ ported \in [AliasIds -> Requests \cup {None}]
  /\ early \subseteq Requests
  /\ overtaken \subseteq AliasIds

\* An alias stands for the account of the port completed last, whatever was
\* requested and consented to in between, unless one consent ran twice.
AliasFollowsPorts ==
  \A a \in AliasIds \ overtaken :
    ported[a] # None => alias[a].account = port[ported[a]].to

\* A request that is open for a cooling alias, and so may still move it, was
\* tested before the alias was ported last: whoever looks at the cooling
\* period while it runs is refused.  Requests that were open by then, or that
\* had been tested and were inserted later, do get through.
OnlyEarlyRequestsMoveCooling ==
  \A r \in Requests :
    port[r].status = "pending" /\ port[r].of \in cooling => r \in early

=============================================================================
