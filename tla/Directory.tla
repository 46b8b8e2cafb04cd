------------------------------ MODULE Directory ------------------------------
(***************************************************************************)
(* The directory of accounts (modules/directory): an account is registered *)
(* under an active participant, frozen, unfrozen and closed for good.      *)
(*                                                                         *)
(* A handler reads the row without locking it and updates it by its        *)
(* number, whatever its status has become.                                 *)
(***************************************************************************)
CONSTANTS Accounts, Contents, Calls, None

VARIABLES
  account,      \* rows of accounts
  active,       \* whether the participant is; changed by the onboarding
  call,         \* handlers between their read and their write
  overwritten   \* history: accounts of which a status was written over one
                \* that the writer had not read

dvars == <<account, active, call, overwritten>>

Statuses == {"absent", "active", "frozen", "closed"}

Account == [status : Statuses, content : Contents \cup {None}, closedAt : BOOLEAN]

Handler == [op : {"none", "register", "freeze", "unfreeze", "close"},
            on : Accounts \cup {None}, content : Contents \cup {None}, saw : Statuses]

NoAccount == [status |-> "absent", content |-> None, closedAt |-> FALSE]
Idle == [op |-> "none", on |-> None, content |-> None, saw |-> "absent"]

DInit ==
  /\ account = [a \in Accounts |-> NoAccount]
  /\ active = FALSE
  /\ call = [c \in Calls |-> Idle]
  /\ overwritten = {}

Reads(c, op, a, content) ==
  /\ call[c] = Idle
  /\ call' = [call EXCEPT ![c] =
                [op |-> op, on |-> a, content |-> content, saw |-> account[a].status]]
  /\ UNCHANGED <<account, active, overwritten>>

Ends(c) == call' = [call EXCEPT ![c] = Idle]

register(c, a, content) == active /\ Reads(c, "register", a, content)

\* A row that is there is answered when its content is the same, and refused
\* otherwise; neither changes it.  The participant is not looked at again.
insertOnConflictReturn(c) ==
  LET a == call[c].on IN
  /\ call[c].op = "register"
  /\ account' = IF account[a] # NoAccount THEN account
                ELSE [account EXCEPT ![a] = [status |-> "active", content |-> call[c].content,
                                             closedAt |-> FALSE]]
  /\ Ends(c)
  /\ UNCHANGED <<active, overwritten>>

freeze(c, a) == account[a].status = "active" /\ Reads(c, "freeze", a, None)

\* Mutant: a closed account is unfrozen too.
UnfreezableAny == {"frozen", "closed"}

Unfreezable == {"frozen"}

unfreeze(c, a) == account[a].status \in Unfreezable /\ Reads(c, "unfreeze", a, None)

\* A second close answers the row as it is.
close(c, a) == account[a].status \in {"active", "frozen"} /\ Reads(c, "close", a, None)

Written(op) == CASE op = "freeze" -> "frozen" [] op = "unfreeze" -> "active" [] OTHER -> "closed"

setStatus(c) ==
  LET a == call[c].on IN
  /\ call[c].op \in {"freeze", "unfreeze", "close"}
  /\ account' = [account EXCEPT ![a].status = Written(call[c].op),
                                ![a].closedAt = @ \/ call[c].op = "close"]
  /\ overwritten' = IF account[a].status = call[c].saw THEN overwritten ELSE overwritten \cup {a}
  /\ Ends(c)
  /\ UNCHANGED active

Fails(c) ==
  /\ call[c] # Idle
  /\ Ends(c)
  /\ UNCHANGED <<account, active, overwritten>>

ParticipantChanges ==
  /\ active' = ~active
  /\ UNCHANGED <<account, call, overwritten>>

DNext ==
  \/ \E c \in Calls, a \in Accounts :
       \/ \E content \in Contents : register(c, a, content)
       \/ freeze(c, a) \/ unfreeze(c, a) \/ close(c, a)
  \/ \E c \in Calls : insertOnConflictReturn(c) \/ setStatus(c) \/ Fails(c)
  \/ ParticipantChanges

-----------------------------------------------------------------------------

DTypeOK ==
  /\ account \in [Accounts -> Account]
  /\ active \in BOOLEAN
  /\ call \in [Calls -> Handler]
  /\ overwritten \subseteq Accounts

\* An account that has a closing date is closed, and keeps its content: only a
\* freeze or an unfreeze that had read it before brings it back.
ClosedStaysUnlessOverwritten ==
  \A a \in Accounts \ overwritten : account[a].closedAt <=> account[a].status = "closed"

=============================================================================
