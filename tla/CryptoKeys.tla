------------------------------ MODULE CryptoKeys ------------------------------
(***************************************************************************)
(* Signing keys (modules/crypto-keys): the rail and every participant own  *)
(* keys, of which the active ones sign.  A key is added, the active ones   *)
(* of an owner are rotated out by a new one, and a key is revoked.         *)
(*                                                                         *)
(* Key material is not modelled.  Kids are numbered in the order in which  *)
(* they are activated.                                                     *)
(***************************************************************************)
EXTENDS Naturals, FiniteSets

CONSTANTS Codes, Rail,          \* owners: the participants and the rail
          MaxKeys,              \* bound of the instance
          KeyCalls, None

VARIABLES
  key,          \* rows of signing_keys
  keyCall,      \* handlers between a read and their commit
  doubled       \* history: owners to whom a key was added beside one that the
                \* caller did not look for, or did not see

kvars == <<key, keyCall, doubled>>

Kids == 1 .. MaxKeys
Owners == Codes \cup {Rail}

Key == [owner : Owners \cup {None}, status : {"absent", "active", "rotated", "revoked"}]

KeyHandler == [op : {"none", "rotate", "ensure"}, owner : Owners \cup {None}, saw : SUBSET Kids]

NoKey == [owner |-> None, status |-> "absent"]
NoHandler == [op |-> "none", owner |-> None, saw |-> {}]

KInit ==
  /\ key = [k \in Kids |-> NoKey]
  /\ keyCall = [c \in KeyCalls |-> NoHandler]
  /\ doubled = {}

listActive(o) == {k \in Kids : key[k].owner = o /\ key[k].status = "active"}

NextKid(k) == key[k] = NoKey /\ \A j \in 1 .. k - 1 : key[j] # NoKey

\* The row of an owner's new key, while the keys in gone leave.
insertNewKey(o, k, gone, saw) ==
  /\ NextKid(k)
  /\ key' = [j \in Kids |->
       IF j = k THEN [owner |-> o, status |-> "active"]
       ELSE IF j \in gone THEN [key[j] EXCEPT !.status = "rotated"]
       ELSE key[j]]
  /\ doubled' = IF listActive(o) \subseteq saw THEN doubled \ {o} ELSE doubled \cup {o}

generateForOwner(o, k) == insertNewKey(o, k, {}, {}) /\ UNCHANGED keyCall

HandlerReads(c, op, o) ==
  /\ keyCall[c] = NoHandler
  /\ keyCall' = [keyCall EXCEPT ![c] = [op |-> op, owner |-> o, saw |-> listActive(o)]]
  /\ UNCHANGED <<key, doubled>>

\* The update sees the rows that were active when it started; of those it
\* waited for, it skips the ones that are not active any more.
rotate(c, o) == HandlerReads(c, "rotate", o)

\* At the start of every server process.
ensureRailKey(c) == HandlerReads(c, "ensure", Rail)

\* Mutant: the newest of the keys in use alone is rotated out.
RotatesNewest(c) ==
  {k \in keyCall[c].saw \cap listActive(keyCall[c].owner) : \A j \in keyCall[c].saw : j <= k}

RotatedOut(c) == keyCall[c].saw \cap listActive(keyCall[c].owner)

KeyCommits(c, k) ==
  /\ \/ /\ keyCall[c].op = "rotate"
        /\ insertNewKey(keyCall[c].owner, k, RotatedOut(c), keyCall[c].saw)
     \/ /\ keyCall[c].op = "ensure" /\ keyCall[c].saw = {}
        /\ insertNewKey(Rail, k, {}, {})
  /\ keyCall' = [keyCall EXCEPT ![c] = NoHandler]

\* A handler that dies, and ensureRailKey when there is a key.
KeyCallEnds(c) ==
  /\ keyCall[c] # NoHandler
  /\ keyCall' = [keyCall EXCEPT ![c] = NoHandler]
  /\ UNCHANGED <<key, doubled>>

revoke(k) ==
  /\ key[k].status \in {"active", "rotated"}
  /\ key' = [key EXCEPT ![k].status = "revoked"]
  /\ UNCHANGED <<keyCall, doubled>>

KNext ==
  \/ \E o \in Owners, k \in Kids : generateForOwner(o, k)
  \/ \E c \in KeyCalls : (\E o \in Owners : rotate(c, o)) \/ ensureRailKey(c) \/ KeyCallEnds(c)
  \/ \E c \in KeyCalls, k \in Kids : KeyCommits(c, k)
  \/ \E k \in Kids : revoke(k)

-----------------------------------------------------------------------------

KTypeOK ==
  /\ key \in [Kids -> Key]
  /\ keyCall \in [KeyCalls -> KeyHandler]
  /\ doubled \subseteq Owners

\* Of an owner's keys one is active: rotate leaves the new one alone, unless a
\* key was added by hand or by a handler that overlapped.
OneActiveKeyUnlessDoubled ==
  \A o \in Owners \ doubled : Cardinality(listActive(o)) <= 1

=============================================================================
