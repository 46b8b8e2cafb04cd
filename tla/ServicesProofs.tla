--------------------------- MODULE ServicesProofs ---------------------------
(***************************************************************************)
(* Theorems about the services around the payments, for any participants,  *)
(* keys, rows, rules, schedules and callers: what each service keeps, and  *)
(* what its tables and rules yield for a payment.                          *)
(***************************************************************************)
EXTENDS MCServices, Sums, SequenceTheorems, NaturalsInduction, WellFoundedInduction

-----------------------------------------------------------------------------
(* Numbers.                                                                *)

\* A set of naturals has a least element, and one of bounded naturals a
\* largest.
LEMMA LeastOf ==
  ASSUME NEW S, S \subseteq Nat, S # {}
  PROVE  \E m \in S : \A y \in S : m <= y
<1>1. IsWellFoundedOn(OpToRel(<, Nat), Nat)
  BY NatLessThanWellFounded
<1>2. PICK x \in S : \A y \in S : ~ (<<y, x>> \in OpToRel(<, Nat))
  BY <1>1, WFMin
<1>3. ASSUME NEW y \in S PROVE x <= y
  <2>1. x \in Nat /\ y \in Nat
    OBVIOUS
  <2>2. y < x => <<y, x>> \in OpToRel(<, Nat)
    BY <2>1 DEF OpToRel
  <2>3. ~ (y < x)
    BY <1>2, <2>2, Zenon
  <2> QED BY <2>1, <2>3
<1> QED BY <1>3

LEMMA LargestOf ==
  ASSUME NEW n \in Nat, NEW S, S \subseteq 0 .. n, S # {}
  PROVE  \E m \in S : \A y \in S : m >= y
<1> DEFINE T == {n - x : x \in S}
<1>1. T \subseteq Nat /\ T # {}
  <2>1. \A x \in S : n - x \in Nat
    OBVIOUS
  <2> QED BY <2>1
<1>2. PICK x \in T : \A y \in T : x <= y
  <2> HIDE DEF T
  <2> QED BY <1>1, LeastOf
<1>3. PICK m \in S : x = n - m
  OBVIOUS
<1>4. ASSUME NEW y \in S PROVE m >= y
  <2>1. x <= n - y
    BY <1>2
  <2> QED BY <1>3, <2>1
<1> QED BY <1>4

-----------------------------------------------------------------------------
(* Signing keys.                                                           *)

Kids == 1 .. MaxKeys
Owners == Codes \cup {Rail}

LEMMA SameCount == ASSUME NEW S PROVE Joining!Cardinality(S) = Cardinality(S)
  BY DEF Joining!Cardinality, Cardinality

LEMMA KeyNames == Joining!Kids = Kids /\ Joining!Owners = Owners /\ None \notin Owners
  BY OwnersAssumption DEF Joining!Kids, Kids, Joining!Owners, Owners

\* Next to the property: a handler acts for an owner.
KeyInv ==
  /\ Joining!KTypeOK
  /\ Joining!OneActiveKeyUnlessDoubled
  /\ \A c \in Callers : keyCall[c].op # "none" => keyCall[c].owner \in Owners

\* A key once made keeps its owner.
OwnersStay == \A k \in Kids, o \in Owners : key[k].owner = o => key'[k].owner = o

LEMMA KidsAreFinite == \A S : S \subseteq Kids => IsFiniteSet(S)
<1>1. IsFiniteSet(1 .. MaxKeys)
  BY BoundsAssumption, FS_Interval
<1> QED BY <1>1, FS_Subset DEF Kids

LEMMA NoMore ==
  ASSUME NEW S, NEW T, S \subseteq T, T \subseteq Kids, Cardinality(T) <= 1
  PROVE  Cardinality(S) <= 1
<1>1. Cardinality(S) <= Cardinality(T)
  BY KidsAreFinite, FS_Subset
<1>2. Cardinality(S) \in Nat /\ Cardinality(T) \in Nat
  BY KidsAreFinite, FS_CardinalityType
<1> QED BY <1>1, <1>2

\* A new key of o is the only active one when what was active leaves or
\* nothing was; otherwise o is doubled.
LEMMA NewKeyInv ==
  ASSUME KeyInv, NEW o \in Owners, NEW k \in Kids, NEW gone, NEW saw,
         Joining!insertNewKey(o, k, gone, saw),
         gone = saw \cap Joining!listActive(o),
         \/ keyCall' = keyCall
         \/ \E c \in Callers : keyCall' = [keyCall EXCEPT ![c] = Joining!NoHandler]
  PROVE  KeyInv' /\ OwnersStay
<1>1. /\ key \in [Kids -> Joining!Key]
      /\ keyCall \in [Callers -> Joining!KeyHandler]
      /\ doubled \subseteq Owners
      /\ \A j \in Kids : key[j].status \in {"absent", "active", "rotated", "revoked"}
  BY KeyNames DEF KeyInv, Joining!KTypeOK, Joining!Key
<1>2. /\ key[k] = Joining!NoKey
      /\ key' = [j \in Kids |-> IF j = k THEN [owner |-> o, status |-> "active"]
                                ELSE IF j \in gone THEN [key[j] EXCEPT !.status = "rotated"]
                                ELSE key[j]]
      /\ doubled' = IF Joining!listActive(o) \subseteq saw THEN doubled \ {o} ELSE doubled \cup {o}
  BY KeyNames DEF Joining!insertNewKey, Joining!NextKid
<1>3. /\ key'[k] = [owner |-> o, status |-> "active"]
      /\ \A j \in Kids \ {k} :
           /\ key'[j].owner = key[j].owner
           /\ key'[j].status = IF j \in gone THEN "rotated" ELSE key[j].status
  BY <1>1, <1>2 DEF Joining!Key
<1>4. key' \in [Kids -> Joining!Key]
  <2>1. [owner |-> o, status |-> "active"] \in Joining!Key
    BY KeyNames DEF Joining!Key
  <2>2. \A j \in Kids : [key[j] EXCEPT !.status = "rotated"] \in Joining!Key
    BY <1>1 DEF Joining!Key
  <2> QED BY <1>1, <1>2, <2>1, <2>2
<1>5. OwnersStay
  BY <1>2, <1>3, KeyNames DEF OwnersStay, Joining!NoKey
<1>6. /\ keyCall' \in [Callers -> Joining!KeyHandler]
      /\ \A c \in Callers : keyCall'[c].op # "none" => keyCall'[c].owner \in Owners
  <2>1. Joining!NoHandler \in Joining!KeyHandler /\ Joining!NoHandler.op = "none"
    BY DEF Joining!NoHandler, Joining!KeyHandler
  <2> QED BY <1>1, <2>1 DEF KeyInv
<1>7. doubled' \subseteq Owners
  BY <1>1, <1>2
<1>8. ASSUME NEW p \in Owners \ doubled'
      PROVE  Cardinality(Joining!listActive(p)') <= 1
  <2>1. Joining!listActive(p) \subseteq Kids
    BY KeyNames DEF Joining!listActive
  <2>2. \A j \in Joining!listActive(p)' : j \in Kids /\ key'[j].owner = p /\ key'[j].status = "active"
    BY KeyNames DEF Joining!listActive
  <2>3. \A j \in Kids : key[j].owner = p /\ key[j].status = "active" => j \in Joining!listActive(p)
    BY KeyNames DEF Joining!listActive
  <2>4. CASE p = o
    <3>1. Joining!listActive(o) \subseteq gone
      BY <1>2, <1>8, <2>4
    <3>2. Joining!listActive(p)' \subseteq {k}
      BY <1>3, <2>2, <2>3, <2>4, <3>1
    <3>3. {k} \subseteq Kids /\ Cardinality({k}) = 1
      BY FS_Singleton
    <3> QED BY <3>2, <3>3, NoMore
  <2>5. CASE p # o
    <3>1. Joining!listActive(p)' \subseteq Joining!listActive(p)
      BY <1>3, <2>2, <2>3, <2>5
    <3>2. Cardinality(Joining!listActive(p)) <= 1
      BY <1>2, <1>8, <2>5, KeyNames, SameCount DEF KeyInv, Joining!OneActiveKeyUnlessDoubled
    <3> QED BY <2>1, <3>1, <3>2, NoMore
  <2> QED BY <2>4, <2>5
<1> QED
  BY <1>4, <1>5, <1>6, <1>7, <1>8, KeyNames, SameCount
  DEF KeyInv, Joining!KTypeOK, Joining!OneActiveKeyUnlessDoubled

LEMMA KeysInitInv == Joining!KInit => KeyInv
<1> SUFFICES ASSUME Joining!KInit PROVE KeyInv
  OBVIOUS
<1>1. /\ key = [k \in Kids |-> Joining!NoKey]
      /\ keyCall = [c \in Callers |-> Joining!NoHandler]
      /\ doubled = {}
  BY KeyNames DEF Joining!KInit
<1>2. Joining!KTypeOK /\ \A c \in Callers : keyCall[c].op = "none"
  BY <1>1, KeyNames DEF Joining!KTypeOK, Joining!Key, Joining!KeyHandler, Joining!NoKey, Joining!NoHandler
<1>3. \A o \in Owners : Joining!listActive(o) = {}
  BY <1>1, KeyNames DEF Joining!listActive, Joining!NoKey
<1>4. Joining!OneActiveKeyUnlessDoubled
  BY <1>3, KeyNames, SameCount, FS_EmptySet DEF Joining!OneActiveKeyUnlessDoubled
<1> QED BY <1>2, <1>4 DEF KeyInv

\* The steps that add no key.
LEMMA OldKeysInv ==
  ASSUME KeyInv, doubled' = doubled,
         key' \in [Kids -> Joining!Key],
         \A k \in Kids :
           /\ key'[k].owner = key[k].owner
           /\ key'[k].status = "active" => key[k].status = "active",
         keyCall' \in [Callers -> Joining!KeyHandler],
         \A c \in Callers : keyCall'[c].op # "none" => keyCall'[c].owner \in Owners
  PROVE  KeyInv' /\ OwnersStay
<1>1. ASSUME NEW p \in Owners \ doubled'
      PROVE  Cardinality(Joining!listActive(p)') <= 1
  <2>1. /\ Joining!listActive(p)' \subseteq Joining!listActive(p)
        /\ Joining!listActive(p) \subseteq Kids
    BY KeyNames DEF Joining!listActive
  <2>2. Cardinality(Joining!listActive(p)) <= 1
    BY <1>1, KeyNames, SameCount DEF KeyInv, Joining!OneActiveKeyUnlessDoubled
  <2> QED BY <2>1, <2>2, NoMore
<1>2. doubled' \subseteq Owners
  BY KeyNames DEF KeyInv, Joining!KTypeOK
<1>3. OwnersStay
  BY DEF OwnersStay
<1> QED
  BY <1>1, <1>2, <1>3, KeyNames, SameCount DEF KeyInv, Joining!KTypeOK, Joining!OneActiveKeyUnlessDoubled

LEMMA KeysStepInv ==
  ASSUME KeyInv, Joining!KNext
  PROVE  KeyInv' /\ OwnersStay
<1>0. /\ key \in [Kids -> Joining!Key]
      /\ keyCall \in [Callers -> Joining!KeyHandler]
      /\ \A c \in Callers : keyCall[c].op # "none" => keyCall[c].owner \in Owners
      /\ Joining!NoHandler \in Joining!KeyHandler /\ Joining!NoHandler.op = "none"
  BY KeyNames DEF KeyInv, Joining!KTypeOK, Joining!NoHandler, Joining!KeyHandler
<1>1. ASSUME NEW o \in Owners, NEW k \in Kids, Joining!generateForOwner(o, k)
      PROVE  KeyInv' /\ OwnersStay
  BY <1>1, NewKeyInv DEF Joining!generateForOwner
<1>2. ASSUME NEW c \in Callers, NEW o \in Owners, NEW op \in {"rotate", "ensure"},
             Joining!HandlerReads(c, op, o)
      PROVE  KeyInv' /\ OwnersStay
  <2>1. [op |-> op, owner |-> o, saw |-> Joining!listActive(o)] \in Joining!KeyHandler
    BY KeyNames DEF Joining!KeyHandler, Joining!listActive
  <2>2. /\ keyCall' = [keyCall EXCEPT ![c] = [op |-> op, owner |-> o, saw |-> Joining!listActive(o)]]
        /\ UNCHANGED <<key, doubled>>
    BY <1>2 DEF Joining!HandlerReads
  <2> QED BY <1>0, <2>1, <2>2, OldKeysInv
<1>3. ASSUME NEW c \in Callers, Joining!KeyCallEnds(c)
      PROVE  KeyInv' /\ OwnersStay
  BY <1>0, <1>3, OldKeysInv DEF Joining!KeyCallEnds
<1>4. ASSUME NEW c \in Callers, NEW k \in Kids, Joining!KeyCommits(c, k)
      PROVE  KeyInv' /\ OwnersStay
  <2>1. keyCall' = [keyCall EXCEPT ![c] = Joining!NoHandler]
    BY <1>4 DEF Joining!KeyCommits
  <2>2. PICK o, saw :
          /\ o \in Owners
          /\ Joining!insertNewKey(o, k, saw \cap Joining!listActive(o), saw)
    <3>1. CASE keyCall[c].op = "rotate"
      BY <1>0, <1>4, <3>1 DEF Joining!KeyCommits, Joining!RotatedOut
    <3>2. CASE keyCall[c].op # "rotate"
      <4>1. Joining!insertNewKey(Rail, k, {}, {}) /\ Rail \in Owners
        BY <1>4, <3>2 DEF Joining!KeyCommits, Owners
      <4>2. {} = {} \cap Joining!listActive(Rail)
        OBVIOUS
      <4> QED BY <4>1, <4>2
    <3> QED BY <3>1, <3>2
  <2> QED BY <2>1, <2>2, NewKeyInv
<1>5. ASSUME NEW k \in Kids, Joining!revoke(k)
      PROVE  KeyInv' /\ OwnersStay
  <2>1. /\ key' = [key EXCEPT ![k].status = "revoked"]
        /\ UNCHANGED <<keyCall, doubled>>
    BY <1>5 DEF Joining!revoke
  <2>2. /\ key' \in [Kids -> Joining!Key]
        /\ \A j \in Kids :
             /\ key'[j].owner = key[j].owner
             /\ key'[j].status = "active" => key[j].status = "active"
    BY <1>0, <2>1 DEF Joining!Key
  <2> QED BY <1>0, <2>1, <2>2, OldKeysInv
<1> QED
  BY <1>1, <1>2, <1>3, <1>4, <1>5, KeyNames
  DEF Joining!KNext, Joining!rotate, Joining!ensureRailKey, Owners

\* Receipts has the same keys.
LEMMA ReceiptKeys ==
  /\ Receipt!KInit <=> Joining!KInit
  /\ Receipt!KNext <=> Joining!KNext
  /\ Receipt!KTypeOK <=> Joining!KTypeOK
  /\ Receipt!Kids = Kids
  BY DEF Receipt!KInit, Joining!KInit, Receipt!KNext, Joining!KNext, Receipt!KTypeOK,
     Joining!KTypeOK, Receipt!Kids, Joining!Kids, Kids, Receipt!Owners, Joining!Owners,
     Receipt!Key, Joining!Key, Receipt!KeyHandler, Joining!KeyHandler, Receipt!NoKey,
     Joining!NoKey, Receipt!NoHandler, Joining!NoHandler, Receipt!listActive, Joining!listActive,
     Receipt!NextKid, Joining!NextKid, Receipt!insertNewKey, Joining!insertNewKey,
     Receipt!generateForOwner, Joining!generateForOwner, Receipt!HandlerReads,
     Joining!HandlerReads, Receipt!rotate, Joining!rotate, Receipt!ensureRailKey,
     Joining!ensureRailKey, Receipt!RotatedOut, Joining!RotatedOut, Receipt!KeyCommits,
     Joining!KeyCommits, Receipt!KeyCallEnds, Joining!KeyCallEnds, Receipt!revoke, Joining!revoke

-----------------------------------------------------------------------------
(* Onboarding.                                                             *)

HasKey(p) == \E k \in Kids : key[k].owner = p

\* What a participant must have to be in a status.
Deserved(is, p) ==
  /\ is \in {"certifying", "active", "suspended"} => HasKey(p) /\ p \in reviewed
  /\ is \in {"active", "suspended"} => p \in passed

\* What a handler may still rely on: the status that it read was deserved, and
\* so is the one that it is about to write, whatever has been written since.
Relies(h) ==
  h.op # "none" =>
    /\ h.on \in Codes
    /\ h.op = "upload" => h.arg \in KYB_DOC_TYPES
    /\ h.op = "cert" => h.arg \in CERT_SUITES /\ h.out \in {"pass", "fail"}
    /\ h.op \in {"gate", "key", "write"} =>
         h.arg \in Joining!ALLOWED_TRANSITIONS[h.from] /\ Deserved(h.from, h.on)
    /\ h.op = "key" => h.arg = "certifying" /\ h.on \in reviewed
    /\ h.op = "write" => Deserved(h.arg, h.on)

\* The documents are approved, or the suites pass, only while that is known.
Remembered ==
  \A p \in Codes : /\ Joining!allKybApproved(p) => p \in reviewed
                   /\ Joining!allCertsPassing(p) => p \in passed

JoiningInv ==
  /\ Joining!OTypeOK
  /\ \A p \in Codes : Deserved(participant[p], p)
  /\ \A c \in Callers : Relies(call[c])
  /\ Remembered

\* No step takes back a key, nor that the documents were approved or the
\* suites passed once.
Grows ==
  /\ OwnersStay
  /\ reviewed \subseteq reviewed' /\ passed \subseteq passed'

LEMMA DeservedStays ==
  ASSUME Grows, NEW is, NEW p \in Codes, Deserved(is, p)
  PROVE  Deserved(is, p)'
  BY DEF Grows, OwnersStay, Deserved, HasKey, Owners

LEMMA ReliesStays ==
  ASSUME Grows, NEW h, Relies(h)
  PROVE  Relies(h)'
<1>1. h.on \in reviewed => h.on \in reviewed'
  BY DEF Grows
<1> QED BY <1>1, DeservedStays DEF Relies

\* A step of one handler, or of none.
LEMMA JoiningStepInv ==
  ASSUME JoiningInv, Grows, (Joining!OTypeOK)', Remembered',
         \A p \in Codes : participant'[p] = participant[p] \/ Deserved(participant[p], p)',
         \A c \in Callers : call'[c] = call[c] \/ Relies(call[c])'
  PROVE  JoiningInv'
<1>1. ASSUME NEW p \in Codes
      PROVE  Deserved(participant[p], p)'
  <2>1. CASE participant'[p] = participant[p]
    <3>1. PICK is : is = participant[p]
      OBVIOUS
    <3>2. Deserved(is, p)'
      BY <3>1, DeservedStays DEF JoiningInv
    <3> QED BY <2>1, <3>1, <3>2 DEF Deserved
  <2> QED BY <2>1
<1>2. ASSUME NEW c \in Callers
      PROVE  Relies(call[c])'
  <2>1. CASE call'[c] = call[c]
    <3>1. PICK h : h = call[c]
      OBVIOUS
    <3>2. Relies(h)'
      BY <3>1, ReliesStays DEF JoiningInv
    <3> QED BY <2>1, <3>1, <3>2 DEF Relies, Deserved
  <2> QED BY <2>1
<1> QED BY <1>1, <1>2 DEF JoiningInv

\* What leaves documents and suites alone.
LEMMA RememberedStays ==
  ASSUME Remembered, UNCHANGED <<kyb, cert, reviewed, passed>>
  PROVE  Remembered'
  BY DEF Remembered, Joining!allKybApproved, Joining!allCertsPassing

LEMMA JoiningInitInv == Joining!OInit => JoiningInv
<1> SUFFICES ASSUME Joining!OInit PROVE JoiningInv
  OBVIOUS
<1>1. Joining!OTypeOK
  BY DEF Joining!OInit, Joining!OTypeOK, Joining!Idle, Joining!Handler, Joining!Statuses
<1>2. \A p \in Codes : Deserved(participant[p], p)
  BY DEF Joining!OInit, Deserved
<1>3. \A c \in Callers : Relies(call[c])
  BY DEF Joining!OInit, Joining!Idle, Relies
<1>4. Remembered
  BY DEF Joining!OInit, Remembered
<1> QED BY <1>1, <1>2, <1>3, <1>4 DEF JoiningInv

LEMMA IdleJoining ==
  /\ Joining!Idle \in Joining!Handler
  /\ Joining!Idle.op = "none"
  BY DEF Joining!Idle, Joining!Handler, Joining!Statuses

LEMMA KeyStepGrows ==
  ASSUME OwnersStay, UNCHANGED <<reviewed, passed>>
  PROVE  Grows
  BY DEF Grows

\* Reads: a handler takes up what it has read.
LEMMA TakesInv ==
  ASSUME JoiningInv, NEW c \in Callers, NEW h \in Joining!Handler,
         call' = [call EXCEPT ![c] = h], Relies(h),
         UNCHANGED <<key, participant, kyb, cert, overwritten, reviewed, passed>>
  PROVE  JoiningInv'
<1>1. Grows
  BY DEF Grows, OwnersStay
<1>2. (Joining!OTypeOK)'
  BY DEF JoiningInv, Joining!OTypeOK
<1>3. Relies(h)'
  BY <1>1, ReliesStays
<1>4. \A b \in Callers : call'[b] = IF b = c THEN h ELSE call[b]
  BY DEF JoiningInv, Joining!OTypeOK
<1>5. Relies(call[c])'
  BY <1>3, <1>4 DEF Relies, Deserved
<1>6. Remembered'
  BY RememberedStays DEF JoiningInv
<1> QED BY <1>1, <1>2, <1>4, <1>5, <1>6, JoiningStepInv

\* Writes: a handler ends.
LEMMA EndsInv ==
  ASSUME JoiningInv, NEW c \in Callers,
         call' = [call EXCEPT ![c] = Joining!Idle],
         Grows,
         participant' \in [Codes -> Joining!Statuses],
         kyb' \in [Codes -> [KYB_DOC_TYPES -> {"none", "unreviewed", "approved", "rejected"}]],
         cert' \in [Codes -> [CERT_SUITES -> {"none", "pass", "fail"}]],
         overwritten' \subseteq Codes, reviewed' \subseteq Codes, passed' \subseteq Codes, Remembered',
         \A p \in Codes : participant'[p] = participant[p] \/ Deserved(participant[p], p)'
  PROVE  JoiningInv'
<1>1. (Joining!OTypeOK)'
  BY IdleJoining DEF JoiningInv, Joining!OTypeOK
<1>2. \A b \in Callers : call'[b] = IF b = c THEN Joining!Idle ELSE call[b]
  BY DEF JoiningInv, Joining!OTypeOK
<1>3. Relies(call[c])'
  BY <1>2, IdleJoining DEF Relies
<1> QED BY <1>1, <1>2, <1>3, JoiningStepInv

\* setStatus by a handler whose new status is deserved.
LEMMA SetStatusInv ==
  ASSUME JoiningInv, NEW c \in Callers, Joining!setStatus(c, call[c].arg),
         call[c].on \in Codes, call[c].arg \in Joining!Statuses
  PROVE  /\ participant' \in [Codes -> Joining!Statuses]
         /\ overwritten' \subseteq Codes
         /\ \A p \in Codes \ {call[c].on} : participant'[p] = participant[p]
         /\ participant'[call[c].on] = call[c].arg
  BY DEF Joining!setStatus, JoiningInv, Joining!OTypeOK

LEMMA JoiningActionInv ==
  ASSUME JoiningInv, KeyInv, Joining!Next
  PROVE  JoiningInv'
<1>0. /\ participant \in [Codes -> Joining!Statuses]
      /\ kyb \in [Codes -> [KYB_DOC_TYPES -> {"none", "unreviewed", "approved", "rejected"}]]
      /\ cert \in [Codes -> [CERT_SUITES -> {"none", "pass", "fail"}]]
      /\ call \in [Callers -> Joining!Handler]
      /\ overwritten \subseteq Codes /\ reviewed \subseteq Codes /\ passed \subseteq Codes
      /\ Remembered
      /\ \A c \in Callers : Relies(call[c]) /\ call[c] \in Joining!Handler
  BY DEF JoiningInv, Joining!OTypeOK
<1>1. CASE Joining!KNext /\ UNCHANGED Joining!ovars
  <2>1. Grows /\ UNCHANGED <<participant, kyb, cert, call, overwritten, reviewed, passed>>
    BY <1>1, KeysStepInv, KeyStepGrows DEF Joining!ovars
  <2>2. (Joining!OTypeOK)'
    BY <1>0, <2>1 DEF Joining!OTypeOK
  <2> QED BY <1>0, <2>1, <2>2, RememberedStays, JoiningStepInv
<1>2. ASSUME NEW p \in Codes, Joining!create(p)
      PROVE  JoiningInv'
  <2>1. /\ participant' = [participant EXCEPT ![p] = "pending"]
        /\ UNCHANGED <<key, kyb, cert, call, overwritten, reviewed, passed>>
    BY <1>2 DEF Joining!create, Joining!kvars
  <2>2. Grows
    BY <2>1 DEF Grows, OwnersStay
  <2>3. (Joining!OTypeOK)'
    BY <1>0, <2>1 DEF Joining!OTypeOK, Joining!Statuses
  <2>4. \A q \in Codes : participant'[q] = participant[q] \/ Deserved(participant[q], q)'
    BY <1>0, <2>1 DEF Deserved
  <2> QED BY <1>0, <2>1, <2>2, <2>3, <2>4, RememberedStays, JoiningStepInv
<1>3. ASSUME NEW p \in Codes, NEW d \in KYB_DOC_TYPES, NEW s \in {"approved", "rejected"},
             Joining!reviewKyb(p, d, s)
      PROVE  JoiningInv'
  <2>1. /\ kyb' = [kyb EXCEPT ![p][d] = s]
        /\ reviewed' = reviewed \cup {q \in Codes : Joining!allKybApproved(q)'}
        /\ UNCHANGED <<key, participant, cert, call, overwritten, passed>>
    BY <1>3 DEF Joining!reviewKyb, Joining!kvars
  <2>2. Grows
    BY <1>0, <2>1 DEF Grows, OwnersStay
  <2>3. (Joining!OTypeOK)'
    BY <1>0, <2>1 DEF Joining!OTypeOK
  <2>4. Remembered'
    BY <1>0, <2>1 DEF Remembered, Joining!allCertsPassing
  <2> QED BY <2>1, <2>2, <2>3, <2>4, JoiningStepInv
<1>4. ASSUME NEW c \in Callers, NEW p \in Codes, NEW d \in KYB_DOC_TYPES, Joining!uploadKyb(c, p, d)
      PROVE  JoiningInv'
  <2>1. PICK h \in Joining!Handler :
          /\ h = [op |-> "upload", on |-> p, from |-> participant[p], arg |-> d, out |-> "none"]
          /\ call' = [call EXCEPT ![c] = h]
    <3>1. [op |-> "upload", on |-> p, from |-> participant[p], arg |-> d, out |-> "none"] \in Joining!Handler
      BY <1>0 DEF Joining!Handler
    <3> QED BY <1>4, <3>1 DEF Joining!uploadKyb, Joining!Takes
  <2>2. Relies(h)
    BY <2>1 DEF Relies
  <2> QED BY <1>4, <2>1, <2>2, TakesInv DEF Joining!uploadKyb, Joining!kvars
<1>5. ASSUME NEW c \in Callers, NEW p \in Codes, NEW s \in CERT_SUITES, Joining!runCertSuite(c, p, s)
      PROVE  JoiningInv'
  <2>1. PICK out \in Joining!Outcomes(s, p) : Joining!Takes(c, "cert", p, "absent", s, out)
    BY <1>5 DEF Joining!runCertSuite
  <2>2. out \in {"pass", "fail"}
    BY <2>1 DEF Joining!Outcomes
  <2>3. PICK h \in Joining!Handler :
          /\ h = [op |-> "cert", on |-> p, from |-> "absent", arg |-> s, out |-> out]
          /\ call' = [call EXCEPT ![c] = h]
    <3>1. [op |-> "cert", on |-> p, from |-> "absent", arg |-> s, out |-> out] \in Joining!Handler
      BY <2>2 DEF Joining!Handler, Joining!Statuses
    <3> QED BY <2>1, <3>1 DEF Joining!Takes
  <2>4. Relies(h)
    BY <2>2, <2>3 DEF Relies
  <2> QED BY <1>5, <2>3, <2>4, TakesInv DEF Joining!runCertSuite, Joining!kvars
<1>6. ASSUME NEW c \in Callers, NEW p \in Codes, NEW to \in Joining!Statuses, Joining!Asks(c, p, to)
      PROVE  JoiningInv'
  <2>1. PICK h \in Joining!Handler :
          /\ h = [op |-> "gate", on |-> p, from |-> participant[p], arg |-> to, out |-> "none"]
          /\ call' = [call EXCEPT ![c] = h]
    <3>1. [op |-> "gate", on |-> p, from |-> participant[p], arg |-> to, out |-> "none"] \in Joining!Handler
      BY <1>0 DEF Joining!Handler
    <3> QED BY <1>6, <3>1 DEF Joining!Asks, Joining!Takes
  <2>2. Relies(h)
    BY <1>6, <2>1 DEF Relies, Joining!Asks, JoiningInv
  <2> QED BY <1>6, <2>1, <2>2, TakesInv DEF Joining!Asks, Joining!kvars
<1>7. ASSUME NEW c \in Callers, Joining!upsertKybDoc(c)
      PROVE  JoiningInv'
  <2>1. PICK p \in Codes, d \in KYB_DOC_TYPES : p = call[c].on /\ d = call[c].arg
    BY <1>0, <1>7 DEF Joining!upsertKybDoc, Relies
  <2>2. /\ kyb' = [kyb EXCEPT ![p][d] = "unreviewed"]
        /\ UNCHANGED <<key, cert, reviewed, passed>>
        /\ call' = [call EXCEPT ![c] = Joining!Idle]
        /\ \/ UNCHANGED <<participant, overwritten>>
           \/ /\ participant' = [participant EXCEPT ![p] = "kyb"]
              /\ overwritten' = IF participant[p] = call[c].from THEN overwritten ELSE overwritten \cup {p}
    BY <1>7, <2>1 DEF Joining!upsertKybDoc, Joining!setStatus, Joining!Ends, Joining!kvars
  <2>3. Grows
    BY <1>0, <2>2 DEF Grows, OwnersStay
  <2>4. /\ participant' \in [Codes -> Joining!Statuses]
        /\ overwritten' \subseteq Codes
    BY <1>0, <2>2 DEF Joining!Statuses
  <2>5. \A q \in Codes : participant'[q] = participant[q] \/ Deserved(participant[q], q)'
    BY <1>0, <2>2 DEF Deserved
  <2>6. /\ kyb' \in [Codes -> [KYB_DOC_TYPES -> {"none", "unreviewed", "approved", "rejected"}]]
        /\ cert' \in [Codes -> [CERT_SUITES -> {"none", "pass", "fail"}]]
    BY <1>0, <2>2
  <2>7. Remembered'
    <3>1. \A q \in Codes : Joining!allKybApproved(q)' => Joining!allKybApproved(q)
      BY <1>0, <2>2 DEF Joining!allKybApproved
    <3> QED BY <1>0, <2>2, <3>1 DEF Remembered, Joining!allCertsPassing
  <2> QED BY <1>0, <2>2, <2>3, <2>4, <2>5, <2>6, <2>7, EndsInv
<1>8. ASSUME NEW c \in Callers, Joining!upsertCertResult(c)
      PROVE  JoiningInv'
  <2>1. PICK p \in Codes, s \in CERT_SUITES, out \in {"pass", "fail"} :
          p = call[c].on /\ s = call[c].arg /\ out = call[c].out
    BY <1>0, <1>8 DEF Joining!upsertCertResult, Relies
  <2>2. /\ cert' = [cert EXCEPT ![p][s] = out]
        /\ passed' = passed \cup {q \in Codes : Joining!allCertsPassing(q)'}
        /\ UNCHANGED <<key, kyb, participant, overwritten, reviewed>>
        /\ call' = [call EXCEPT ![c] = Joining!Idle]
    BY <1>8, <2>1 DEF Joining!upsertCertResult, Joining!Ends, Joining!kvars
  <2>3. Grows
    BY <1>0, <2>2 DEF Grows, OwnersStay
  <2>4. /\ kyb' \in [Codes -> [KYB_DOC_TYPES -> {"none", "unreviewed", "approved", "rejected"}]]
        /\ cert' \in [Codes -> [CERT_SUITES -> {"none", "pass", "fail"}]]
    BY <1>0, <2>2
  <2>5. Remembered'
    BY <1>0, <2>2 DEF Remembered, Joining!allKybApproved
  <2>6. passed' \subseteq Codes
    BY <1>0, <2>2
  <2> QED BY <1>0, <2>2, <2>3, <2>4, <2>5, <2>6, EndsInv
<1>9. ASSUME NEW c \in Callers, Joining!Gate(c)
      PROVE  JoiningInv'
  <2>1. PICK p, from, to :
          /\ p = call[c].on /\ from = call[c].from /\ to = call[c].arg
          /\ p \in Codes /\ from \in Joining!Statuses
          /\ to \in Joining!ALLOWED_TRANSITIONS[from]
          /\ Deserved(from, p)
    BY <1>0, <1>9 DEF Joining!Gate, Relies, Joining!Handler
  <2>2. /\ from = "kyb" /\ to = "certifying" => Joining!allKybApproved(p)
        /\ from = "certifying" /\ to = "active" => Joining!allCertsPassing(p)
    BY <1>9, <2>1 DEF Joining!Gate, Joining!Passes
  <2>3. /\ to = "certifying" => from = "kyb" /\ p \in reviewed
        /\ to = "active" => from \in {"certifying", "suspended"} /\ p \in reviewed /\ HasKey(p) /\ p \in passed
        /\ to = "suspended" => p \in reviewed /\ HasKey(p) /\ p \in passed
    <3>1. /\ Joining!allKybApproved(p) => p \in reviewed
          /\ Joining!allCertsPassing(p) => p \in passed
      BY <1>0, <2>1 DEF Remembered
    <3>2. /\ to = "certifying" => from = "kyb"
          /\ to = "active" => from \in {"certifying", "suspended"}
          /\ to = "suspended" => from = "active"
      BY <2>1 DEF Joining!ALLOWED_TRANSITIONS, Joining!Statuses
    <3> QED BY <2>1, <2>2, <3>1, <3>2 DEF Deserved
  <2>4. Joining!NeedsKey(c) <=> to = "certifying" /\ Joining!listActive(p) = {}
    BY <2>1 DEF Joining!NeedsKey
  <2>5. to = "certifying" /\ Joining!listActive(p) # {} => HasKey(p)
    BY KeyNames DEF Joining!listActive, HasKey
  <2>6. PICK h \in Joining!Handler :
          /\ h = [call[c] EXCEPT !.op = IF Joining!NeedsKey(c) THEN "key" ELSE "write"]
          /\ call' = [call EXCEPT ![c] = h]
    <3>1. [call[c] EXCEPT !.op = IF Joining!NeedsKey(c) THEN "key" ELSE "write"] \in Joining!Handler
      BY <1>0 DEF Joining!Handler
    <3> QED BY <1>9, <3>1 DEF Joining!Gate
  <2>7. /\ h.on = p /\ h.from = from /\ h.arg = to
        /\ h.op = IF Joining!NeedsKey(c) THEN "key" ELSE "write"
    BY <1>0, <2>1, <2>6 DEF Joining!Handler
  <2>8. Relies(h)
    BY <2>1, <2>3, <2>4, <2>5, <2>7 DEF Relies, Deserved
  <2> QED BY <1>9, <2>6, <2>8, TakesInv DEF Joining!Gate, Joining!kvars
<1>10. ASSUME NEW c \in Callers, Joining!Writes(c)
       PROVE  JoiningInv'
  <2>1. /\ call[c].on \in Codes /\ Deserved(call[c].arg, call[c].on)
        /\ call[c].arg \in Joining!ALLOWED_TRANSITIONS[call[c].from]
        /\ call[c].from \in Joining!Statuses
    BY <1>0, <1>10 DEF Joining!Writes, Relies, Joining!Handler
  <2>2. call[c].arg \in Joining!Statuses
    BY <2>1 DEF Joining!ALLOWED_TRANSITIONS, Joining!Statuses
  <2>3. /\ Joining!setStatus(c, call[c].arg)
        /\ call' = [call EXCEPT ![c] = Joining!Idle]
        /\ UNCHANGED <<key, kyb, cert, reviewed, passed>>
    BY <1>10 DEF Joining!Writes, Joining!Ends, Joining!kvars
  <2>4. Grows
    BY <2>3 DEF Grows, OwnersStay
  <2>5. PICK p, to : p = call[c].on /\ to = call[c].arg
    OBVIOUS
  <2>6. Deserved(to, p)'
    BY <2>1, <2>4, <2>5, DeservedStays
  <2>7. \A q \in Codes : participant'[q] = participant[q] \/ Deserved(participant[q], q)'
    BY <2>1, <2>2, <2>3, <2>5, <2>6, SetStatusInv DEF Deserved
  <2> QED BY <1>0, <2>1, <2>2, <2>3, <2>4, <2>7, RememberedStays, SetStatusInv, EndsInv
<1>11. ASSUME NEW c \in Callers, Joining!Fails(c)
       PROVE  JoiningInv'
  <2>1. /\ call' = [call EXCEPT ![c] = Joining!Idle]
        /\ UNCHANGED <<key, kyb, cert, participant, overwritten, reviewed, passed>>
    BY <1>11 DEF Joining!Fails, Joining!Ends, Joining!kvars
  <2>2. Grows
    BY <2>1 DEF Grows, OwnersStay
  <2> QED BY <1>0, <2>1, <2>2, RememberedStays, EndsInv
<1>12. ASSUME NEW c \in Callers, NEW k \in Kids, Joining!Provisions(c, k)
       PROVE  JoiningInv'
  <2>1. PICK p \in Codes : /\ p = call[c].on
                           /\ call[c].arg = "certifying" /\ p \in reviewed
                           /\ call[c].arg \in Joining!ALLOWED_TRANSITIONS[call[c].from]
                           /\ Deserved(call[c].from, p)
    BY <1>0, <1>12 DEF Joining!Provisions, Relies
  <2>2. /\ Joining!generateForOwner(p, k)
        /\ UNCHANGED <<participant, kyb, cert, overwritten, reviewed, passed>>
    BY <1>12, <2>1 DEF Joining!Provisions
  <2>3. OwnersStay /\ Grows
    <3>1. OwnersStay
      BY <2>1, <2>2, NewKeyInv DEF Joining!generateForOwner, Owners
    <3> QED BY <2>2, <3>1, KeyStepGrows
  <2>4. key'[k].owner = p
    BY <2>2, KeyNames DEF Joining!generateForOwner, Joining!insertNewKey
  <2>5. PICK h \in Joining!Handler :
          /\ h = [call[c] EXCEPT !.op = "write"]
          /\ call' = [call EXCEPT ![c] = h]
    <3>1. [call[c] EXCEPT !.op = "write"] \in Joining!Handler
      BY <1>0 DEF Joining!Handler
    <3> QED BY <1>12, <3>1 DEF Joining!Provisions
  <2>6. /\ h.on = p /\ h.arg = "certifying" /\ h.op = "write"
        /\ h.from = call[c].from
    BY <1>0, <2>1, <2>5 DEF Joining!Handler
  <2>7. p \in reviewed' /\ HasKey(p)'
    BY <2>1, <2>2, <2>4 DEF HasKey
  <2>8. Deserved(h.from, p)'
    BY <2>1, <2>3, <2>6, DeservedStays
  <2>9. Relies(h)'
    BY <2>1, <2>6, <2>7, <2>8 DEF Relies, Deserved
  <2>10. \A b \in Callers : call'[b] = IF b = c THEN h ELSE call[b]
    BY <1>0, <2>5
  <2>11. Relies(call[c])'
    BY <2>9, <2>10 DEF Relies, Deserved
  <2>12. (Joining!OTypeOK)'
    BY <1>0, <2>2, <2>5 DEF Joining!OTypeOK
  <2> QED BY <1>0, <2>2, <2>3, <2>10, <2>11, <2>12, RememberedStays, JoiningStepInv
<1> QED
  BY <1>1, <1>2, <1>3, <1>4, <1>5, <1>6, <1>7, <1>8, <1>9, <1>10, <1>11, <1>12, KeyNames
  DEF Joining!Next

-----------------------------------------------------------------------------
(* Receipts.                                                               *)

\* An open transaction signs with one key of the rail, for the originator
\* first, and is the only one of its payment.
IssuerOK(i) ==
  /\ issuer[i].kid # None => issuer[i].on # None /\ key[issuer[i].kid].owner = Rail
  /\ issuer[i].on # None => issuer[i].on \notin confirmed
  /\ issuer[i].on # None => \A j \in Callers \ {i} : issuer[j].on # issuer[i].on
  /\ \A p \in Receipt!Parties :
       issuer[i].signed[p] # None => issuer[i].kid # None /\ issuer[i].signed[p] = issuer[i].kid
  /\ issuer[i].signed["BENEFICIARY"] # None => issuer[i].signed["ORIGINATOR"] # None

ReceiptsInv ==
  /\ Receipt!RTypeOK
  /\ Receipt!ReceiptsComeInPairs
  /\ \A i \in Callers : IssuerOK(i)

\* What the rows of a payment show.
Paired(t) ==
  IF t \in confirmed
  THEN \E k \in Kids : key[k].owner = Rail /\ \A p \in Receipt!Parties : receipt[t][p] = k
  ELSE \A p \in Receipt!Parties : receipt[t][p] = None

LEMMA PairedMeans ==
  /\ Receipt!ReceiptsComeInPairs <=> \A t \in Things : Paired(t)
  /\ (Receipt!ReceiptsComeInPairs)' <=> \A t \in Things : Paired(t)'
<1>1. Receipt!Parties # {} /\ Receipt!Kids = Kids
  BY ReceiptKeys DEF Receipt!Parties
<1>2. ASSUME NEW f, NEW k
      PROVE  {f[p] : p \in Receipt!Parties} = {k} <=> \A p \in Receipt!Parties : f[p] = k
  BY <1>1
<1>3. \A t \in Things : \A k : {receipt[t][p] : p \in Receipt!Parties} = {k} <=> \A p \in Receipt!Parties : receipt[t][p] = k
  BY <1>2
<1>4. \A t \in Things : \A k : {receipt'[t][p] : p \in Receipt!Parties} = {k} <=> \A p \in Receipt!Parties : receipt'[t][p] = k
  BY <1>2
<1>5. Receipt!ReceiptsComeInPairs <=> \A t \in Things : Paired(t)
  BY <1>1, <1>3 DEF Receipt!ReceiptsComeInPairs, Receipt!verify, Paired
<1>6. (Receipt!ReceiptsComeInPairs)' <=> \A t \in Things : Paired(t)'
  BY <1>1, <1>4 DEF Receipt!ReceiptsComeInPairs, Receipt!verify, Paired
<1> QED BY <1>5, <1>6

LEMMA ReceiptsInitInv == Receipt!RInit => ReceiptsInv
<1> SUFFICES ASSUME Receipt!RInit PROVE ReceiptsInv
  OBVIOUS
<1>1. /\ KeyInv
      /\ confirmed = {}
      /\ receipt = [t \in Things |-> Receipt!Unsigned]
      /\ issuer = [i \in Callers |-> Receipt!NoIssuer]
  BY ReceiptKeys, KeysInitInv DEF Receipt!RInit
<1>2. Receipt!RTypeOK
  BY <1>1, ReceiptKeys
  DEF KeyInv, Receipt!RTypeOK, Receipt!Unsigned, Receipt!NoIssuer, Receipt!Issuer
<1>3. \A t \in Things : Paired(t)
  BY <1>1 DEF Paired, Receipt!Unsigned
<1>4. \A i \in Callers : IssuerOK(i)
  BY <1>1 DEF IssuerOK, Receipt!NoIssuer, Receipt!Unsigned, Receipt!Parties
<1> QED BY <1>2, <1>3, <1>4, PairedMeans DEF ReceiptsInv

\* A step of the keys leaves what was signed to verify.
LEMMA KeysKeepReceipts ==
  ASSUME ReceiptsInv, KeyInv', OwnersStay, UNCHANGED ownReceipts
  PROVE  ReceiptsInv'
<1>1. /\ UNCHANGED <<confirmed, receipt, issuer>>
      /\ \A k \in Kids : key[k].owner = Rail => key'[k].owner = Rail
  BY DEF ownReceipts, OwnersStay, Owners
<1>2. (Receipt!RTypeOK)'
  <2>1. (Receipt!KTypeOK)'
    BY DEF KeyInv, Joining!KTypeOK, Receipt!KTypeOK, Joining!Kids, Receipt!Kids, Joining!Owners,
       Receipt!Owners, Joining!Key, Receipt!Key, Joining!KeyHandler, Receipt!KeyHandler
  <2> QED BY <1>1, <2>1 DEF ReceiptsInv, Receipt!RTypeOK
<1>3. \A t \in Things : Paired(t)'
  BY <1>1, PairedMeans DEF ReceiptsInv, Paired
<1>4. ASSUME NEW i \in Callers
      PROVE  IssuerOK(i)'
  <2>1. issuer[i].kid # None => issuer[i].kid \in Kids
    BY ReceiptKeys DEF ReceiptsInv, Receipt!RTypeOK, Receipt!Issuer
  <2> QED BY <1>1, <2>1 DEF ReceiptsInv, IssuerOK
<1> QED BY <1>2, <1>3, <1>4, PairedMeans DEF ReceiptsInv

\* A step of one issuer that commits nothing.
LEMMA IssuerStepInv ==
  ASSUME ReceiptsInv, KeyInv, NEW i \in Callers, NEW r \in Receipt!Issuer,
         issuer' = [issuer EXCEPT ![i] = r],
         UNCHANGED <<key, keyCall, doubled, confirmed, receipt>>,
         r.kid # None => r.on # None /\ key[r.kid].owner = Rail,
         r.on # None => r.on \notin confirmed,
         r.on # None => \A j \in Callers \ {i} : issuer[j].on # r.on,
         \A p \in Receipt!Parties : r.signed[p] # None => r.kid # None /\ r.signed[p] = r.kid,
         r.signed["BENEFICIARY"] # None => r.signed["ORIGINATOR"] # None
  PROVE  ReceiptsInv'
<1>1. /\ issuer'[i] = r
      /\ \A j \in Callers \ {i} : issuer'[j] = issuer[j]
  BY DEF ReceiptsInv, Receipt!RTypeOK
<1>2. (Receipt!RTypeOK)'
  <2>1. (Receipt!KTypeOK)'
    BY DEF ReceiptsInv, Receipt!RTypeOK, Receipt!KTypeOK
  <2> QED BY <2>1 DEF ReceiptsInv, Receipt!RTypeOK
<1>3. \A t \in Things : Paired(t)'
  BY PairedMeans DEF ReceiptsInv, Paired
<1>4. \A j \in Callers : IssuerOK(j)'
  BY <1>1 DEF ReceiptsInv, IssuerOK
<1> QED BY <1>2, <1>3, <1>4, PairedMeans DEF ReceiptsInv

LEMMA ReceiptsStepInv ==
  ASSUME ReceiptsInv, KeyInv, Receipt!RNext
  PROVE  ReceiptsInv' /\ KeyInv'
<1>0. /\ \A i \in Callers : issuer[i] \in Receipt!Issuer /\ IssuerOK(i)
      /\ issuer \in [Callers -> Receipt!Issuer]
      /\ receipt \in [Things -> [Receipt!Parties -> Kids \cup {None}]]
      /\ confirmed \subseteq Things
  BY ReceiptKeys DEF ReceiptsInv, Receipt!RTypeOK
<1>k. ASSUME UNCHANGED <<key, keyCall, doubled>> PROVE KeyInv'
  BY <1>k DEF KeyInv, Joining!KTypeOK, Joining!OneActiveKeyUnlessDoubled, Joining!listActive
<1>1. CASE Receipt!KNext /\ UNCHANGED Receipt!rvars
  <2>1. KeyInv' /\ OwnersStay
    BY <1>1, ReceiptKeys, KeysStepInv
  <2> QED BY <1>1, <2>1, KeysKeepReceipts DEF Receipt!rvars, ownReceipts
<1>2. ASSUME NEW i \in Callers, NEW t \in Things, Receipt!Confirms(i, t)
      PROVE  ReceiptsInv' /\ KeyInv'
  <2> DEFINE r == [issuer[i] EXCEPT !.on = t]
  <2>1. /\ issuer[i] = Receipt!NoIssuer
        /\ issuer' = [issuer EXCEPT ![i] = r]
        /\ t \notin confirmed
        /\ \A j \in Callers : issuer[j].on # t
        /\ UNCHANGED <<key, keyCall, doubled, confirmed, receipt>>
    BY <1>2 DEF Receipt!Confirms, Receipt!kvars
  <2>2. /\ r \in Receipt!Issuer /\ r.on = t /\ r.kid = None
        /\ \A p \in Receipt!Parties : r.signed[p] = None
        /\ r.signed["BENEFICIARY"] = None
    BY <1>0, <2>1 DEF Receipt!Issuer, Receipt!NoIssuer, Receipt!Unsigned, Receipt!Parties
  <2> HIDE DEF r
  <2> QED BY <1>k, <2>1, <2>2, IssuerStepInv
<1>3. ASSUME NEW i \in Callers, Receipt!findRailKid(i)
      PROVE  ReceiptsInv' /\ KeyInv'
  <2>1. PICK k \in Kids :
          /\ key[k].owner = Rail
          /\ issuer' = [issuer EXCEPT ![i].kid = k]
          /\ issuer[i].on # None /\ issuer[i].kid = None
          /\ UNCHANGED <<key, keyCall, doubled, confirmed, receipt>>
    BY <1>3, ReceiptKeys DEF Receipt!findRailKid, Receipt!Newest, Receipt!listActive, Receipt!kvars
  <2> DEFINE r == [issuer[i] EXCEPT !.kid = k]
  <2>2. /\ r \in Receipt!Issuer /\ r.on = issuer[i].on /\ r.kid = k /\ r.signed = issuer[i].signed
    BY <1>0, ReceiptKeys DEF Receipt!Issuer
  <2>3. issuer' = [issuer EXCEPT ![i] = r]
    BY <2>1
  <2> HIDE DEF r
  <2>4. \A p \in Receipt!Parties : r.signed[p] = None
    BY <1>0, <2>1, <2>2 DEF IssuerOK
  <2>5. r.signed["BENEFICIARY"] = None
    BY <2>4 DEF Receipt!Parties
  <2>6. issuer[i].on \notin confirmed /\ \A j \in Callers \ {i} : issuer[j].on # issuer[i].on
    BY <1>0, <2>1 DEF IssuerOK
  <2>7. /\ r.kid # None => r.on # None /\ key[r.kid].owner = Rail
        /\ r.on # None => r.on \notin confirmed
        /\ r.on # None => \A j \in Callers \ {i} : issuer[j].on # r.on
        /\ \A p \in Receipt!Parties : r.signed[p] # None => r.kid # None /\ r.signed[p] = r.kid
    BY <2>1, <2>2, <2>4, <2>6
  <2>8. r \in Receipt!Issuer
    BY <2>2
  <2>9. ReceiptsInv'
    BY <2>1, <2>3, <2>5, <2>7, <2>8, IssuerStepInv
  <2> QED BY <1>k, <2>1, <2>9
<1>4. ASSUME NEW i \in Callers, NEW party \in Receipt!Parties, Receipt!issueReceiptsOnClient(i, party)
      PROVE  ReceiptsInv' /\ KeyInv'
  <2>1. PICK k :
          /\ k = issuer[i].kid /\ k # None
          /\ issuer' = [issuer EXCEPT ![i].signed[party] = k]
          /\ party = "BENEFICIARY" => issuer[i].signed["ORIGINATOR"] # None
          /\ UNCHANGED <<key, keyCall, doubled, confirmed, receipt>>
    BY <1>4 DEF Receipt!issueReceiptsOnClient, Receipt!KidOf, Receipt!kvars
  <2> DEFINE r == [issuer[i] EXCEPT !.signed[party] = k]
  <2>2. /\ r \in Receipt!Issuer /\ r.on = issuer[i].on /\ r.kid = k
        /\ r.signed = [issuer[i].signed EXCEPT ![party] = k]
        /\ issuer[i].signed \in [Receipt!Parties -> Kids \cup {None}]
    BY <1>0, <2>1, ReceiptKeys DEF Receipt!Issuer
  <2>3. issuer' = [issuer EXCEPT ![i] = r]
    BY <2>1
  <2> HIDE DEF r
  <2>4. \A p \in Receipt!Parties : r.signed[p] = IF p = party THEN k ELSE issuer[i].signed[p]
    BY <2>2
  <2>5. r.signed["BENEFICIARY"] # None => r.signed["ORIGINATOR"] # None
    BY <1>0, <2>1, <2>4 DEF IssuerOK, Receipt!Parties
  <2>6. /\ issuer[i].on # None /\ key[k].owner = Rail /\ issuer[i].on \notin confirmed
        /\ \A j \in Callers \ {i} : issuer[j].on # issuer[i].on
        /\ \A p \in Receipt!Parties : issuer[i].signed[p] # None => issuer[i].signed[p] = k
    BY <1>0, <2>1 DEF IssuerOK
  <2>7. /\ r.kid # None => r.on # None /\ key[r.kid].owner = Rail
        /\ r.on # None => r.on \notin confirmed
        /\ r.on # None => \A j \in Callers \ {i} : issuer[j].on # r.on
        /\ \A p \in Receipt!Parties : r.signed[p] # None => r.kid # None /\ r.signed[p] = r.kid
    BY <2>1, <2>2, <2>4, <2>6
  <2>8. r \in Receipt!Issuer
    BY <2>2
  <2>9. ReceiptsInv'
    BY <2>1, <2>3, <2>5, <2>7, <2>8, IssuerStepInv
  <2> QED BY <1>k, <2>1, <2>9
<1>5. ASSUME NEW i \in Callers, Receipt!RollsBack(i)
      PROVE  ReceiptsInv' /\ KeyInv'
  <2>1. /\ Receipt!NoIssuer \in Receipt!Issuer
        /\ Receipt!NoIssuer.on = None /\ Receipt!NoIssuer.kid = None
        /\ \A p \in Receipt!Parties : Receipt!NoIssuer.signed[p] = None
        /\ Receipt!NoIssuer.signed["BENEFICIARY"] = None
    BY DEF Receipt!NoIssuer, Receipt!Issuer, Receipt!Unsigned, Receipt!Parties
  <2>2. /\ issuer' = [issuer EXCEPT ![i] = Receipt!NoIssuer]
        /\ UNCHANGED <<key, keyCall, doubled, confirmed, receipt>>
    BY <1>5 DEF Receipt!RollsBack, Receipt!kvars
  <2> QED BY <1>k, <2>1, <2>2, IssuerStepInv
<1>6. ASSUME NEW i \in Callers, Receipt!Commits(i)
      PROVE  ReceiptsInv' /\ KeyInv'
  <2>1. PICK t, k :
          /\ t = issuer[i].on /\ k = issuer[i].kid
          /\ t \in Things /\ k \in Kids /\ key[k].owner = Rail
          /\ \A p \in Receipt!Parties : issuer[i].signed[p] = k
          /\ t \notin confirmed
          /\ t # None
    <3>1. issuer[i].signed["BENEFICIARY"] # None /\ issuer[i].signed["ORIGINATOR"] # None
      BY <1>0, <1>6 DEF Receipt!Commits, IssuerOK
    <3>2. \A p \in Receipt!Parties : issuer[i].signed[p] = issuer[i].kid
      BY <1>0, <3>1 DEF IssuerOK, Receipt!Parties
    <3>3. issuer[i].kid # None /\ issuer[i].on # None
      BY <1>0, <3>1 DEF IssuerOK, Receipt!Parties
    <3> QED BY <1>0, <3>2, <3>3, ReceiptKeys DEF IssuerOK, Receipt!Issuer
  <2>2. /\ confirmed' = confirmed \cup {t}
        /\ receipt' = [receipt EXCEPT ![t] = issuer[i].signed]
        /\ issuer' = [issuer EXCEPT ![i] = Receipt!NoIssuer]
        /\ UNCHANGED <<key, keyCall, doubled>>
    BY <1>6, <2>1 DEF Receipt!Commits, Receipt!kvars
  <2>3. (Receipt!RTypeOK)'
    <3>1. Receipt!NoIssuer \in Receipt!Issuer
      BY DEF Receipt!NoIssuer, Receipt!Issuer, Receipt!Unsigned
    <3>2. issuer[i].signed \in [Receipt!Parties -> Kids \cup {None}]
      BY <1>0, ReceiptKeys DEF Receipt!Issuer
    <3>3. (Receipt!KTypeOK)'
      BY <2>2 DEF ReceiptsInv, Receipt!RTypeOK, Receipt!KTypeOK
    <3> QED BY <1>0, <2>1, <2>2, <3>1, <3>2, <3>3, ReceiptKeys DEF Receipt!RTypeOK
  <2>4. ASSUME NEW u \in Things
        PROVE  Paired(u)'
    <3>1. CASE u = t
      BY <1>0, <2>1, <2>2, <3>1 DEF Paired
    <3>2. CASE u # t
      BY <1>0, <2>2, <3>2, PairedMeans DEF Paired, ReceiptsInv
    <3> QED BY <3>1, <3>2
  <2>5. ASSUME NEW j \in Callers
        PROVE  IssuerOK(j)'
    <3>1. CASE j = i
      BY <1>0, <2>2, <3>1 DEF IssuerOK, Receipt!NoIssuer, Receipt!Unsigned, Receipt!Parties
    <3>2. CASE j # i
      <4>1. issuer'[j] = issuer[j] /\ issuer[j].on # t
        BY <1>0, <2>1, <2>2, <3>2 DEF IssuerOK
      <4>2. \A l \in Callers \ {j} : issuer'[l].on = issuer[l].on \/ issuer'[l].on = None
        BY <1>0, <2>2 DEF Receipt!NoIssuer
      <4> QED BY <1>0, <2>2, <4>1, <4>2 DEF IssuerOK
    <3> QED BY <3>1, <3>2
  <2> QED BY <1>k, <2>2, <2>3, <2>4, <2>5, PairedMeans DEF ReceiptsInv
<1> QED BY <1>1, <1>2, <1>3, <1>4, <1>5, <1>6 DEF Receipt!RNext

-----------------------------------------------------------------------------
(* The directory of accounts.                                              *)

\* Next to the property: what a handler has read allows what it will write.
HandlerReads(h) ==
  /\ h.op # "none" => h.on \in Things
  /\ h.op = "register" => h.content \in Two
  /\ h.op = "freeze" => h.saw = "active"
  /\ h.op = "unfreeze" => h.saw = "frozen"
  /\ h.op = "close" => h.saw \in {"active", "frozen"}

DirectoryInv ==
  /\ Accts!DTypeOK
  /\ Accts!ClosedStaysUnlessOverwritten
  /\ \A c \in Callers : HandlerReads(accountCall[c])

LEMMA DirectoryInitInv == Accts!DInit => DirectoryInv
<1> SUFFICES ASSUME Accts!DInit PROVE DirectoryInv
  OBVIOUS
<1>1. Accts!DTypeOK
  BY DEF Accts!DInit, Accts!DTypeOK, Accts!NoAccount, Accts!Account, Accts!Statuses, Accts!Idle, Accts!Handler
<1>2. Accts!ClosedStaysUnlessOverwritten
  BY DEF Accts!DInit, Accts!NoAccount, Accts!ClosedStaysUnlessOverwritten
<1>3. \A c \in Callers : HandlerReads(accountCall[c])
  BY DEF Accts!DInit, Accts!Idle, HandlerReads
<1> QED BY <1>1, <1>2, <1>3 DEF DirectoryInv

LEMMA IdleReads == Accts!Idle \in Accts!Handler /\ HandlerReads(Accts!Idle)
  BY DEF Accts!Idle, Accts!Handler, Accts!Statuses, HandlerReads

LEMMA DirectoryReads ==
  ASSUME DirectoryInv, UNCHANGED <<account, rewritten>>, active' \in BOOLEAN,
         NEW c \in Callers, NEW h \in Accts!Handler, HandlerReads(h),
         accountCall' = [accountCall EXCEPT ![c] = h]
  PROVE  DirectoryInv'
<1>1. Accts!DTypeOK' /\ \A u \in Callers : accountCall'[u] = IF u = c THEN h ELSE accountCall[u]
  BY DEF DirectoryInv, Accts!DTypeOK
<1>2. Accts!ClosedStaysUnlessOverwritten'
  BY DEF DirectoryInv, Accts!ClosedStaysUnlessOverwritten
<1>3. \A u \in Callers : HandlerReads(accountCall'[u])
  BY <1>1 DEF DirectoryInv
<1> QED BY <1>1, <1>2, <1>3 DEF DirectoryInv, HandlerReads

LEMMA DirectoryStepInv == DirectoryInv /\ Accts!DNext => DirectoryInv'
<1> SUFFICES ASSUME DirectoryInv, Accts!DNext PROVE DirectoryInv'
  OBVIOUS
<1>0. /\ account \in [Things -> Accts!Account] /\ accountCall \in [Callers -> Accts!Handler]
      /\ active \in BOOLEAN /\ rewritten \subseteq Things
      /\ \A a \in Things : account[a].status \in Accts!Statuses /\ account[a].closedAt \in BOOLEAN
  BY DEF DirectoryInv, Accts!DTypeOK, Accts!Account
<1>1. ASSUME NEW c \in Callers, NEW a \in Things, NEW content \in Two \cup {None},
             NEW op \in {"register", "freeze", "unfreeze", "close"},
             Accts!Reads(c, op, a, content),
             op = "register" => content \in Two,
             op = "freeze" => account[a].status = "active",
             op = "unfreeze" => account[a].status = "frozen",
             op = "close" => account[a].status \in {"active", "frozen"}
      PROVE  DirectoryInv'
  <2> DEFINE h == [op |-> op, on |-> a, content |-> content, saw |-> account[a].status]
  <2>1. h \in Accts!Handler
    BY <1>0 DEF Accts!Handler
  <2>2. HandlerReads(h)
    BY <1>1 DEF HandlerReads
  <2>3. accountCall' = [accountCall EXCEPT ![c] = h] /\ UNCHANGED <<account, rewritten, active>>
    BY <1>1 DEF Accts!Reads
  <2> HIDE DEF h
  <2> QED BY <1>0, <2>1, <2>2, <2>3, DirectoryReads
<1>2. ASSUME NEW c \in Callers, NEW a \in Things,
             \/ \E content \in Two : Accts!register(c, a, content)
             \/ Accts!freeze(c, a) \/ Accts!unfreeze(c, a) \/ Accts!close(c, a)
      PROVE  DirectoryInv'
  BY <1>1, <1>2 DEF Accts!register, Accts!freeze, Accts!unfreeze, Accts!Unfreezable, Accts!close
<1>3. ASSUME NEW c \in Callers, Accts!insertOnConflictReturn(c) PROVE DirectoryInv'
  <2> DEFINE a == accountCall[c].on
             row1 == [status |-> "active", content |-> accountCall[c].content, closedAt |-> FALSE]
  <2>1. a \in Things /\ accountCall[c].content \in Two
    BY <1>3 DEF Accts!insertOnConflictReturn, DirectoryInv, HandlerReads
  <2>2. row1 \in Accts!Account
    BY <2>1 DEF Accts!Account, Accts!Statuses
  <2>3. /\ accountCall' = [accountCall EXCEPT ![c] = Accts!Idle] /\ active' = active /\ rewritten' = rewritten
        /\ account' = account \/ account' = [account EXCEPT ![a] = row1]
    BY <1>3 DEF Accts!insertOnConflictReturn, Accts!Ends
  <2>4. CASE account' = account
    BY <1>0, <2>3, <2>4, IdleReads, DirectoryReads
  <2>5. CASE account' = [account EXCEPT ![a] = row1]
    <3>1. Accts!DTypeOK'
      BY <1>0, <2>2, <2>3, <2>5, IdleReads DEF Accts!DTypeOK
    <3>2. \A b \in Things : account'[b] = IF b = a THEN row1 ELSE account[b]
      BY <1>0, <2>5
    <3>3. row1.status = "active" /\ row1.closedAt = FALSE
      OBVIOUS
    <3> HIDE DEF row1
    <3>4. Accts!ClosedStaysUnlessOverwritten'
      BY <2>3, <3>2, <3>3 DEF DirectoryInv, Accts!ClosedStaysUnlessOverwritten
    <3>5. \A u \in Callers : HandlerReads(accountCall'[u])
      BY <1>0, <2>3, IdleReads DEF DirectoryInv
    <3> QED BY <3>1, <3>4, <3>5 DEF DirectoryInv, HandlerReads
  <2> QED BY <2>3, <2>4, <2>5
<1>4. ASSUME NEW c \in Callers, Accts!setStatus(c) PROVE DirectoryInv'
  <2> DEFINE h == accountCall[c]
             a == h.on
             closed == account[a].closedAt \/ h.op = "close"
             row1 == [account[a] EXCEPT !.status = Accts!Written(h.op), !.closedAt = closed]
  <2>1. h.op \in {"freeze", "unfreeze", "close"} /\ a \in Things /\ HandlerReads(h)
    BY <1>4 DEF Accts!setStatus, DirectoryInv, HandlerReads
  <2>2. /\ Accts!Written(h.op) = "closed" <=> h.op = "close"
        /\ Accts!Written(h.op) \in Accts!Statuses
    BY <2>1 DEF Accts!Written, Accts!Statuses
  <2>3. account[a] \in Accts!Account /\ closed \in BOOLEAN
    BY <1>0, <2>1
  <2>4. row1 \in Accts!Account /\ row1.status = Accts!Written(h.op) /\ row1.closedAt = closed
    BY <2>2, <2>3 DEF Accts!Account
  <2>5. /\ accountCall' = [accountCall EXCEPT ![c] = Accts!Idle] /\ active' = active
        /\ account' = [account EXCEPT ![a] = row1]
        /\ rewritten' = IF account[a].status = h.saw THEN rewritten ELSE rewritten \cup {a}
    BY <1>4, <2>1, <1>0 DEF Accts!setStatus, Accts!Ends
  <2>6. Accts!DTypeOK'
    <3> HIDE DEF row1, h, a
    <3> QED BY <1>0, <2>1, <2>4, <2>5, IdleReads DEF Accts!DTypeOK
  <2>7. \A b \in Things : account'[b] = IF b = a THEN row1 ELSE account[b]
    <3> HIDE DEF row1
    <3> QED BY <1>0, <2>5
  <2>8. Accts!ClosedStaysUnlessOverwritten'
    <3> SUFFICES ASSUME NEW b \in Things, b \notin rewritten' PROVE account'[b].closedAt <=> account'[b].status = "closed"
      BY DEF Accts!ClosedStaysUnlessOverwritten
    <3>1. b \notin rewritten /\ (account[b].closedAt <=> account[b].status = "closed")
      BY <2>5 DEF DirectoryInv, Accts!ClosedStaysUnlessOverwritten
    <3>2. CASE b # a
      BY <2>7, <3>1, <3>2
    <3>3. CASE b = a
      <4>1. account[a].status = h.saw
        BY <2>5, <3>3
      <4>2. account[a].closedAt = FALSE
        BY <1>0, <2>1, <3>1, <3>3, <4>1 DEF HandlerReads
      <4>3. account'[b] = row1 /\ (closed <=> h.op = "close")
        BY <2>7, <3>3, <4>2
      <4> HIDE DEF row1, closed
      <4> QED BY <2>2, <2>4, <4>3
    <3> QED BY <3>2, <3>3
  <2>9. \A u \in Callers : HandlerReads(accountCall'[u])
    BY <1>0, <2>5, IdleReads DEF DirectoryInv
  <2> QED BY <2>6, <2>8, <2>9 DEF DirectoryInv, HandlerReads
<1>5. ASSUME NEW c \in Callers, Accts!Fails(c) PROVE DirectoryInv'
  BY <1>0, <1>5, IdleReads, DirectoryReads DEF Accts!Fails, Accts!Ends
<1>6. ASSUME Accts!ParticipantChanges PROVE DirectoryInv'
  BY <1>0, <1>6 DEF Accts!ParticipantChanges, DirectoryInv, Accts!DTypeOK,
     Accts!ClosedStaysUnlessOverwritten, HandlerReads
<1> QED BY <1>2, <1>3, <1>4, <1>5, <1>6 DEF Accts!DNext

-----------------------------------------------------------------------------
(* Aliases.                                                                *)

InFlight(n) == {c \in Callers : aliasCall[c].op = "wrong" /\ aliasCall[c].by = n}

HandlerActs(h) ==
  /\ h.op # "none" => h.on \in Codes
  /\ h.op = "wrong" => h.by \in Alias!Challenges
  /\ h.op = "verify" => h.by \in Alias!Challenges \cup {None} /\ alias[h.on].status # "absent"
  /\ h.op = "consent" => /\ h.by \in Two /\ h.on = port[h.by].of
                         /\ port[h.by].status \in {"pending", "completed"}
  /\ h.op \in {"port", "allowed"} => /\ h.by \in Two /\ port[h.by].status = "absent"
                                     /\ h.to \in Things /\ alias[h.on].status # "absent"
  /\ h.op = "allowed" /\ h.on \in cooling => h.by \in early

\* Two calls do not open the same request.
Opening(h) == h.op \in {"port", "allowed"}
PortsApart ==
  \A c, d \in Callers :
    Opening(aliasCall[c]) /\ Opening(aliasCall[d]) /\ aliasCall[c].by = aliasCall[d].by => c = d

AliasInv ==
  /\ Alias!TypeOK
  /\ Alias!OnlyEarlyRequestsMoveCooling
  /\ PortsApart
  /\ \A n \in Alias!Challenges :
       challenge[n].attempts + Cardinality(InFlight(n)) <= OTP_MAX_ATTEMPTS + Cardinality(Callers)
  /\ \A c \in Callers : HandlerActs(aliasCall[c])
  /\ \A r \in Two : port[r].status # "absent" =>
       port[r].of \in Codes /\ port[r].to \in Things /\ alias[port[r].of].status # "absent"
  /\ \A a \in Codes : ported[a] # None =>
       /\ ported[a] \in Two /\ alias[a].status # "absent"
       /\ port[ported[a]].of = a /\ port[ported[a]].status = "completed"
       /\ a \notin overtaken => alias[a].account = port[ported[a]].to

LEMMA AliasImplies == AliasInv => Alias!AliasFollowsPorts
  BY DEF AliasInv, Alias!AliasFollowsPorts

LEMMA CallersCount ==
  /\ Alias!Cardinality(Callers) = Cardinality(Callers) /\ Cardinality(Callers) \in Nat
  /\ \A S : S \subseteq Callers => IsFiniteSet(S) /\ Cardinality(S) \in Nat /\ Cardinality(S) <= Cardinality(Callers)
<1>1. Alias!Cardinality(Callers) = Cardinality(Callers)
  BY DEF Alias!Cardinality, Cardinality
<1> QED BY <1>1, AliasesAssumption, FS_Subset, FS_CardinalityType

LEMMA InFlightCount ==
  /\ \A n : Cardinality(InFlight(n)) \in Nat /\ Cardinality(InFlight(n)) <= Cardinality(Callers)
  /\ \A n : Cardinality(InFlight(n))' \in Nat /\ Cardinality(InFlight(n))' <= Cardinality(Callers)
<1>1. \A n : InFlight(n) \subseteq Callers /\ InFlight(n)' \subseteq Callers
  BY DEF InFlight
<1> QED BY <1>1, CallersCount

LEMMA AliasNames ==
  /\ Alias!Challenge = [of : Codes \cup {None}, attempts : 0 .. OTP_MAX_ATTEMPTS + Cardinality(Callers),
                        open : BOOLEAN, past : BOOLEAN]
  /\ Alias!NoChallenge \in Alias!Challenge /\ Alias!NoAlias \in Alias!Alias /\ Alias!NoPort \in Alias!Port
  /\ Alias!Idle \in Alias!Handler /\ Alias!Idle.op = "none" /\ Alias!Idle.by = None
  /\ Alias!NoChallenge.attempts = 0
<1>1. 0 \in 0 .. OTP_MAX_ATTEMPTS + Cardinality(Callers)
  BY CallersCount, AliasesAssumption
<1> QED BY <1>1, CallersCount DEF Alias!Challenge, Alias!NoChallenge, Alias!NoAlias, Alias!Alias, Alias!Statuses,
     Alias!NoPort, Alias!Port, Alias!Idle, Alias!Handler

LEMMA AliasInitInv == Alias!Init => AliasInv
<1> SUFFICES ASSUME Alias!Init PROVE AliasInv
  OBVIOUS
<1>1. Alias!TypeOK
  BY AliasNames DEF Alias!Init, Alias!TypeOK
<1>2. Alias!OnlyEarlyRequestsMoveCooling
  BY DEF Alias!Init, Alias!OnlyEarlyRequestsMoveCooling
<1>3. \A n \in Alias!Challenges :
        challenge[n].attempts + Cardinality(InFlight(n)) <= OTP_MAX_ATTEMPTS + Cardinality(Callers)
  <2>1. \A n \in Alias!Challenges : challenge[n].attempts = 0
    BY AliasNames DEF Alias!Init
  <2> QED BY <2>1, InFlightCount, CallersCount, AliasesAssumption
<1>4. \A c \in Callers : HandlerActs(aliasCall[c])
  BY AliasNames DEF Alias!Init, HandlerActs
<1>5. \A r \in Two : port[r].status = "absent"
  BY DEF Alias!Init, Alias!NoPort
<1>6. \A a \in Codes : ported[a] = None
  BY DEF Alias!Init
<1>7. PortsApart
  BY AliasNames DEF Alias!Init, PortsApart, Opening
<1> QED BY <1>1, <1>2, <1>3, <1>4, <1>5, <1>6, <1>7 DEF AliasInv

LEMMA NewestIsOpen ==
  ASSUME AliasInv, NEW a \in Codes, Alias!OpenFor(a) # {}
  PROVE  Alias!Max(Alias!OpenFor(a)) \in Alias!Challenges
<1>1. Alias!OpenFor(a) \subseteq Alias!Challenges /\ Alias!OpenFor(a) \subseteq 0 .. MaxChallenges
  BY AliasesAssumption DEF Alias!OpenFor, Alias!Challenges
<1>2. \E m \in Alias!OpenFor(a) : \A y \in Alias!OpenFor(a) : m >= y
  BY <1>1, LargestOf, AliasesAssumption
<1>3. Alias!Max(Alias!OpenFor(a)) \in Alias!OpenFor(a)
  BY <1>2 DEF Alias!Max
<1> QED BY <1>1, <1>3

\* Steps that leave the ports and the challenges' counts alone.
LEMMA RequestTakesInv ==
  ASSUME AliasInv, NEW c \in Callers, NEW h \in Alias!Handler, HandlerActs(h),
         aliasCall' = [aliasCall EXCEPT ![c] = h],
         Opening(h) => \A d \in Callers \ {c} : Opening(aliasCall[d]) => aliasCall[d].by # h.by,
         h.op = "wrong" => challenge[h.by].attempts < OTP_MAX_ATTEMPTS,
         UNCHANGED <<alias, challenge, port, cooling, ported, early, overtaken>>
  PROVE  AliasInv'
<1>1. Alias!TypeOK' /\ \A u \in Callers : aliasCall'[u] = IF u = c THEN h ELSE aliasCall[u]
  BY DEF AliasInv, Alias!TypeOK
<1>2. \A u \in Callers : HandlerActs(aliasCall'[u])
  BY <1>1 DEF AliasInv
<1>3. ASSUME NEW n \in Alias!Challenges
      PROVE  challenge[n].attempts + Cardinality(InFlight(n))' <= OTP_MAX_ATTEMPTS + Cardinality(Callers)
  <2>0. challenge[n].attempts \in Nat /\ Cardinality(InFlight(n)) \in Nat /\ Cardinality(InFlight(n))' \in Nat
        /\ Cardinality(InFlight(n))' <= Cardinality(Callers) /\ Cardinality(Callers) \in Nat
    <3>1. challenge[n] \in Alias!Challenge
      BY DEF AliasInv, Alias!TypeOK
    <3>2. challenge[n].attempts \in Nat
      BY <3>1, AliasNames
    <3> QED BY <3>2, InFlightCount, CallersCount
  <2>1. CASE h.op = "wrong" /\ h.by = n
    BY <2>0, <2>1, AliasesAssumption
  <2>2. CASE ~(h.op = "wrong" /\ h.by = n)
    <3>1. InFlight(n)' \subseteq InFlight(n) /\ IsFiniteSet(InFlight(n))
      BY <1>1, <2>2, CallersCount DEF InFlight
    <3>2. Cardinality(InFlight(n))' <= Cardinality(InFlight(n))
      BY <3>1, FS_Subset
    <3>3. challenge[n].attempts + Cardinality(InFlight(n)) <= OTP_MAX_ATTEMPTS + Cardinality(Callers)
      BY DEF AliasInv
    <3> QED BY <2>0, <3>2, <3>3, AliasesAssumption
  <2> QED BY <2>1, <2>2
<1>4. Alias!OnlyEarlyRequestsMoveCooling'
  BY DEF AliasInv, Alias!OnlyEarlyRequestsMoveCooling
<1>5. PortsApart'
  <2> SUFFICES ASSUME NEW u \in Callers, NEW v \in Callers, Opening(aliasCall'[u]),
                      Opening(aliasCall'[v]), aliasCall'[u].by = aliasCall'[v].by
               PROVE  u = v
    BY DEF PortsApart, Opening
  <2>1. CASE u # c /\ v # c
    BY <1>1, <2>1 DEF AliasInv, PortsApart
  <2>2. CASE u = c \/ v = c
    BY <1>1, <2>2
  <2> QED BY <2>1, <2>2
<1> QED BY <1>1, <1>2, <1>3, <1>4, <1>5 DEF AliasInv, HandlerActs

\* A call that goes on, ends, or does something else.
LEMMA ApartStay ==
  ASSUME PortsApart,
         \A c \in Callers : aliasCall'[c] = aliasCall[c] \/ ~Opening(aliasCall'[c])
  PROVE  PortsApart'
<1> SUFFICES ASSUME NEW u \in Callers, NEW v \in Callers, Opening(aliasCall'[u]),
                    Opening(aliasCall'[v]), aliasCall'[u].by = aliasCall'[v].by
             PROVE  u = v
  BY DEF PortsApart, Opening
<1> QED BY DEF PortsApart

\* What leaves the ports alone: a status is not absent again, and the counts
\* stay within their bound.
LEMMA PortsStayInv ==
  ASSUME AliasInv, UNCHANGED <<port, ported, overtaken>>, early' \subseteq early,
         \A r \in early \ early' :
           port[r].status = "absent" /\ \A c \in Callers : Opening(aliasCall'[c]) => aliasCall'[c].by # r,
         alias' \in [Codes -> Alias!Alias], challenge' \in [Alias!Challenges -> Alias!Challenge],
         \/ aliasCall' = aliasCall
         \/ \E c \in Callers : aliasCall' = [aliasCall EXCEPT ![c] = Alias!Idle],
         cooling' \subseteq cooling,
         \A a \in Codes : alias[a].status # "absent" =>
            alias'[a].status # "absent" /\ alias'[a].account = alias[a].account,
         \A n \in Alias!Challenges : \/ challenge'[n].attempts \in {0, challenge[n].attempts}
            \/ /\ challenge'[n].attempts = challenge[n].attempts + 1
               /\ \E c \in InFlight(n) : aliasCall' = [aliasCall EXCEPT ![c] = Alias!Idle]
  PROVE  AliasInv'
<1>1. /\ aliasCall' \in [Callers -> Alias!Handler]
      /\ \A c \in Callers : aliasCall'[c] \in {aliasCall[c], Alias!Idle}
      /\ \A c \in Callers : aliasCall' = [aliasCall EXCEPT ![c] = Alias!Idle] => aliasCall'[c] = Alias!Idle
  BY AliasNames DEF AliasInv, Alias!TypeOK
<1>2. Alias!TypeOK'
  BY <1>1 DEF AliasInv, Alias!TypeOK
<1>3. ASSUME NEW n \in Alias!Challenges
      PROVE  challenge'[n].attempts + Cardinality(InFlight(n))' <= OTP_MAX_ATTEMPTS + Cardinality(Callers)
  <2>0. challenge[n].attempts \in Nat /\ Cardinality(InFlight(n)) \in Nat /\ Cardinality(InFlight(n))' \in Nat
        /\ Cardinality(InFlight(n))' <= Cardinality(Callers) /\ Cardinality(Callers) \in Nat
    <3>1. challenge[n] \in Alias!Challenge
      BY DEF AliasInv, Alias!TypeOK
    <3>2. challenge[n].attempts \in Nat
      BY <3>1, AliasNames
    <3> QED BY <3>2, InFlightCount, CallersCount
  <2>1. InFlight(n)' \subseteq InFlight(n) /\ IsFiniteSet(InFlight(n))
    BY <1>1, CallersCount, AliasNames DEF InFlight
  <2>2. Cardinality(InFlight(n))' <= Cardinality(InFlight(n))
    BY <2>1, FS_Subset
  <2>3. challenge[n].attempts + Cardinality(InFlight(n)) <= OTP_MAX_ATTEMPTS + Cardinality(Callers)
    BY DEF AliasInv
  <2>4. CASE challenge'[n].attempts \in {0, challenge[n].attempts}
    BY <2>0, <2>2, <2>3, <2>4, AliasesAssumption
  <2>5. CASE challenge'[n].attempts = challenge[n].attempts + 1 /\ challenge'[n].attempts # 0
             /\ \E c \in InFlight(n) : aliasCall' = [aliasCall EXCEPT ![c] = Alias!Idle]
    <3>1. PICK c \in InFlight(n) : aliasCall' = [aliasCall EXCEPT ![c] = Alias!Idle]
      BY <2>5
    <3>2. c \in Callers /\ aliasCall'[c] = Alias!Idle
      BY <1>1, <3>1 DEF InFlight
    <3>3. InFlight(n)' \subseteq InFlight(n) \ {c}
      BY <2>1, <3>2, AliasNames DEF InFlight
    <3>4. IsFiniteSet(InFlight(n) \ {c}) /\ Cardinality(InFlight(n) \ {c}) = Cardinality(InFlight(n)) - 1
      BY <2>1, <3>1, FS_RemoveElement
    <3>5. Cardinality(InFlight(n))' <= Cardinality(InFlight(n) \ {c})
      BY <3>3, <3>4, FS_Subset
    <3> QED BY <2>0, <2>3, <2>5, <3>4, <3>5, AliasesAssumption
  <2> QED BY <2>0, <2>4, <2>5
<1>4. Alias!OnlyEarlyRequestsMoveCooling'
  <2> SUFFICES ASSUME NEW r \in Two, port[r].status = "pending", port[r].of \in cooling'
               PROVE  r \in early'
    BY DEF Alias!OnlyEarlyRequestsMoveCooling
  <2> QED BY DEF AliasInv, Alias!OnlyEarlyRequestsMoveCooling
<1>5. \A c \in Callers : HandlerActs(aliasCall[c])'
  <2> SUFFICES ASSUME NEW c \in Callers PROVE HandlerActs(aliasCall[c])'
    OBVIOUS
  <2>1. CASE aliasCall'[c] = Alias!Idle
    BY <2>1, AliasNames DEF HandlerActs
  <2>2. CASE aliasCall'[c] = aliasCall[c]
    <3>1. HandlerActs(aliasCall[c])
      BY DEF AliasInv
    <3>2. aliasCall[c].op = "allowed" => aliasCall[c].by \in early' \/ aliasCall[c].by \notin early
      BY <2>2 DEF Opening
    <3> QED BY <2>2, <3>1, <3>2 DEF HandlerActs
  <2> QED BY <1>1, <2>1, <2>2
<1>6. \A r \in Two : port'[r].status # "absent" =>
        port'[r].of \in Codes /\ port'[r].to \in Things /\ alias'[port'[r].of].status # "absent"
  BY DEF AliasInv
<1>7. \A a \in Codes : ported'[a] # None =>
        /\ ported'[a] \in Two /\ alias'[a].status # "absent"
        /\ port'[ported'[a]].of = a /\ port'[ported'[a]].status = "completed"
        /\ a \notin overtaken' => alias'[a].account = port'[ported'[a]].to
  BY DEF AliasInv
<1>8. PortsApart'
  <2>1. \A c \in Callers : aliasCall'[c] = aliasCall[c] \/ ~Opening(aliasCall'[c])
    BY <1>1, AliasNames DEF Opening
  <2> QED BY <2>1, ApartStay DEF AliasInv
<1> QED BY <1>2, <1>3, <1>4, <1>5, <1>6, <1>7, <1>8 DEF AliasInv

\* What leaves the aliases and the challenges alone, but for a port: a call
\* opens its request, or an open one grows old.
LEMMA PortChanges ==
  ASSUME AliasInv, UNCHANGED <<alias, challenge, cooling, ported, early, overtaken>>,
         NEW r \in Two, NEW p \in Alias!Port, port' = [port EXCEPT ![r] = p],
         p.status = "pending", p.of \in Codes, p.to \in Things, alias[p.of].status # "absent",
         \/ /\ port[r].status = "absent"
            /\ \E c \in Callers : /\ aliasCall[c].op = "allowed" /\ aliasCall[c].by = r
                                  /\ aliasCall[c].on = p.of
                                  /\ aliasCall' = [aliasCall EXCEPT ![c] = Alias!Idle]
         \/ /\ port[r].status = "pending" /\ p.of = port[r].of /\ p.to = port[r].to
            /\ aliasCall' = aliasCall
  PROVE  AliasInv'
<1>0. /\ port \in [Two -> Alias!Port] /\ aliasCall \in [Callers -> Alias!Handler]
      /\ \A c \in Callers : HandlerActs(aliasCall[c])
  BY DEF AliasInv, Alias!TypeOK
<1>1. /\ \A q \in Two : port'[q] = IF q = r THEN p ELSE port[q]
      /\ port' \in [Two -> Alias!Port] /\ aliasCall' \in [Callers -> Alias!Handler]
  BY <1>0, AliasNames
<1>k. ASSUME NEW c \in Callers, Opening(aliasCall'[c])
      PROVE  aliasCall'[c] = aliasCall[c] /\ aliasCall[c].by # r
  <2>1. CASE port[r].status = "absent"
    <3>1. PICK d \in Callers : /\ aliasCall[d].op = "allowed" /\ aliasCall[d].by = r
                               /\ aliasCall' = [aliasCall EXCEPT ![d] = Alias!Idle]
      BY <2>1
    <3>2. c # d /\ aliasCall'[c] = aliasCall[c]
      BY <1>0, <1>k, <3>1, AliasNames DEF Opening
    <3> QED BY <1>k, <3>1, <3>2 DEF AliasInv, PortsApart, Opening
  <2>2. CASE port[r].status = "pending"
    <3>1. aliasCall' = aliasCall
      BY <2>2
    <3> QED BY <1>0, <1>k, <2>2, <3>1 DEF HandlerActs, Opening
  <2> QED BY <2>1, <2>2
<1>c. \A c \in Callers : aliasCall'[c] \in {aliasCall[c], Alias!Idle}
  BY <1>0
<1>t. Alias!TypeOK'
  BY <1>1 DEF AliasInv, Alias!TypeOK
<1>2. Alias!OnlyEarlyRequestsMoveCooling'
  <2>1. p.of \in cooling => r \in early
    <3>1. CASE port[r].status = "pending"
      BY <3>1 DEF AliasInv, Alias!OnlyEarlyRequestsMoveCooling
    <3>2. CASE port[r].status = "absent"
      BY <1>0, <3>2 DEF HandlerActs
    <3> QED BY <3>1, <3>2
  <2> QED BY <1>1, <2>1 DEF AliasInv, Alias!OnlyEarlyRequestsMoveCooling
<1>3. \A n \in Alias!Challenges :
        challenge'[n].attempts + Cardinality(InFlight(n))' <= OTP_MAX_ATTEMPTS + Cardinality(Callers)
  <2>1. \A n : InFlight(n)' = InFlight(n)
    <3>1. aliasCall' = aliasCall \/ \E d \in Callers : /\ aliasCall[d].op = "allowed"
                                                      /\ aliasCall' = [aliasCall EXCEPT ![d] = Alias!Idle]
      OBVIOUS
    <3>2. ASSUME NEW d \in Callers, aliasCall[d].op = "allowed", NEW c \in Callers,
                 aliasCall' = [aliasCall EXCEPT ![d] = Alias!Idle]
          PROVE  aliasCall'[c] = aliasCall[c] \/ (aliasCall[c].op # "wrong" /\ aliasCall'[c].op # "wrong")
      <4>1. aliasCall \in [Callers -> Alias!Handler]
        BY <1>0
      <4>2. aliasCall'[c] = IF c = d THEN Alias!Idle ELSE aliasCall[c]
        BY <3>2, <4>1
      <4> QED BY <3>2, <4>2, AliasNames
    <3>3. \A c \in Callers : aliasCall'[c] = aliasCall[c]
                             \/ (aliasCall[c].op # "wrong" /\ aliasCall'[c].op # "wrong")
      BY <3>1, <3>2
    <3> QED BY <3>3 DEF InFlight
  <2> QED BY <2>1 DEF AliasInv
<1>4. \A c \in Callers : HandlerActs(aliasCall[c])'
  <2> SUFFICES ASSUME NEW c \in Callers PROVE HandlerActs(aliasCall[c])'
    OBVIOUS
  <2>1. CASE aliasCall'[c] = Alias!Idle
    BY <2>1, AliasNames DEF HandlerActs
  <2>2. CASE aliasCall'[c] = aliasCall[c]
    <3>1. HandlerActs(aliasCall[c])
      BY <1>0
    <3>2. aliasCall[c].op \in {"port", "allowed"} => aliasCall[c].by # r
      BY <1>k, <2>2 DEF Opening
    <3> QED BY <1>1, <2>2, <3>1, <3>2 DEF HandlerActs
  <2> QED BY <1>c, <2>1, <2>2
<1>5. \A q \in Two : port'[q].status # "absent" =>
        port'[q].of \in Codes /\ port'[q].to \in Things /\ alias'[port'[q].of].status # "absent"
  BY <1>1 DEF AliasInv
<1>6. \A a \in Codes : ported'[a] # None =>
        /\ ported'[a] \in Two /\ alias'[a].status # "absent"
        /\ port'[ported'[a]].of = a /\ port'[ported'[a]].status = "completed"
        /\ a \notin overtaken' => alias'[a].account = port'[ported'[a]].to
  BY <1>1 DEF AliasInv
<1>7. PortsApart'
  BY <1>k, ApartStay DEF AliasInv
<1> QED BY <1>t, <1>2, <1>3, <1>4, <1>5, <1>6, <1>7 DEF AliasInv

LEMMA MovesInv ==
  ASSUME AliasInv, NEW c \in Callers, Alias!Moves(c)
  PROVE  AliasInv'
<1> DEFINE r == aliasCall[c].by
           a == aliasCall[c].on
           p == [port[r] EXCEPT !.status = "completed"]
           x == [alias[a] EXCEPT !.account = port[r].to]
<1>1. /\ r \in Two /\ a = port[r].of /\ a \in Codes /\ port[r].to \in Things
      /\ port[r].status \in {"pending", "completed"} /\ alias[a].status # "absent"
  BY DEF Alias!Moves, AliasInv, HandlerActs
<1>2. /\ alias \in [Codes -> Alias!Alias] /\ port \in [Two -> Alias!Port] /\ aliasCall \in [Callers -> Alias!Handler]
      /\ early \subseteq Two /\ overtaken \subseteq Codes /\ cooling \subseteq Codes
      /\ ported \in [Codes -> Two \cup {None}]
  BY DEF AliasInv, Alias!TypeOK
<1>3. /\ alias' = [alias EXCEPT ![a] = x] /\ port' = [port EXCEPT ![r] = p]
      /\ cooling' = cooling \cup {a}
      /\ ported' = [ported EXCEPT ![a] = IF port[r].status = "pending" THEN r ELSE ported[a]]
      /\ overtaken' = IF port[r].status = "pending" THEN overtaken ELSE overtaken \cup {a}
      /\ early' = early \cup {q \in Two : port[q].of = a /\ port[q].status = "pending"}
                       \cup {aliasCall[d].by : d \in {e \in Callers : aliasCall[e].op = "allowed" /\ aliasCall[e].on = a}}
      /\ aliasCall' = [aliasCall EXCEPT ![c] = Alias!Idle] /\ challenge' = challenge
  BY <1>1 DEF Alias!Moves, Alias!updateAccount
<1>4. /\ p \in Alias!Port /\ p.status = "completed" /\ p.of = port[r].of /\ p.to = port[r].to
      /\ x \in Alias!Alias /\ x.status = alias[a].status /\ x.account = port[r].to
  <2>1. port[r] \in Alias!Port /\ alias[a] \in Alias!Alias
    BY <1>1, <1>2
  <2> HIDE DEF a, r
  <2> QED BY <1>1, <2>1 DEF Alias!Port, Alias!Alias
<1> HIDE DEF r, a, p, x
<1>5. /\ \A b \in Codes : alias'[b] = IF b = a THEN x ELSE alias[b]
      /\ \A q \in Two : port'[q] = IF q = r THEN p ELSE port[q]
      /\ \A u \in Callers : aliasCall'[u] = IF u = c THEN Alias!Idle ELSE aliasCall[u]
      /\ \A b \in Codes : ported'[b] = IF b = a /\ port[r].status = "pending" THEN r ELSE ported[b]
  BY <1>1, <1>2, <1>3
<1>6. Alias!TypeOK'
  <2>1. ported' \in [Codes -> Two \cup {None}]
    BY <1>1, <1>2, <1>3
  <2>2. alias' \in [Codes -> Alias!Alias] /\ port' \in [Two -> Alias!Port]
        /\ aliasCall' \in [Callers -> Alias!Handler]
    BY <1>2, <1>3, <1>4, AliasNames
  <2>3. early' \subseteq Two
    BY <1>2, <1>3 DEF AliasInv, HandlerActs
  <2> QED BY <1>1, <1>2, <1>3, <2>1, <2>2, <2>3 DEF AliasInv, Alias!TypeOK
<1>7. Alias!OnlyEarlyRequestsMoveCooling'
  BY <1>3, <1>4, <1>5 DEF AliasInv, Alias!OnlyEarlyRequestsMoveCooling
<1>8. \A n \in Alias!Challenges :
        challenge'[n].attempts + Cardinality(InFlight(n))' <= OTP_MAX_ATTEMPTS + Cardinality(Callers)
  <2>1. \A n : InFlight(n)' = InFlight(n)
    <3>1. aliasCall[c].op = "consent" /\ Alias!Idle.op = "none"
      BY AliasNames DEF Alias!Moves
    <3> QED BY <1>5, <3>1 DEF InFlight
  <2> QED BY <1>3, <2>1 DEF AliasInv
<1>9. \A u \in Callers : HandlerActs(aliasCall[u])'
  <2> SUFFICES ASSUME NEW u \in Callers PROVE HandlerActs(aliasCall[u])'
    OBVIOUS
  <2>1. CASE u = c
    BY <1>5, <2>1, AliasNames DEF HandlerActs
  <2>2. CASE u # c
    <3>1. HandlerActs(aliasCall[u]) /\ aliasCall'[u] = aliasCall[u]
      BY <1>5, <2>2 DEF AliasInv
    <3>2. \A b \in Codes : alias[b].status # "absent" => alias'[b].status # "absent"
      BY <1>4, <1>5
    <3>3. \A q \in Two : port'[q].of = port[q].of /\ (port'[q].status = port[q].status \/ port'[q].status = "completed")
      BY <1>4, <1>5
    <3>4. \A q \in Two : port[q].status = "absent" => port'[q].status = "absent"
      BY <1>1, <1>5
    <3>5. aliasCall[u].op = "allowed" /\ aliasCall[u].on \in cooling' => aliasCall[u].by \in early'
      BY <1>3, <3>1 DEF HandlerActs
    <3> QED BY <3>1, <3>2, <3>3, <3>4, <3>5 DEF HandlerActs
  <2> QED BY <2>1, <2>2
<1>12. PortsApart'
  <2>1. \A u \in Callers : aliasCall'[u] = aliasCall[u] \/ ~Opening(aliasCall'[u])
    BY <1>5, AliasNames DEF Opening
  <2> QED BY <2>1, ApartStay DEF AliasInv
<1>10. \A q \in Two : port'[q].status # "absent" =>
         port'[q].of \in Codes /\ port'[q].to \in Things /\ alias'[port'[q].of].status # "absent"
  BY <1>1, <1>4, <1>5 DEF AliasInv
<1>11. ASSUME NEW b \in Codes, ported'[b] # None
       PROVE  /\ ported'[b] \in Two /\ alias'[b].status # "absent"
              /\ port'[ported'[b]].of = b /\ port'[ported'[b]].status = "completed"
              /\ b \notin overtaken' => alias'[b].account = port'[ported'[b]].to
  <2>1. CASE b = a /\ port[r].status = "pending"
    BY <1>1, <1>3, <1>4, <1>5, <2>1
  <2>2. CASE b = a /\ port[r].status # "pending"
    BY <1>1, <1>3, <1>4, <1>5, <1>11, <2>2 DEF AliasInv
  <2>3. CASE b # a
    BY <1>1, <1>3, <1>4, <1>5, <1>11, <2>3 DEF AliasInv
  <2> QED BY <2>1, <2>2, <2>3
<1> QED BY <1>6, <1>7, <1>8, <1>9, <1>10, <1>11, <1>12 DEF AliasInv

LEMMA AliasStepInv == AliasInv /\ Alias!Next => AliasInv'
<1> SUFFICES ASSUME AliasInv, Alias!Next PROVE AliasInv'
  OBVIOUS
<1>0. /\ alias \in [Codes -> Alias!Alias] /\ challenge \in [Alias!Challenges -> Alias!Challenge]
      /\ port \in [Two -> Alias!Port] /\ aliasCall \in [Callers -> Alias!Handler]
      /\ \A c \in Callers : HandlerActs(aliasCall[c])
      /\ \A n \in Alias!Challenges : challenge[n].attempts \in Nat
  <2>1. alias \in [Codes -> Alias!Alias] /\ challenge \in [Alias!Challenges -> Alias!Challenge]
        /\ port \in [Two -> Alias!Port] /\ aliasCall \in [Callers -> Alias!Handler]
        /\ \A c \in Callers : HandlerActs(aliasCall[c])
    BY DEF AliasInv, Alias!TypeOK
  <2>2. \A n \in Alias!Challenges : challenge[n].attempts \in Nat
    BY <2>1, AliasNames
  <2> QED BY <2>1, <2>2
<1>1. ASSUME NEW a \in Codes, NEW type \in ALIAS_TYPES, NEW to \in Things, Alias!register(a, type, to)
      PROVE  AliasInv'
  <2> DEFINE x == [type |-> type, status |-> Alias!initialStatusFor(type), account |-> to]
  <2>1. x \in Alias!Alias
    BY DEF Alias!Alias, Alias!Statuses, Alias!initialStatusFor
  <2>2. alias' = [alias EXCEPT ![a] = x] /\ alias[a].status = "absent"
        /\ UNCHANGED <<challenge, port, aliasCall, cooling, ported, early, overtaken>>
    BY <1>1 DEF Alias!register
  <2> HIDE DEF x
  <2> QED BY <1>0, <2>1, <2>2, PortsStayInv
<1>2. ASSUME NEW a \in Codes, Alias!revoke(a) PROVE AliasInv'
  <2> DEFINE x == [alias[a] EXCEPT !.status = "revoked"]
  <2>1. x \in Alias!Alias /\ x.status = "revoked" /\ x.account = alias[a].account
    BY <1>0 DEF Alias!Alias, Alias!Statuses
  <2>2. alias' = [alias EXCEPT ![a] = x]
        /\ UNCHANGED <<challenge, port, aliasCall, cooling, ported, early, overtaken>>
    BY <1>2 DEF Alias!revoke
  <2> HIDE DEF x
  <2> QED BY <1>0, <2>1, <2>2, PortsStayInv
<1>3. ASSUME NEW a \in Codes, Alias!CoolingEnds(a) PROVE AliasInv'
  BY <1>0, <1>3, PortsStayInv DEF Alias!CoolingEnds
<1>4. ASSUME NEW n \in Alias!Challenges, NEW x \in Alias!Challenge, challenge' = [challenge EXCEPT ![n] = x],
             \/ x.attempts \in {0, challenge[n].attempts} /\ aliasCall' = aliasCall
             \/ /\ x.attempts = challenge[n].attempts + 1
                /\ \E c \in InFlight(n) : aliasCall' = [aliasCall EXCEPT ![c] = Alias!Idle],
             UNCHANGED <<alias, port, cooling, ported, early, overtaken>>
      PROVE  AliasInv'
  <2>1. \A m \in Alias!Challenges : challenge'[m] = IF m = n THEN x ELSE challenge[m]
    BY <1>0, <1>4
  <2>2. challenge' \in [Alias!Challenges -> Alias!Challenge]
    BY <1>0, <1>4
  <2>3. \/ aliasCall' = aliasCall
        \/ \E c \in Callers : aliasCall' = [aliasCall EXCEPT ![c] = Alias!Idle]
    BY <1>4 DEF InFlight
  <2>4. \A m \in Alias!Challenges : \/ challenge'[m].attempts \in {0, challenge[m].attempts}
            \/ /\ challenge'[m].attempts = challenge[m].attempts + 1
               /\ \E c \in InFlight(m) : aliasCall' = [aliasCall EXCEPT ![c] = Alias!Idle]
    BY <1>4, <2>1
  <2> QED BY <1>0, <1>4, <2>2, <2>3, <2>4, PortsStayInv
<1>5. ASSUME NEW a \in Codes, NEW n \in Alias!Challenges, Alias!Starts(a, n) PROVE AliasInv'
  <2> DEFINE x == [Alias!NoChallenge EXCEPT !.of = a, !.open = TRUE]
  <2>1. x \in Alias!Challenge /\ x.attempts = 0
    BY AliasNames DEF Alias!NoChallenge
  <2>2. challenge' = [challenge EXCEPT ![n] = x]
        /\ UNCHANGED <<alias, port, aliasCall, cooling, ported, early, overtaken>>
    BY <1>5 DEF Alias!Starts
  <2> HIDE DEF x
  <2> QED BY <1>4, <2>1, <2>2
<1>6. ASSUME NEW n \in Alias!Challenges, Alias!ChallengePasses(n) PROVE AliasInv'
  <2> DEFINE x == [challenge[n] EXCEPT !.past = TRUE]
  <2>1. x \in Alias!Challenge /\ x.attempts = challenge[n].attempts
    BY <1>0, AliasNames
  <2>2. challenge' = [challenge EXCEPT ![n] = x]
        /\ UNCHANGED <<alias, port, aliasCall, cooling, ported, early, overtaken>>
    BY <1>6 DEF Alias!ChallengePasses
  <2> HIDE DEF x
  <2> QED BY <1>4, <2>1, <2>2
<1>7. ASSUME NEW c \in Callers, NEW a \in Codes, Alias!preCheck(c, a) PROVE AliasInv'
  <2> DEFINE n == Alias!Max(Alias!OpenFor(a))
             h(op) == [op |-> op, on |-> a, by |-> n, to |-> None]
             x == [challenge[n] EXCEPT !.open = FALSE]
  <2>1. n \in Alias!Challenges /\ alias[a].status # "absent"
    BY <1>7, NewestIsOpen DEF Alias!preCheck
  <2>2. x \in Alias!Challenge /\ x.attempts = challenge[n].attempts
    BY <1>0, <2>1, AliasNames
  <2>3. /\ UNCHANGED <<alias, port, cooling, ported, early, overtaken>>
        /\ \/ Alias!Takes(c, "verify", a, n) /\ challenge' = challenge
           \/ Alias!MayGuess(n) /\ Alias!Takes(c, "wrong", a, n) /\ challenge' = challenge
           \/ challenge' = [challenge EXCEPT ![n] = x] /\ aliasCall' = aliasCall
    BY <1>7 DEF Alias!preCheck
  <2>4. ASSUME NEW op \in {"verify", "wrong"}
        PROVE  /\ h(op) \in Alias!Handler /\ HandlerActs(h(op)) /\ h(op).op = op /\ h(op).by = n
               /\ ~Opening(h(op))
               /\ Alias!Takes(c, op, a, n) => aliasCall' = [aliasCall EXCEPT ![c] = h(op)]
    <3> HIDE DEF n
    <3>1. h(op) \in Alias!Handler
      BY <2>1 DEF Alias!Handler
    <3>2. HandlerActs(h(op)) /\ ~Opening(h(op))
      BY <2>1 DEF HandlerActs, Opening
    <3> QED BY <3>1, <3>2 DEF Alias!Takes
  <2> HIDE DEF n, h, x
  <2>5. CASE Alias!Takes(c, "verify", a, n) /\ challenge' = challenge
    BY <2>3, <2>4, <2>5, RequestTakesInv
  <2>6. CASE Alias!MayGuess(n) /\ Alias!Takes(c, "wrong", a, n) /\ challenge' = challenge
    <3>1. challenge[n].attempts < OTP_MAX_ATTEMPTS
      BY <2>6 DEF Alias!MayGuess
    <3> QED BY <2>3, <2>4, <2>6, <3>1, RequestTakesInv
  <2>7. CASE challenge' = [challenge EXCEPT ![n] = x] /\ aliasCall' = aliasCall
    BY <1>4, <2>1, <2>2, <2>3, <2>7
  <2> QED BY <2>3, <2>5, <2>6, <2>7
<1>8. ASSUME NEW c \in Callers, NEW a \in Codes, Alias!verifyGhanacard(c, a) PROVE AliasInv'
  <2> DEFINE h == [op |-> "verify", on |-> a, by |-> None, to |-> None]
  <2>1. h \in Alias!Handler /\ h.op = "verify"
    BY DEF Alias!Handler
  <2>2. HandlerActs(h)
    BY <1>8 DEF HandlerActs, Alias!verifyGhanacard
  <2>3. ~Opening(h) /\ aliasCall' = [aliasCall EXCEPT ![c] = h]
        /\ UNCHANGED <<alias, challenge, port, cooling, ported, early, overtaken>>
    BY <1>8 DEF Alias!verifyGhanacard, Alias!Takes, Opening
  <2> HIDE DEF h
  <2> QED BY <2>1, <2>2, <2>3, RequestTakesInv
<1>9. ASSUME NEW c \in Callers, Alias!incrementAttempts(c) PROVE AliasInv'
  <2> DEFINE n == aliasCall[c].by
             x == [challenge[n] EXCEPT !.attempts = challenge[n].attempts + 1,
                     !.open = challenge[n].open /\ challenge[n].attempts + 1 < OTP_MAX_ATTEMPTS]
  <2>1. n \in Alias!Challenges /\ c \in InFlight(n) /\ aliasCall[c].op = "wrong"
    BY <1>0, <1>9 DEF Alias!incrementAttempts, HandlerActs, InFlight
  <2>2. challenge[n].attempts + 1 \in 0 .. OTP_MAX_ATTEMPTS + Cardinality(Callers)
    <3>1. Cardinality(InFlight(n)) \in Nat /\ InFlight(n) \subseteq Callers /\ IsFiniteSet(InFlight(n))
      BY InFlightCount, CallersCount DEF InFlight
    <3>2. Cardinality(InFlight(n)) # 0
      BY <2>1, <3>1, FS_EmptySet
    <3>3. challenge[n].attempts + Cardinality(InFlight(n)) <= OTP_MAX_ATTEMPTS + Cardinality(Callers)
      BY <2>1 DEF AliasInv
    <3> HIDE DEF n
    <3> QED BY <1>0, <2>1, <3>1, <3>2, <3>3, CallersCount, AliasesAssumption
  <2>3. x \in Alias!Challenge /\ x.attempts = challenge[n].attempts + 1
    <3>1. challenge[n] \in Alias!Challenge
      BY <1>0, <2>1
    <3> HIDE DEF n
    <3> QED BY <2>2, <3>1, AliasNames
  <2>4. challenge' = [challenge EXCEPT ![n] = x] /\ aliasCall' = [aliasCall EXCEPT ![c] = Alias!Idle]
        /\ UNCHANGED <<alias, port, cooling, ported, early, overtaken>>
    BY <1>0, <1>9, <2>1 DEF Alias!incrementAttempts
  <2> HIDE DEF x, n
  <2> QED BY <1>4, <2>1, <2>3, <2>4
<1>10. ASSUME NEW c \in Callers, Alias!setVerified(c) PROVE AliasInv'
  <2> DEFINE a == aliasCall[c].on
             n == aliasCall[c].by
             x == [alias[a] EXCEPT !.status = "verified"]
             y == [challenge[n] EXCEPT !.open = FALSE]
  <2>1. a \in Codes /\ n \in Alias!Challenges \cup {None}
    BY <1>0, <1>10 DEF Alias!setVerified, HandlerActs
  <2>2. x \in Alias!Alias /\ x.status = "verified" /\ x.account = alias[a].account
    BY <1>0, <2>1 DEF Alias!Alias, Alias!Statuses
  <2>3. /\ alias' = alias \/ alias' = [alias EXCEPT ![a] = x]
        /\ challenge' = challenge \/ (n # None /\ challenge' = [challenge EXCEPT ![n] = y])
        /\ aliasCall' = [aliasCall EXCEPT ![c] = Alias!Idle]
        /\ UNCHANGED <<port, cooling, ported, early, overtaken>>
    BY <1>10 DEF Alias!setVerified
  <2>4. n # None => y \in Alias!Challenge /\ y.attempts = challenge[n].attempts
    BY <1>0, <2>1, AliasNames
  <2> HIDE DEF x, a, n, y
  <2>5. /\ alias' \in [Codes -> Alias!Alias]
        /\ \A b \in Codes : alias[b].status # "absent" =>
             alias'[b].status # "absent" /\ alias'[b].account = alias[b].account
    BY <1>0, <2>1, <2>2, <2>3
  <2>6. /\ challenge' \in [Alias!Challenges -> Alias!Challenge]
        /\ \A m \in Alias!Challenges : challenge'[m].attempts = challenge[m].attempts
    BY <1>0, <2>1, <2>3, <2>4
  <2> QED BY <2>3, <2>5, <2>6, PortsStayInv
<1>11. ASSUME NEW c \in Callers, NEW r \in Two, NEW a \in Codes, NEW to \in Things, Alias!initiate(c, r, a, to)
       PROVE  AliasInv'
  <2> DEFINE h == [op |-> "port", on |-> a, by |-> r, to |-> to]
  <2>1. h \in Alias!Handler /\ h.op = "port" /\ h.by = r
    BY DEF Alias!Handler
  <2>2. HandlerActs(h)
    BY <1>11 DEF HandlerActs, Alias!initiate
  <2>3. aliasCall' = [aliasCall EXCEPT ![c] = h] /\ \A d \in Callers : aliasCall[d].by # r
        /\ UNCHANGED <<alias, challenge, port, cooling, ported, early, overtaken>>
    BY <1>11 DEF Alias!initiate
  <2> HIDE DEF h
  <2> QED BY <2>1, <2>2, <2>3, RequestTakesInv
<1>14. ASSUME NEW c \in Callers, Alias!lastCompletedRequest(c) PROVE AliasInv'
  <2> DEFINE h == [aliasCall[c] EXCEPT !.op = "allowed"]
  <2>1. h \in Alias!Handler /\ h.op = "allowed" /\ h.by = aliasCall[c].by /\ h.on = aliasCall[c].on
        /\ h.to = aliasCall[c].to
    BY <1>0 DEF Alias!Handler
  <2>2. aliasCall' = [aliasCall EXCEPT ![c] = h] /\ aliasCall[c].op = "port" /\ aliasCall[c].on \notin cooling
        /\ UNCHANGED <<alias, challenge, port, cooling, ported, early, overtaken>>
    BY <1>14 DEF Alias!lastCompletedRequest, Alias!MayPort
  <2> HIDE DEF h
  <2>3. HandlerActs(h)
    <3>1. HandlerActs(aliasCall[c])
      BY <1>0
    <3> QED BY <2>1, <2>2, <3>1 DEF HandlerActs
  <2>4. \A d \in Callers \ {c} : Opening(aliasCall[d]) => aliasCall[d].by # h.by
    BY <2>1, <2>2 DEF AliasInv, PortsApart, Opening
  <2> QED BY <2>1, <2>2, <2>3, <2>4, RequestTakesInv
<1>15. ASSUME NEW c \in Callers, Alias!insertRequest(c) PROVE AliasInv'
  <2> DEFINE r == aliasCall[c].by
             p == [of |-> aliasCall[c].on, to |-> aliasCall[c].to, status |-> "pending", past |-> FALSE]
  <2>1. /\ aliasCall[c].op = "allowed" /\ r \in Two /\ port[r].status = "absent"
        /\ aliasCall[c].on \in Codes /\ aliasCall[c].to \in Things /\ alias[aliasCall[c].on].status # "absent"
    BY <1>0, <1>15 DEF Alias!insertRequest, HandlerActs
  <2>2. /\ p \in Alias!Port /\ p.status = "pending" /\ p.of = aliasCall[c].on /\ p.to = aliasCall[c].to
    BY <2>1 DEF Alias!Port
  <2>3. /\ port' = [port EXCEPT ![r] = p] /\ aliasCall' = [aliasCall EXCEPT ![c] = Alias!Idle]
        /\ UNCHANGED <<alias, challenge, cooling, ported, early, overtaken>>
    BY <1>15 DEF Alias!insertRequest
  <2> HIDE DEF p
  <2> QED BY <2>1, <2>2, <2>3, PortChanges
<1>16. ASSUME NEW c \in Callers, Alias!PortRefused(c) PROVE AliasInv'
  <2>1. /\ Opening(aliasCall[c]) /\ early' = early \ {aliasCall[c].by}
        /\ aliasCall' = [aliasCall EXCEPT ![c] = Alias!Idle]
        /\ UNCHANGED <<alias, challenge, port, cooling, ported, overtaken>>
    BY <1>16 DEF Alias!PortRefused, Opening
  <2>2. port[aliasCall[c].by].status = "absent"
    BY <1>0, <2>1 DEF HandlerActs, Opening
  <2>3. ASSUME NEW d \in Callers, Opening(aliasCall'[d]) PROVE aliasCall'[d].by # aliasCall[c].by
    <3>1. d # c /\ aliasCall'[d] = aliasCall[d]
      BY <1>0, <2>1, <2>3, AliasNames DEF Opening
    <3> QED BY <2>1, <2>3, <3>1 DEF AliasInv, PortsApart
  <2>4. \A r \in early \ early' :
          port[r].status = "absent" /\ \A d \in Callers : Opening(aliasCall'[d]) => aliasCall'[d].by # r
    BY <2>1, <2>2, <2>3
  <2>5. early' \subseteq early /\ alias' \in [Codes -> Alias!Alias]
        /\ challenge' \in [Alias!Challenges -> Alias!Challenge] /\ cooling' \subseteq cooling
        /\ \A n \in Alias!Challenges : challenge'[n].attempts \in {0, challenge[n].attempts}
    BY <1>0, <2>1
  <2> QED BY <2>1, <2>4, <2>5, PortsStayInv
<1>12. ASSUME NEW r \in Two, Alias!ConsentPasses(r) PROVE AliasInv'
  <2> DEFINE p == [port[r] EXCEPT !.past = TRUE]
  <2>1. p \in Alias!Port /\ p.of = port[r].of /\ p.to = port[r].to /\ p.status = port[r].status
    BY <1>0 DEF Alias!Port
  <2>2. port' = [port EXCEPT ![r] = p] /\ port[r].status = "pending"
        /\ UNCHANGED <<alias, challenge, aliasCall, cooling, ported, early, overtaken>>
    BY <1>12 DEF Alias!ConsentPasses
  <2>3. p.of \in Codes /\ p.to \in Things /\ alias[p.of].status # "absent"
    BY <2>1, <2>2 DEF AliasInv
  <2> HIDE DEF p
  <2> QED BY <2>1, <2>2, <2>3, PortChanges
<1>13. ASSUME NEW r \in Two, NEW c \in Callers, Alias!consent(c, r) PROVE AliasInv'
  <2> DEFINE h == [op |-> "consent", on |-> port[r].of, by |-> r, to |-> None]
  <2>1. port[r].status = "pending" /\ port[r].of \in Codes
    BY <1>13 DEF Alias!consent, AliasInv
  <2>2. h \in Alias!Handler /\ h.op = "consent"
    BY <2>1 DEF Alias!Handler
  <2>3. HandlerActs(h)
    BY <2>1 DEF HandlerActs
  <2>4. ~Opening(h) /\ aliasCall' = [aliasCall EXCEPT ![c] = h]
        /\ UNCHANGED <<alias, challenge, port, cooling, ported, early, overtaken>>
    BY <1>13 DEF Alias!consent, Alias!Takes, Opening
  <2> HIDE DEF h
  <2> QED BY <2>2, <2>3, <2>4, RequestTakesInv
<1> QED BY <1>1, <1>2, <1>3, <1>5, <1>6, <1>7, <1>8, <1>9, <1>10, <1>11, <1>12, <1>13,
  <1>14, <1>15, <1>16, MovesInv DEF Alias!Next

-----------------------------------------------------------------------------
(* Routing: the order of a cache.                                          *)

\* A set of rules that can be compared.
Comparable(set) == IsFiniteSet(set) /\ \A r \in set : r.priority \in Int /\ Len(r.pattern) \in Nat

InOrder(order, set) ==
  /\ order \in [1 .. Cardinality(set) -> set]
  /\ \A i, j \in 1 .. Cardinality(set) : i # j => order[i] # order[j]
  /\ \A i, j \in 1 .. Cardinality(set) : i < j => ~Routes!Before(order[j], order[i])

LEMMA BeforeIsAnOrder ==
  ASSUME NEW set, Comparable(set), NEW r \in set, NEW s \in set, NEW t \in set
  PROVE  /\ ~Routes!Before(r, r)
         /\ Routes!Before(r, s) /\ Routes!Before(s, t) => Routes!Before(r, t)
<1>1. PICK a \in Int, b \in Int, c \in Int : a = r.priority /\ b = s.priority /\ c = t.priority
  BY DEF Comparable
<1>2. PICK k \in Nat, l \in Nat, m \in Nat : k = Len(r.pattern) /\ l = Len(s.pattern) /\ m = Len(t.pattern)
  BY DEF Comparable
<1>3. /\ Routes!Before(r, r) <=> a < a \/ (a = a /\ k > k)
      /\ Routes!Before(r, s) <=> a < b \/ (a = b /\ k > l)
      /\ Routes!Before(s, t) <=> b < c \/ (b = c /\ l > m)
      /\ Routes!Before(r, t) <=> a < c \/ (a = c /\ k > m)
  BY <1>1, <1>2 DEF Routes!Before
<1> QED BY <1>3

\* One rule comes before no other.
LEMMA OneIsLast ==
  ASSUME NEW set, Comparable(set), set # {}
  PROVE  \E m \in set : \A s \in set : ~Routes!Before(m, s)
<1> DEFINE T == {u \in SUBSET set : u # {} /\ ~\E m \in u : \A s \in u : ~Routes!Before(m, s)}
<1>1. SUFFICES ASSUME T # {} PROVE FALSE
  OBVIOUS
<1>2. T \subseteq SUBSET set /\ IsFiniteSet(set)
  BY DEF Comparable
<1>3. PICK u \in T : \A v \in T : v \subseteq u => v = u
  <2> HIDE DEF T
  <2> QED BY <1>1, <1>2, Smallest
<1>4. u \subseteq set /\ u # {} /\ ~\E m \in u : \A s \in u : ~Routes!Before(m, s)
  OBVIOUS
<1>5. PICK x \in u : TRUE
  BY <1>4
<1>6. u \ {x} \notin T
  BY <1>3, <1>5
<1>7. CASE u \ {x} = {}
  <2>1. \A s \in u : s = x
    BY <1>7
  <2>2. ~Routes!Before(x, x)
    BY <1>4, <1>5, BeforeIsAnOrder
  <2> QED BY <1>4, <1>5, <2>1, <2>2
<1>8. CASE u \ {x} # {}
  <2>1. PICK m \in u \ {x} : \A s \in u \ {x} : ~Routes!Before(m, s)
    BY <1>4, <1>6, <1>8
  <2>2. CASE ~Routes!Before(m, x)
    BY <1>4, <2>1, <2>2
  <2>3. CASE Routes!Before(m, x)
    <3>1. ASSUME NEW s \in u
          PROVE  ~Routes!Before(x, s)
      <4>1. CASE s = x
        BY <1>4, <1>5, <4>1, BeforeIsAnOrder
      <4>2. CASE s # x
        <5>1. m \in set /\ x \in set /\ s \in set /\ ~Routes!Before(m, s)
          BY <1>4, <1>5, <2>1, <4>2
        <5> QED BY <2>3, <5>1, BeforeIsAnOrder
      <4> QED BY <4>1, <4>2
    <3> QED BY <1>4, <1>5, <3>1
  <2> QED BY <2>2, <2>3
<1> QED BY <1>7, <1>8

LEMMA ComparableSubset ==
  ASSUME NEW set, Comparable(set), NEW u, u \subseteq set
  PROVE  Comparable(u)
BY FS_Subset DEF Comparable

LEMMA OrderExists ==
  ASSUME NEW set, Comparable(set)
  PROVE  \E order : InOrder(order, set)
<1> DEFINE T == {u \in SUBSET set : ~\E order : InOrder(order, u)}
<1>1. SUFFICES ASSUME T # {} PROVE FALSE
  <2>1. set \notin T => \E order : InOrder(order, set)
    OBVIOUS
  <2> QED BY <2>1
<1>2. T \subseteq SUBSET set /\ IsFiniteSet(set)
  BY DEF Comparable
<1>3. PICK u \in T : \A v \in T : v \subseteq u => v = u
  <2> HIDE DEF T
  <2> QED BY <1>1, <1>2, Smallest
<1>4. u \subseteq set /\ ~\E order : InOrder(order, u)
  OBVIOUS
<1>5. Comparable(u) /\ IsFiniteSet(u)
  BY <1>4, ComparableSubset DEF Comparable
<1>6. u # {}
  <2>1. InOrder(<< >>, {})
    <3>1. Cardinality({}) = 0 /\ 1 .. 0 = {}
      BY FS_EmptySet
    <3> QED BY <3>1 DEF InOrder
  <2> QED BY <1>4, <2>1
<1>7. PICK m \in u : \A s \in u : ~Routes!Before(m, s)
  BY <1>5, <1>6, OneIsLast
<1>8. PICK v : v = u \ {m}
  OBVIOUS
<1>9. PICK order : InOrder(order, v)
  <2>1. v \notin T /\ v \in SUBSET set
    BY <1>3, <1>4, <1>8
  <2> QED BY <2>1
<1>10. PICK n \in Nat : n = Cardinality(v) /\ Cardinality(u) = n + 1
  <2>1. Cardinality(v) = Cardinality(u) - 1 /\ Cardinality(u) \in Nat /\ IsFiniteSet(v)
    BY <1>5, <1>8, FS_RemoveElement, FS_CardinalityType
  <2>2. Cardinality(v) \in Nat
    BY <2>1, FS_CardinalityType
  <2> QED BY <2>1, <2>2
<1> HIDE DEF T
<1> DEFINE more == [i \in 1 .. n + 1 |-> IF i <= n THEN order[i] ELSE m]
<1>11. \A i \in 1 .. n : i \in 1 .. n + 1 /\ more[i] = order[i] /\ order[i] \in v
  BY <1>9, <1>10 DEF InOrder
<1>12. more[n + 1] = m /\ m \notin v /\ m \in u /\ v \subseteq u
  BY <1>8
<1>13. \A i \in 1 .. n + 1 : i \in 1 .. n \/ i = n + 1
  OBVIOUS
<1>14. more \in [1 .. n + 1 -> u]
  BY <1>11, <1>12, <1>13
<1> HIDE DEF more
<1>15. \A i, j \in 1 .. n : (i # j => order[i] # order[j]) /\ (i < j => ~Routes!Before(order[j], order[i]))
  BY <1>9, <1>10 DEF InOrder
<1>16. ASSUME NEW i \in 1 .. n + 1, NEW j \in 1 .. n + 1
       PROVE  /\ i # j => more[i] # more[j]
              /\ i < j => ~Routes!Before(more[j], more[i])
  <2>1. CASE i \in 1 .. n /\ j \in 1 .. n
    BY <1>11, <1>15, <2>1
  <2>2. CASE i \in 1 .. n /\ j = n + 1
    BY <1>7, <1>11, <1>12, <2>2
  <2>3. CASE i = n + 1 /\ j \in 1 .. n
    <3>1. ~(i < j)
      BY <2>3
    <3> QED BY <1>11, <1>12, <2>3, <3>1
  <2>4. CASE i = n + 1 /\ j = n + 1
    BY <2>4
  <2> QED BY <1>13, <2>1, <2>2, <2>3, <2>4
<1>17. InOrder(more, u)
  BY <1>10, <1>14, <1>16 DEF InOrder
<1> QED BY <1>4, <1>17

LEMMA SortedIs ==
  ASSUME NEW set, Comparable(set)
  PROVE  InOrder(Routes!Sorted(set), set)
<1>0. Cardinality(set) = Routes!Cardinality(set)
  BY DEF Cardinality, Routes!Cardinality, IsFiniteSet, Routes!IsFiniteSet
<1>1. PICK n : n = Cardinality(set)
  OBVIOUS
<1>2. \A order : order \in Routes!SetToSeqs(set) <=>
        order \in [1 .. n -> set] /\ \A i, j \in 1 .. n : i # j => order[i] # order[j]
  BY <1>0, <1>1 DEF Routes!SetToSeqs
<1>3. \A order : InOrder(order, set) <=>
        order \in Routes!SetToSeqs(set) /\ \A i, j \in DOMAIN order : i < j => ~Routes!Before(order[j], order[i])
  BY <1>1, <1>2 DEF InOrder
<1>4. PICK order : InOrder(order, set)
  BY OrderExists
<1>5. \E o \in Routes!SetToSeqs(set) : \A i, j \in DOMAIN o : i < j => ~Routes!Before(o[j], o[i])
  BY <1>3, <1>4
<1>6. /\ Routes!Sorted(set) \in Routes!SetToSeqs(set)
      /\ \A i, j \in DOMAIN Routes!Sorted(set) : i < j => ~Routes!Before(Routes!Sorted(set)[j], Routes!Sorted(set)[i])
  BY <1>5, Zenon DEF Routes!Sorted
<1> QED BY <1>3, <1>6

\* Every rule of the table is in the cache, and no other.
LEMMA SortedHas ==
  ASSUME NEW set, Comparable(set)
  PROVE  /\ Routes!Sorted(set) \in Seq(set)
         /\ DOMAIN Routes!Sorted(set) \subseteq Nat
         /\ \A i \in DOMAIN Routes!Sorted(set) : Routes!Sorted(set)[i] \in set
         /\ \A r \in set : \E i \in DOMAIN Routes!Sorted(set) : Routes!Sorted(set)[i] = r
         /\ \A i, j \in DOMAIN Routes!Sorted(set) : i < j => ~Routes!Before(Routes!Sorted(set)[j], Routes!Sorted(set)[i])
         /\ Routes!ToSet(Routes!Sorted(set)) = set
<1>1. PICK order : order = Routes!Sorted(set)
  OBVIOUS
<1>2. InOrder(order, set) /\ IsFiniteSet(set)
  BY <1>1, SortedIs DEF Comparable
<1>3. PICK n \in Nat : n = Cardinality(set)
  BY <1>2, FS_CardinalityType
<1>4. order \in [1 .. n -> set] /\ DOMAIN order = 1 .. n
  BY <1>2, <1>3 DEF InOrder
<1>5. order \in Seq(set)
  BY <1>4, SeqDef
<1>6. order \in Surjection(1 .. n, set)
  <2>1. order \in Injection(1 .. n, set)
    <3>1. \A i, j \in 1 .. n : order[i] = order[j] => i = j
      BY <1>2, <1>3 DEF InOrder
    <3> QED BY <1>4, <3>1 DEF Injection, IsInjective
  <2>2. Cardinality(1 .. n) = n /\ IsFiniteSet(1 .. n)
    BY FS_Interval
  <2> QED BY <1>2, <1>3, <2>1, <2>2, FS_Injection
<1>7. \A r \in set : \E i \in DOMAIN order : order[i] = r
  BY <1>4, <1>6 DEF Surjection
<1>8. \A i, j \in DOMAIN order : i < j => ~Routes!Before(order[j], order[i])
  BY <1>2, <1>3, <1>4 DEF InOrder
<1>9. Routes!ToSet(order) = set
  BY <1>4, <1>7 DEF Routes!ToSet
<1> QED BY <1>1, <1>4, <1>5, <1>7, <1>8, <1>9

-----------------------------------------------------------------------------
(* Routing: what a lookup finds.                                           *)

\* The rule that a lookup finds fits the number, none that fits comes before
\* it in priority, and of those of its priority none is longer: for every
\* finite table and every number (lookupLongestPrefix walks a list that the
\* query has sorted).
THEOREM FirstIsBestInGeneral ==
  ASSUME NEW tables, \A set \in tables : Comparable(set), NEW values
  PROVE  Routes!FirstIsBest(tables, values)
<1> SUFFICES ASSUME NEW set \in tables, NEW type \in {"BIN", "MSISDN_PREFIX"}, NEW v \in values
             PROVE  LET found == Routes!lookupLongestPrefix(Routes!Sorted(set), type, v)
                        fits == {r \in set : Routes!Matching(r, type, v)}
                    IN  IF fits = {} THEN found = None
                        ELSE /\ found \in fits
                             /\ \A r \in fits :
                                  \/ found.priority < r.priority
                                  \/ found.priority = r.priority /\ Len(found.pattern) >= Len(r.pattern)
  BY Zenon DEF Routes!FirstIsBest
<1>0. Comparable(set)
  OBVIOUS
<1>1. PICK order : order = Routes!Sorted(set)
  OBVIOUS
<1>2. /\ DOMAIN order \subseteq Nat
      /\ \A i \in DOMAIN order : order[i] \in set
      /\ \A r \in set : \E i \in DOMAIN order : order[i] = r
      /\ \A i, j \in DOMAIN order : i < j => ~Routes!Before(order[j], order[i])
  BY <1>0, <1>1, SortedHas
<1> DEFINE places == {i \in DOMAIN order : Routes!Matching(order[i], type, v)}
           fits == {r \in set : Routes!Matching(r, type, v)}
<1>3. Routes!lookupLongestPrefix(order, type, v) = IF places = {} THEN None ELSE order[Routes!Min(places)]
  BY DEF Routes!lookupLongestPrefix, Routes!FirstOf, Routes!Matching
<1>4. CASE places = {}
  <2>1. fits = {}
    BY <1>2, <1>4
  <2> QED BY <1>1, <1>3, <1>4, <2>1
<1>5. CASE places # {}
  <2>1. PICK k \in places : k = Routes!Min(places) /\ \A y \in places : k <= y
    <3>1. places \subseteq Nat
      BY <1>2
    <3> HIDE DEF places
    <3>2. \E m \in places : \A y \in places : m <= y
      BY <1>5, <3>1, LeastOf
    <3> QED BY <3>2 DEF Routes!Min
  <2>2. PICK found : found = order[k] /\ found = Routes!lookupLongestPrefix(order, type, v)
    BY <1>3, <1>5, <2>1
  <2>3. k \in DOMAIN order /\ Routes!Matching(order[k], type, v)
    BY <2>1
  <2>4. found \in fits
    BY <1>2, <2>2, <2>3
  <2>5. ASSUME NEW r \in fits
        PROVE  \/ found.priority < r.priority
               \/ found.priority = r.priority /\ Len(found.pattern) >= Len(r.pattern)
    <3>1. PICK i \in DOMAIN order : order[i] = r
      BY <1>2
    <3>2. k <= i /\ k \in Nat /\ i \in Nat
      BY <1>2, <2>1, <2>3, <3>1
    <3>3. ~Routes!Before(r, found)
      <4>1. CASE k = i
        BY <1>0, <2>2, <3>1, <4>1, BeforeIsAnOrder
      <4>2. CASE k < i
        BY <1>2, <2>2, <2>3, <3>1, <4>2
      <4> QED BY <3>2, <4>1, <4>2
    <3>4. PICK a \in Int, b \in Int, l \in Nat, m \in Nat :
            a = found.priority /\ b = r.priority /\ l = Len(found.pattern) /\ m = Len(r.pattern)
      BY <1>0, <2>4 DEF Comparable
    <3>5. ~(b < a) /\ ~(b = a /\ m > l)
      BY <3>3, <3>4 DEF Routes!Before
    <3>6. a < b \/ (a = b /\ l >= m)
      BY <3>5
    <3> QED BY <3>4, <3>6
  <2> QED BY <1>1, <2>2, <2>4, <2>5
<1> QED BY <1>4, <1>5

LEMMA TablesFirstIsBest == Routes!FirstIsBest(Tables, Values)
<1>1. /\ <<1>> \in Seq(Nat) /\ <<1, 2>> \in Seq(Nat) /\ <<1, 2, 3>> \in Seq(Nat) /\ <<2>> \in Seq(Nat)
  OBVIOUS
<1>2. PICK all : all = {Bin(<<1>>, "A", 1), Bin(<<1, 2>>, "B", 2), Bin(<<1, 2, 3>>, "C", 1), Bin(<<2>>, "A", 1)}
  OBVIOUS
<1>3. IsFiniteSet(all)
  <2>1. IsFiniteSet({Bin(<<1>>, "A", 1)})
    BY FS_Singleton
  <2>2. IsFiniteSet({Bin(<<1>>, "A", 1)} \cup {Bin(<<1, 2>>, "B", 2)})
    BY <2>1, FS_AddElement
  <2>3. IsFiniteSet({Bin(<<1>>, "A", 1)} \cup {Bin(<<1, 2>>, "B", 2)} \cup {Bin(<<1, 2, 3>>, "C", 1)})
    BY <2>2, FS_AddElement
  <2>4. IsFiniteSet({Bin(<<1>>, "A", 1)} \cup {Bin(<<1, 2>>, "B", 2)} \cup {Bin(<<1, 2, 3>>, "C", 1)}
                    \cup {Bin(<<2>>, "A", 1)})
    BY <2>3, FS_AddElement
  <2>5. all = {Bin(<<1>>, "A", 1)} \cup {Bin(<<1, 2>>, "B", 2)} \cup {Bin(<<1, 2, 3>>, "C", 1)}
                    \cup {Bin(<<2>>, "A", 1)}
    BY <1>2
  <2> QED BY <2>4, <2>5
<1>4. ASSUME NEW pattern \in Seq(Nat), NEW code, NEW priority \in Nat
      PROVE  Bin(pattern, code, priority).priority \in Int /\ Len(Bin(pattern, code, priority).pattern) \in Nat
  BY DEF Bin
<1>5. Comparable(all)
  <2>1. \A r \in all : r.priority \in Int /\ Len(r.pattern) \in Nat
    BY <1>1, <1>2, <1>4
  <2> QED BY <1>3, <2>1 DEF Comparable
<1>6. \A set \in Tables : Comparable(set)
  BY <1>2, <1>5, ComparableSubset DEF Tables
<1> QED BY <1>6, FirstIsBestInGeneral

-----------------------------------------------------------------------------
(* Routing: the handlers.                                                  *)

\* A handler that overlaps with none has what the table will be.
AloneIsRight(c) ==
  ruleCall[c].alone =>
    /\ \A d \in Callers \ {c} : ruleCall[d] = Routes!Idle
    /\ ruleCall[c].step = "loaded" => ruleCall[c].loaded = Routes!After(c)
    /\ ruleCall[c].step = "replaced" => Routes!ToSet(cache[ruleCall[c].in]) = Routes!After(c)

ActsOn(h) ==
  /\ h.op \in {"add", "remove"} => h.rule \in Rules
  /\ h.op # "none" => h.in \in Things
  /\ h.op = "none" => h = Routes!Idle
  /\ h.op = "reload" => h.step # "replaced"

RoutesInv ==
  /\ Routes!RTypeOK
  /\ cache = [p \in Things |-> cache[p]]
  /\ \A c \in Callers : ActsOn(ruleCall[c]) /\ AloneIsRight(c)
  /\ \A p \in quiet : Routes!ToSet(cache[p]) = rules

LEMMA RoutesInitInv ==
  ASSUME Routes!RInit
  PROVE  RoutesInv
<1>1. Routes!Idle \in Routes!Handler /\ ~Routes!Idle.alone /\ ActsOn(Routes!Idle)
  BY DEF Routes!Idle, Routes!Handler, Routes!Ops, ActsOn
<1>2. << >> \in Seq(Rules)
  OBVIOUS
<1>3. Routes!RTypeOK
  BY <1>1, <1>2 DEF Routes!RInit, Routes!RTypeOK
<1>4. \A c \in Callers : ruleCall[c] = Routes!Idle
  BY DEF Routes!RInit
<1>5. \A c \in Callers : ActsOn(ruleCall[c]) /\ AloneIsRight(c)
  BY <1>1, <1>4 DEF AloneIsRight
<1>6. cache = [p \in Things |-> cache[p]] /\ quiet = {}
  BY DEF Routes!RInit
<1> QED BY <1>3, <1>5, <1>6 DEF RoutesInv

LEMMA RouteTypes ==
  ASSUME RoutesInv, NEW c \in Callers
  PROVE  /\ ruleCall[c] \in Routes!Handler /\ ActsOn(ruleCall[c]) /\ AloneIsRight(c)
         /\ ruleCall[c].op \in {"add", "remove", "reload", "none"} /\ ruleCall[c].loaded \subseteq Rules
         /\ ruleCall[c].rule \in Rules \cup {None} /\ ruleCall[c].in \in Things \cup {None}
         /\ ruleCall[c].alone \in BOOLEAN
         /\ Routes!After(c) \subseteq Rules
<1>1. ruleCall[c] \in Routes!Handler
  BY DEF RoutesInv, Routes!RTypeOK
<1>2. /\ ruleCall[c].op \in {"add", "remove", "reload", "none"} /\ ruleCall[c].loaded \subseteq Rules
      /\ ruleCall[c].rule \in Rules \cup {None} /\ ruleCall[c].in \in Things \cup {None}
      /\ ruleCall[c].alone \in BOOLEAN
  BY <1>1 DEF Routes!Handler, Routes!Ops
<1>3. ActsOn(ruleCall[c]) /\ AloneIsRight(c) /\ rules \subseteq Rules
  BY DEF RoutesInv, Routes!RTypeOK
<1>4. Routes!After(c) \subseteq Rules
  BY <1>3, Zenon DEF Routes!After, ActsOn
<1> QED BY <1>1, <1>2, <1>3, <1>4

\* A handler begins.
LEMMA BeginsRoute ==
  ASSUME RoutesInv, NEW c \in Callers, NEW p \in Things, NEW op \in Routes!Ops, NEW r \in Rules \cup {None},
         op # "reload" => r \in Rules, Routes!Begins(c, p, op, r)
  PROVE  RoutesInv'
<1>1. PICK h : h = [Routes!Idle EXCEPT !.op = op, !.rule = r, !.in = p,
                                       !.alone = \A e \in Callers \ {c} : ruleCall[e] = Routes!Idle]
  OBVIOUS
<1>2. /\ h.op = op /\ h.rule = r /\ h.in = p /\ h.step = "start"
      /\ h.alone = (\A e \in Callers \ {c} : ruleCall[e] = Routes!Idle)
      /\ h \in Routes!Handler
  BY <1>1 DEF Routes!Idle, Routes!Handler
<1>3. ActsOn(h)
  BY <1>2 DEF ActsOn, Routes!Ops
<1>4. /\ ruleCall[c] = Routes!Idle /\ UNCHANGED <<rules, cache, quiet>>
      /\ ruleCall' = [d \in Callers |->
           IF d = c THEN h
           ELSE IF ruleCall[d] = Routes!Idle THEN Routes!Idle ELSE [ruleCall[d] EXCEPT !.alone = FALSE]]
  BY <1>1 DEF Routes!Begins
<1>5. ASSUME NEW d \in Callers, d # c
      PROVE  /\ ruleCall'[d] \in Routes!Handler /\ ~ruleCall'[d].alone /\ ActsOn(ruleCall'[d])
             /\ ruleCall[d] = Routes!Idle => ruleCall'[d] = Routes!Idle
  <2>1. ruleCall[d] \in Routes!Handler /\ ActsOn(ruleCall[d])
    BY RouteTypes
  <2>2. CASE ruleCall[d] = Routes!Idle
    BY <1>4, <1>5, <2>1, <2>2 DEF Routes!Idle
  <2>3. CASE ruleCall[d] # Routes!Idle
    <3>1. ruleCall'[d] = [ruleCall[d] EXCEPT !.alone = FALSE]
      BY <1>4, <1>5, <2>3
    <3> QED BY <2>1, <2>3, <3>1 DEF Routes!Handler, ActsOn
  <2> QED BY <2>2, <2>3
<1>6. ruleCall'[c] = h
  BY <1>4
<1>7. Routes!RTypeOK'
  <2>1. ruleCall' \in [Callers -> Routes!Handler]
    <3>1. ruleCall' = [d \in Callers |-> ruleCall'[d]]
      BY <1>4
    <3> QED BY <1>2, <1>5, <1>6, <3>1
  <2> QED BY <1>4, <2>1 DEF RoutesInv, Routes!RTypeOK
<1>8. ASSUME NEW d \in Callers
      PROVE  ActsOn(ruleCall'[d]) /\ AloneIsRight(d)'
  <2>1. CASE d = c
    BY <1>2, <1>3, <1>5, <1>6, <2>1 DEF AloneIsRight
  <2>2. CASE d # c
    BY <1>5, <2>2 DEF AloneIsRight
  <2> QED BY <2>1, <2>2
<1> QED BY <1>4, <1>7, <1>8 DEF RoutesInv

\* A handler that is under way goes on to h.
LEMMA HandlerMoves ==
  ASSUME RoutesInv, NEW c \in Callers, NEW h \in Routes!Handler, ruleCall' = [ruleCall EXCEPT ![c] = h],
         ruleCall[c] # Routes!Idle, ActsOn(h), h.alone => ruleCall[c].alone
  PROVE  /\ ruleCall' \in [Callers -> Routes!Handler] /\ ruleCall'[c] = h
         /\ \A d \in Callers : ActsOn(ruleCall'[d])
         /\ \A d \in Callers \ {c} : ruleCall'[d] = ruleCall[d] /\ ~ruleCall'[d].alone
         /\ h.alone => \A d \in Callers \ {c} : ruleCall'[d] = Routes!Idle
<1>1. ruleCall \in [Callers -> Routes!Handler]
  BY DEF RoutesInv, Routes!RTypeOK
<1>2. \A d \in Callers : ActsOn(ruleCall[d]) /\ AloneIsRight(d)
  BY DEF RoutesInv
<1>3. ~Routes!Idle.alone
  BY DEF Routes!Idle
<1> QED BY <1>1, <1>2, <1>3 DEF AloneIsRight

LEMMA OthersAreRight ==
  ASSUME NEW c \in Callers, \A d \in Callers \ {c} : ~ruleCall'[d].alone, AloneIsRight(c)'
  PROVE  \A d \in Callers : AloneIsRight(d)'
BY DEF AloneIsRight

LEMMA WritesInv ==
  ASSUME RoutesInv, NEW c \in Callers, Routes!WritesRule(c) \/ Routes!loadAllActive(c)
  PROVE  RoutesInv'
<1>1. PICK h : ruleCall' = [ruleCall EXCEPT ![c] = h] /\ ruleCall[c] # Routes!Idle
               /\ UNCHANGED <<rules, cache, quiet>>
               /\ (\/ h = [ruleCall[c] EXCEPT !.step = "wrote"] /\ ruleCall[c].op # "reload"
                   \/ h = [ruleCall[c] EXCEPT !.step = "loaded", !.loaded = Routes!After(c)])
  <2>1. CASE Routes!WritesRule(c)
    <3>1. ruleCall[c].op \in {"add", "remove"} /\ UNCHANGED <<rules, cache, quiet>>
          /\ ruleCall' = [ruleCall EXCEPT ![c] = [ruleCall[c] EXCEPT !.step = "wrote"]]
      BY <2>1 DEF Routes!WritesRule
    <3>2. Routes!Idle.op = "none"
      BY DEF Routes!Idle
    <3>3. ruleCall[c] # Routes!Idle /\ ruleCall[c].op # "reload"
      BY <3>1, <3>2
    <3> QED BY <3>1, <3>3
  <2>2. CASE Routes!loadAllActive(c)
    <3>1. ruleCall[c] # Routes!Idle /\ UNCHANGED <<rules, cache, quiet>>
          /\ ruleCall' = [ruleCall EXCEPT ![c] = [ruleCall[c] EXCEPT !.step = "loaded", !.loaded = Routes!After(c)]]
      BY <2>2 DEF Routes!loadAllActive, Routes!Visible
    <3> QED BY <3>1
  <2> QED BY <2>1, <2>2
<1>2. /\ h \in Routes!Handler /\ h.op = ruleCall[c].op /\ h.rule = ruleCall[c].rule /\ h.in = ruleCall[c].in
      /\ h.alone = ruleCall[c].alone /\ h.step \in {"wrote", "loaded"}
      /\ h.step = "loaded" => h.loaded = Routes!After(c)
  BY <1>1, RouteTypes DEF Routes!Handler
<1>3. ActsOn(h)
  <2>1. ruleCall[c].op # "none"
    BY <1>1, RouteTypes DEF ActsOn
  <2> QED BY <1>2, <2>1, RouteTypes DEF ActsOn
<1>4. /\ ruleCall' \in [Callers -> Routes!Handler] /\ ruleCall'[c] = h
      /\ \A d \in Callers : ActsOn(ruleCall'[d])
      /\ \A d \in Callers \ {c} : ~ruleCall'[d].alone
      /\ h.alone => \A d \in Callers \ {c} : ruleCall'[d] = Routes!Idle
  BY <1>1, <1>2, <1>3, HandlerMoves
<1>5. Routes!After(c)' = Routes!After(c)
  BY <1>1, <1>2, <1>4 DEF Routes!After
<1>6. AloneIsRight(c)'
  BY <1>1, <1>2, <1>4, <1>5 DEF AloneIsRight
<1>7. \A d \in Callers : AloneIsRight(d)'
  BY <1>4, <1>6, OthersAreRight
<1>8. Routes!RTypeOK'
  BY <1>1, <1>4 DEF RoutesInv, Routes!RTypeOK
<1> QED BY <1>1, <1>4, <1>7, <1>8 DEF RoutesInv

LEMMA SortedRules ==
  ASSUME NEW set, set \subseteq Rules
  PROVE  Routes!Sorted(set) \in Seq(Rules) /\ Routes!ToSet(Routes!Sorted(set)) = set
<1>1. Comparable(Rules)
  BY RoutingAssumption DEF Comparable
<1>2. Comparable(set)
  BY <1>1, ComparableSubset
<1>3. Routes!Sorted(set) \in Seq(set) /\ Routes!ToSet(Routes!Sorted(set)) = set
  BY <1>2, SortedHas
<1> QED BY <1>3, SeqMonotonic

LEMMA ReplacesInv ==
  ASSUME RoutesInv, NEW c \in Callers, Routes!Replaces(c)
  PROVE  RoutesInv'
<1>0. /\ ruleCall[c] \in Routes!Handler /\ ActsOn(ruleCall[c]) /\ AloneIsRight(c)
      /\ ruleCall[c].loaded \subseteq Rules /\ ruleCall[c].op \in {"add", "remove", "reload", "none"}
      /\ ruleCall[c].step = "loaded" /\ ruleCall[c] # Routes!Idle
  BY RouteTypes DEF Routes!Replaces, Routes!Idle
<1>1. PICK p \in Things : p = ruleCall[c].in
  BY <1>0 DEF ActsOn
<1>2. PICK order : order = Routes!Sorted(ruleCall[c].loaded)
  OBVIOUS
<1>3. order \in Seq(Rules) /\ Routes!ToSet(order) = ruleCall[c].loaded
  BY <1>0, <1>2, SortedRules
<1>4. cache' = [cache EXCEPT ![p] = order] /\ rules' = rules
  BY <1>1, <1>2 DEF Routes!Replaces, Routes!replaceWith
<1>5. cache' = [q \in Things |-> cache'[q]] /\ \A q \in Things : cache'[q] = IF q = p THEN order ELSE cache[q]
  BY <1>4 DEF RoutesInv
<1>6. \A q \in Things : cache'[q] \in Seq(Rules)
  BY <1>3, <1>5 DEF RoutesInv, Routes!RTypeOK
<1>7. PICK h \in Routes!Handler :
        /\ ruleCall' = [ruleCall EXCEPT ![c] = h] /\ ActsOn(h) /\ (h.alone => ruleCall[c].alone)
        /\ h = Routes!Idle \/ (h.alone = ruleCall[c].alone /\ h.op = ruleCall[c].op /\ h.rule = ruleCall[c].rule
                               /\ h.in = ruleCall[c].in /\ h.step = "replaced")
        /\ quiet' = quiet \ {p} \/ (quiet' = quiet \cup {p} /\ ruleCall[c].alone /\ ruleCall[c].op = "reload")
  <2>1. CASE ruleCall[c].op = "reload"
    <3>1. ruleCall' = [ruleCall EXCEPT ![c] = Routes!Idle]
          /\ quiet' = IF ruleCall[c].alone THEN quiet \cup {p} ELSE quiet \ {p}
      BY <1>1, <2>1 DEF Routes!Replaces
    <3>2. Routes!Idle \in Routes!Handler /\ ~Routes!Idle.alone /\ ActsOn(Routes!Idle)
      BY DEF Routes!Idle, Routes!Handler, ActsOn
    <3> QED BY <2>1, <3>1, <3>2
  <2>2. CASE ruleCall[c].op # "reload"
    <3>1. PICK h : h = [ruleCall[c] EXCEPT !.step = "replaced", !.loaded = {}]
      OBVIOUS
    <3>2. ruleCall' = [ruleCall EXCEPT ![c] = h] /\ quiet' = quiet \ {p}
      BY <1>1, <2>2, <3>1 DEF Routes!Replaces
    <3>3. /\ h \in Routes!Handler /\ h.alone = ruleCall[c].alone /\ h.op = ruleCall[c].op
          /\ h.rule = ruleCall[c].rule /\ h.in = ruleCall[c].in /\ h.step = "replaced"
      BY <1>0, <3>1 DEF Routes!Handler
    <3>4. ActsOn(h)
      BY <1>0, <2>2, <3>3 DEF ActsOn
    <3> QED BY <3>2, <3>3, <3>4
  <2> QED BY <2>1, <2>2
<1>8. /\ ruleCall' \in [Callers -> Routes!Handler] /\ ruleCall'[c] = h
      /\ \A d \in Callers : ActsOn(ruleCall'[d])
      /\ \A d \in Callers \ {c} : ~ruleCall'[d].alone
      /\ h.alone => \A d \in Callers \ {c} : ruleCall'[d] = Routes!Idle
  BY <1>0, <1>7, HandlerMoves
<1>9. Routes!RTypeOK'
  BY <1>4, <1>6, <1>7, <1>8 DEF RoutesInv, Routes!RTypeOK
<1>10. AloneIsRight(c)'
  <2>1. CASE h = Routes!Idle
    BY <1>8, <2>1 DEF AloneIsRight, Routes!Idle
  <2>2. CASE h # Routes!Idle
    <3>1. Routes!After(c)' = Routes!After(c)
      BY <1>4, <1>7, <1>8, <2>2 DEF Routes!After
    <3>2. ruleCall[c].alone => Routes!ToSet(cache'[p]) = Routes!After(c)
      BY <1>0, <1>3, <1>5 DEF AloneIsRight
    <3> QED BY <1>1, <1>7, <1>8, <2>2, <3>1, <3>2 DEF AloneIsRight
  <2> QED BY <2>1, <2>2
<1>11. \A d \in Callers : AloneIsRight(d)'
  BY <1>8, <1>10, OthersAreRight
<1>12. \A q \in quiet' : Routes!ToSet(cache'[q]) = rules'
  <2>0. quiet \subseteq Things /\ \A q \in quiet : Routes!ToSet(cache[q]) = rules
    BY DEF RoutesInv, Routes!RTypeOK
  <2>1. \A q \in quiet \ {p} : Routes!ToSet(cache'[q]) = rules'
    BY <1>4, <1>5, <2>0
  <2>2. ruleCall[c].alone /\ ruleCall[c].op = "reload" => Routes!ToSet(cache'[p]) = rules'
    <3>1. SUFFICES ASSUME ruleCall[c].alone, ruleCall[c].op = "reload"
                   PROVE  Routes!ToSet(cache'[p]) = rules'
      OBVIOUS
    <3>2. ruleCall[c].loaded = rules
      BY <1>0, <3>1 DEF AloneIsRight, Routes!After
    <3> QED BY <1>3, <1>4, <1>5, <3>2
  <2> QED BY <1>7, <2>1, <2>2
<1> QED BY <1>5, <1>8, <1>9, <1>11, <1>12 DEF RoutesInv

LEMMA RoutesStepInv ==
  ASSUME RoutesInv, Routes!RNext
  PROVE  RoutesInv'
<1>1. PICK c \in Callers :
        \/ \E p \in Things :
             \/ \E r \in Rules : Routes!addRule(c, p, r) \/ Routes!removeRule(c, p, r)
             \/ Routes!reload(c, p)
        \/ Routes!WritesRule(c) \/ Routes!loadAllActive(c) \/ Routes!Replaces(c)
        \/ Routes!Commits(c) \/ Routes!RollsBack(c)
  BY DEF Routes!RNext
<1>2. /\ Routes!Idle \in Routes!Handler /\ ~Routes!Idle.alone /\ ActsOn(Routes!Idle)
      /\ Routes!Idle.step # "replaced"
  BY DEF Routes!Idle, Routes!Handler, ActsOn
<1>3. ASSUME NEW p \in Things, NEW r \in Rules, Routes!addRule(c, p, r) \/ Routes!removeRule(c, p, r)
      PROVE  RoutesInv'
  BY <1>3, BeginsRoute DEF Routes!addRule, Routes!removeRule, Routes!Ops
<1>4. ASSUME NEW p \in Things, Routes!reload(c, p)
      PROVE  RoutesInv'
  BY <1>4, BeginsRoute DEF Routes!reload, Routes!Ops
<1>5. ASSUME ruleCall[c] # Routes!Idle, ruleCall' = [ruleCall EXCEPT ![c] = Routes!Idle], cache' = cache,
             rules' \subseteq Rules, quiet' \subseteq Things,
             \A p \in quiet' : Routes!ToSet(cache[p]) = rules'
      PROVE  RoutesInv'
  <2>1. /\ ruleCall' \in [Callers -> Routes!Handler] /\ ruleCall'[c] = Routes!Idle
        /\ \A d \in Callers : ActsOn(ruleCall'[d])
        /\ \A d \in Callers \ {c} : ~ruleCall'[d].alone
    BY <1>2, <1>5, HandlerMoves
  <2>2. \A d \in Callers : AloneIsRight(d)'
    BY <1>2, <2>1 DEF AloneIsRight
  <2>3. Routes!RTypeOK'
    BY <1>5, <2>1 DEF RoutesInv, Routes!RTypeOK
  <2> QED BY <1>5, <2>1, <2>2, <2>3 DEF RoutesInv
<1>6. ASSUME Routes!RollsBack(c)
      PROVE  RoutesInv'
  BY <1>5, <1>6 DEF Routes!RollsBack, RoutesInv, Routes!RTypeOK
<1>7. ASSUME Routes!Commits(c)
      PROVE  RoutesInv'
  <2>1. /\ ruleCall[c].step = "replaced" /\ rules' = Routes!After(c) /\ cache' = cache
        /\ quiet' = IF ruleCall[c].alone THEN {ruleCall[c].in} ELSE {}
        /\ ruleCall' = [ruleCall EXCEPT ![c] = Routes!Idle]
    BY <1>7 DEF Routes!Commits
  <2>2. ActsOn(ruleCall[c]) /\ AloneIsRight(c) /\ Routes!After(c) \subseteq Rules
        /\ ruleCall[c] # Routes!Idle
    BY <1>2, <2>1, RouteTypes
  <2>3. ruleCall[c].in \in Things
    BY <2>2 DEF ActsOn
  <2>4. \A p \in quiet' : Routes!ToSet(cache[p]) = rules'
    BY <2>1, <2>2 DEF AloneIsRight
  <2> QED BY <1>5, <2>1, <2>2, <2>3, <2>4
<1> QED BY <1>1, <1>3, <1>4, <1>6, <1>7, WritesInv, ReplacesInv

-----------------------------------------------------------------------------
(* Fee schedules.                                                          *)

\* Schedules are numbered as they come.
NumberedAsTheyCome ==
  \A n \in Tariff!Numbers : schedule[n] # Tariff!NoSchedule =>
    \A m \in 1 .. n - 1 : schedule[m] # Tariff!NoSchedule

\* An active schedule is open.
ActiveIsOpen == \A n \in Tariff!Numbers : schedule[n].active => schedule[n].to = None

\* What a publisher saw are schedules of its pair.
SeesItsPair ==
  \A c \in Callers : \A n \in publisher[c].saw :
    publisher[c].of # None /\ schedule[n].of = publisher[c].of

\* A publisher whose pair had no overlapping publication saw what is active.
SeesTheActive ==
  \A c \in Callers : publisher[c].of \in Codes \ unseen =>
    \A n \in Tariff!Numbers :
      n \in publisher[c].saw <=> schedule[n].of = publisher[c].of /\ schedule[n].active

\* Of a pair without overlapping publications the newest schedule is active.
NewestIsActive ==
  \A pair \in Codes \ unseen : \A n \in Tariff!Numbers : schedule[n].of = pair =>
    (schedule[n].active <=> \A m \in Tariff!Numbers : schedule[m].of = pair => m <= n)

FeesInv ==
  /\ Tariff!FTypeOK
  /\ NumberedAsTheyCome /\ ActiveIsOpen /\ SeesItsPair /\ SeesTheActive /\ NewestIsActive

LEMMA FeesInitInv ==
  ASSUME Tariff!FInit
  PROVE  FeesInv
<1> USE FeesAssumption, OwnersAssumption
<1>1. Tariff!FTypeOK
  BY DEF Tariff!FInit, Tariff!FTypeOK, Tariff!Schedule, Tariff!Publisher, Tariff!NoSchedule, Tariff!Idle,
         Tariff!Times
<1>2. \A n \in Tariff!Numbers : schedule[n] = Tariff!NoSchedule
  BY DEF Tariff!FInit
<1>3. \A c \in Callers : publisher[c] = Tariff!Idle
  BY DEF Tariff!FInit
<1>4. ~Tariff!NoSchedule.active /\ Tariff!NoSchedule.of = None /\ Tariff!Idle.of = None /\ Tariff!Idle.saw = {}
  BY DEF Tariff!NoSchedule, Tariff!Idle
<1>5. NumberedAsTheyCome /\ ActiveIsOpen /\ NewestIsActive
  BY <1>2, <1>4 DEF NumberedAsTheyCome, ActiveIsOpen, NewestIsActive
<1>6. SeesItsPair /\ SeesTheActive
  BY <1>3, <1>4 DEF SeesItsPair, SeesTheActive
<1> QED BY <1>1, <1>5, <1>6 DEF FeesInv

LEMMA FeeTypes ==
  ASSUME FeesInv
  PROVE  /\ \A n \in Tariff!Numbers :
              /\ schedule[n] \in Tariff!Schedule
              /\ schedule[n].of \in Codes \cup {None} /\ schedule[n].active \in BOOLEAN
              /\ schedule[n].from \in Nat
         /\ \A c \in Callers :
              /\ publisher[c] \in Tariff!Publisher
              /\ publisher[c].of \in Codes \cup {None} /\ publisher[c].saw \subseteq Tariff!Numbers
              /\ publisher[c].at \in Tariff!Times
         /\ now \in Nat /\ now \in Tariff!Times /\ None \notin Codes
         /\ Tariff!Numbers \subseteq Nat
<1>1. \A n \in Tariff!Numbers : schedule[n] \in Tariff!Schedule
  BY DEF FeesInv, Tariff!FTypeOK
<1>2. \A c \in Callers : publisher[c] \in Tariff!Publisher
  BY DEF FeesInv, Tariff!FTypeOK
<1>3. Tariff!Times \subseteq Nat /\ now \in Tariff!Times /\ Tariff!Numbers \subseteq Nat
  BY FeesAssumption DEF FeesInv, Tariff!FTypeOK, Tariff!Times, Tariff!Numbers
<1>4. None \notin Codes
  BY OwnersAssumption
<1>5. \A n \in Tariff!Numbers : schedule[n].from \in Tariff!Times
                                /\ schedule[n].of \in Codes \cup {None} /\ schedule[n].active \in BOOLEAN
  BY <1>1 DEF Tariff!Schedule
<1>6. \A c \in Callers : publisher[c].of \in Codes \cup {None} /\ publisher[c].saw \subseteq Tariff!Numbers
                         /\ publisher[c].at \in Tariff!Times
  BY <1>2 DEF Tariff!Publisher
<1> QED BY <1>1, <1>2, <1>3, <1>4, <1>5, <1>6

\* A publisher that comes to see what is active, or that has nothing any more.
LEMMA PublisherMoves ==
  ASSUME FeesInv, NEW c \in Callers, NEW h \in Tariff!Publisher,
         publisher' = [publisher EXCEPT ![c] = h], UNCHANGED <<schedule, now, unseen>>,
         \/ h = Tariff!Idle
         \/ h.of \in Codes /\ h.saw = Tariff!ActiveFor(h.of)
  PROVE  FeesInv'
<1>1. Tariff!FTypeOK' /\ \A d \in Callers : publisher'[d] = IF d = c THEN h ELSE publisher[d]
  BY DEF FeesInv, Tariff!FTypeOK
<1>2. None \notin Codes /\ Tariff!Idle.of = None /\ Tariff!Idle.saw = {}
  BY FeeTypes DEF Tariff!Idle
<1>3. SeesItsPair'
  BY <1>1, <1>2 DEF FeesInv, SeesItsPair, Tariff!ActiveFor
<1>4. SeesTheActive'
  BY <1>1, <1>2 DEF FeesInv, SeesTheActive, Tariff!ActiveFor
<1>5. NumberedAsTheyCome' /\ ActiveIsOpen' /\ NewestIsActive'
  BY DEF FeesInv, NumberedAsTheyCome, ActiveIsOpen, NewestIsActive
<1> QED BY <1>1, <1>3, <1>4, <1>5 DEF FeesInv

LEMMA InsertsInv ==
  ASSUME FeesInv, NEW c \in Callers, NEW n \in Tariff!Numbers, NEW from \in Tariff!Times,
         Tariff!insertSchedule(c, n, from)
  PROVE  FeesInv'
<1> USE FeeTypes
<1>0. PICK pair \in Codes : pair = publisher[c].of
  BY DEF Tariff!insertSchedule
<1>1. /\ schedule[n] = Tariff!NoSchedule /\ \A m \in 1 .. n - 1 : schedule[m] # Tariff!NoSchedule
      /\ publisher' = [publisher EXCEPT ![c] = Tariff!Idle]
      /\ now' = now
      /\ unseen' = IF \E d \in Callers \ {c} : publisher[d].of = pair THEN unseen \cup {pair} ELSE unseen
      /\ schedule' = [m \in Tariff!Numbers |->
           IF m = n THEN [of |-> pair, active |-> TRUE, from |-> from, to |-> None]
           ELSE IF m \in publisher[c].saw /\ schedule[m].active
             THEN [schedule[m] EXCEPT !.active = FALSE, !.to = publisher[c].at]
           ELSE schedule[m]]
  BY <1>0 DEF Tariff!insertSchedule
<1>2. \A d \in Callers : publisher'[d] = IF d = c THEN Tariff!Idle ELSE publisher[d]
  BY <1>1 DEF FeesInv, Tariff!FTypeOK
<1>3. Tariff!Idle.of = None /\ Tariff!Idle.saw = {} /\ ~Tariff!NoSchedule.active /\ Tariff!NoSchedule.of = None
      /\ Tariff!Idle \in Tariff!Publisher
  BY FeesAssumption DEF Tariff!Idle, Tariff!NoSchedule, Tariff!Publisher, Tariff!Times
<1>4. /\ schedule'[n].of = pair /\ schedule'[n].active /\ schedule'[n].to = None
      /\ schedule'[n] \in Tariff!Schedule
  BY <1>1 DEF Tariff!Schedule
<1>5. ASSUME NEW m \in Tariff!Numbers, m # n
      PROVE  /\ schedule'[m].of = schedule[m].of
             /\ schedule'[m] \in Tariff!Schedule
             /\ schedule'[m].active = (schedule[m].active /\ m \notin publisher[c].saw)
             /\ m \notin publisher[c].saw => schedule'[m] = schedule[m]
  <2>1. schedule[m] \in Tariff!Schedule
    OBVIOUS
  <2>2. CASE m \in publisher[c].saw /\ schedule[m].active
    <3>1. schedule'[m] = [schedule[m] EXCEPT !.active = FALSE, !.to = publisher[c].at]
      BY <1>1, <1>5, <2>2
    <3> QED BY <2>1, <2>2, <3>1 DEF Tariff!Schedule
  <2>3. CASE ~(m \in publisher[c].saw /\ schedule[m].active)
    <3>1. schedule'[m] = schedule[m]
      BY <1>1, <1>5, <2>3
    <3> QED BY <2>1, <2>3, <3>1
  <2> QED BY <2>2, <2>3
<1>6. Tariff!FTypeOK'
  <2>1. schedule' \in [Tariff!Numbers -> Tariff!Schedule]
    <3>1. schedule' = [m \in Tariff!Numbers |-> schedule'[m]]
      BY <1>1
    <3> QED BY <1>4, <1>5, <3>1
  <2>2. publisher' \in [Callers -> Tariff!Publisher]
    BY <1>1, <1>3 DEF FeesInv, Tariff!FTypeOK
  <2> QED BY <1>0, <1>1, <2>1, <2>2 DEF FeesInv, Tariff!FTypeOK
<1>7. ActiveIsOpen'
  <2>1. ASSUME NEW m \in Tariff!Numbers, m # n, schedule'[m].active
        PROVE  schedule'[m].to = None
    <3>1. schedule'[m] = schedule[m] /\ schedule[m].active
      BY <1>5, <2>1
    <3> QED BY <2>1, <3>1 DEF FeesInv, ActiveIsOpen
  <2> QED BY <1>4, <2>1 DEF ActiveIsOpen
<1>8. NumberedAsTheyCome'
  <2>1. \A m \in Tariff!Numbers : schedule'[m].of # None => schedule'[m] # Tariff!NoSchedule
    BY <1>3
  <2>2. ASSUME NEW m \in Tariff!Numbers, schedule[m] # Tariff!NoSchedule
        PROVE  schedule'[m] # Tariff!NoSchedule
    <3>1. m # n
      BY <1>1, <2>2
    <3>2. CASE m \in publisher[c].saw
      BY <1>0, <1>5, <2>1, <3>1, <3>2 DEF FeesInv, SeesItsPair
    <3> QED BY <1>5, <2>2, <3>1, <3>2
  <2>3. ASSUME NEW m \in Tariff!Numbers, schedule'[m] # Tariff!NoSchedule, NEW k \in 1 .. m - 1
        PROVE  schedule'[k] # Tariff!NoSchedule
    <3>1. k \in Tariff!Numbers
      BY FeesAssumption DEF Tariff!Numbers
    <3>2. CASE m = n
      BY <1>1, <2>2, <3>1, <3>2
    <3>3. CASE m # n
      <4>1. CASE m \in publisher[c].saw
        <5>1. schedule[m] # Tariff!NoSchedule
          BY <1>0, <1>3, <4>1 DEF FeesInv, SeesItsPair
        <5> QED BY <2>2, <3>1, <5>1 DEF FeesInv, NumberedAsTheyCome
      <4>2. CASE m \notin publisher[c].saw
        <5>1. schedule[m] # Tariff!NoSchedule
          BY <1>5, <2>3, <3>3, <4>2
        <5> QED BY <2>2, <3>1, <5>1 DEF FeesInv, NumberedAsTheyCome
      <4> QED BY <4>1, <4>2
    <3> QED BY <3>2, <3>3
  <2> QED BY <2>3 DEF NumberedAsTheyCome
<1>9. \A m \in Tariff!Numbers : schedule[m].of # None => m < n
  <2>1. ASSUME NEW m \in Tariff!Numbers, schedule[m].of # None, ~(m < n)
        PROVE  FALSE
    <3>1. m # n /\ schedule[m] # Tariff!NoSchedule
      BY <1>1, <1>3, <2>1
    <3>2. n \in 1 .. m - 1
      BY <2>1, <3>1, FeesAssumption DEF Tariff!Numbers
    <3> QED BY <1>1, <3>1, <3>2 DEF FeesInv, NumberedAsTheyCome
  <2> QED BY <2>1
<1>10. SeesItsPair'
  <2>1. ASSUME NEW d \in Callers, NEW m \in publisher'[d].saw
        PROVE  publisher'[d].of # None /\ schedule'[m].of = publisher'[d].of
    <3>1. d # c /\ publisher'[d] = publisher[d] /\ m \in publisher[d].saw /\ m \in Tariff!Numbers
      BY <1>2, <1>3
    <3>2. publisher[d].of # None /\ schedule[m].of = publisher[d].of
      BY <3>1 DEF FeesInv, SeesItsPair
    <3>3. m # n
      BY <1>1, <1>3, <3>2
    <3> QED BY <1>5, <3>1, <3>2, <3>3
  <2> QED BY <2>1 DEF SeesItsPair
<1>11. unseen \subseteq unseen'
  BY <1>1
<1>12. SeesTheActive'
  <2>1. ASSUME NEW d \in Callers, publisher'[d].of \in Codes \ unseen', NEW m \in Tariff!Numbers
        PROVE  m \in publisher'[d].saw <=> schedule'[m].of = publisher'[d].of /\ schedule'[m].active
    <3>1. d # c /\ publisher'[d] = publisher[d] /\ publisher[d].of \in Codes \ unseen
      BY <1>2, <1>3, <1>11, <2>1
    <3>2. publisher[d].of # pair
      <4>1. publisher[d].of = pair => pair \in unseen'
        BY <1>1, <3>1
      <4> QED BY <2>1, <3>1, <4>1
    <3>3. m \in publisher[d].saw <=> schedule[m].of = publisher[d].of /\ schedule[m].active
      BY <3>1 DEF FeesInv, SeesTheActive
    <3>4. CASE m = n
      BY <1>1, <1>3, <1>4, <3>1, <3>2, <3>3, <3>4
    <3>5. CASE m # n
      <4>1. m \in publisher[c].saw => schedule[m].of = pair
        BY <1>0 DEF FeesInv, SeesItsPair
      <4> QED BY <1>5, <3>1, <3>2, <3>3, <3>5, <4>1
    <3> QED BY <3>4, <3>5
  <2> QED BY <2>1 DEF SeesTheActive
<1>13. NewestIsActive'
  <2>1. ASSUME NEW q \in Codes \ unseen', NEW m \in Tariff!Numbers, schedule'[m].of = q
        PROVE  schedule'[m].active <=> \A k \in Tariff!Numbers : schedule'[k].of = q => k <= m
    <3>1. q \in Codes \ unseen
      BY <1>11
    <3>2. CASE q = pair
      <4>1. m # n => ~schedule'[m].active
        <5>1. ASSUME m # n, schedule[m].active
              PROVE  m \in publisher[c].saw
          BY <1>0, <1>5, <2>1, <3>1, <3>2, <5>1 DEF FeesInv, SeesTheActive
        <5> QED BY <1>5, <5>1
      <4>2. m # n => m < n
        BY <1>5, <1>9, <2>1
      <4>3. \A k \in Tariff!Numbers : schedule'[k].of = q => k <= n
        BY <1>5, <1>9
      <4> QED BY <1>4, <3>2, <4>1, <4>2, <4>3
    <3>3. CASE q # pair
      <4>1. m # n /\ schedule[m].of = q
        BY <1>4, <1>5, <2>1, <3>3
      <4>2. m \notin publisher[c].saw
        BY <1>0, <3>3, <4>1 DEF FeesInv, SeesItsPair
      <4>3. schedule'[m].active = schedule[m].active
        BY <1>5, <4>1, <4>2
      <4>4. \A k \in Tariff!Numbers : schedule'[k].of = q <=> schedule[k].of = q
        <5>1. q # None
          BY OwnersAssumption
        <5>2. ~(schedule'[n].of = q) /\ ~(schedule[n].of = q)
          BY <1>1, <1>3, <1>4, <3>3, <5>1
        <5> QED BY <1>5, <5>2
      <4> QED BY <3>1, <4>1, <4>3, <4>4 DEF FeesInv, NewestIsActive
    <3> QED BY <3>2, <3>3
  <2> QED BY <2>1 DEF NewestIsActive
<1> QED BY <1>6, <1>7, <1>8, <1>10, <1>12, <1>13 DEF FeesInv

LEMMA FeesStepInv ==
  ASSUME FeesInv, Tariff!FNext
  PROVE  FeesInv'
<1>0. Tariff!Idle \in Tariff!Publisher
  BY FeesAssumption DEF Tariff!Idle, Tariff!Publisher, Tariff!Times
<1>1. ASSUME NEW c \in Callers, NEW pair \in Codes, Tariff!expireExistingSchedules(c, pair)
      PROVE  FeesInv'
  <2>1. PICK h : h = [of |-> pair, saw |-> Tariff!ActiveFor(pair), at |-> now]
    OBVIOUS
  <2>2. h.of = pair /\ h.saw = Tariff!ActiveFor(pair)
    BY <2>1
  <2>3. h \in Tariff!Publisher
    BY <2>1, FeeTypes DEF Tariff!Publisher, Tariff!ActiveFor
  <2>4. publisher' = [publisher EXCEPT ![c] = h] /\ UNCHANGED <<schedule, now, unseen>>
    BY <1>1, <2>1 DEF Tariff!expireExistingSchedules, Tariff!ToExpire
  <2> QED BY <2>2, <2>3, <2>4, PublisherMoves
<1>2. ASSUME NEW c \in Callers, NEW n \in Tariff!Numbers, NEW from \in Tariff!Times,
             Tariff!insertSchedule(c, n, from)
      PROVE  FeesInv'
  BY <1>2, InsertsInv
<1>3. ASSUME NEW c \in Callers, Tariff!Fails(c)
      PROVE  FeesInv'
  BY <1>0, <1>3, PublisherMoves DEF Tariff!Fails
<1>4. ASSUME Tariff!Tick
      PROVE  FeesInv'
  <2>1. now' \in Tariff!Times /\ UNCHANGED <<schedule, publisher, unseen>>
    BY <1>4, FeeTypes, FeesAssumption DEF Tariff!Tick, Tariff!Times
  <2> QED BY <2>1 DEF FeesInv, Tariff!FTypeOK, NumberedAsTheyCome, ActiveIsOpen, SeesItsPair, SeesTheActive,
                      NewestIsActive
<1> QED BY <1>1, <1>2, <1>3, <1>4 DEF Tariff!FNext

\* A largest element is the maximum.
LEMMA MaximumIs ==
  ASSUME NEW S, S \subseteq Nat, NEW m \in S, \A y \in S : m >= y
  PROVE  Tariff!Max(S) = m
<1>1. Tariff!Max(S) \in S /\ \A y \in S : Tariff!Max(S) >= y
  BY DEF Tariff!Max
<1>2. Tariff!Max(S) >= m /\ m >= Tariff!Max(S) /\ m \in Nat /\ Tariff!Max(S) \in Nat
  BY <1>1
<1> QED BY <1>2

LEMMA FeesImplies ==
  ASSUME FeesInv
  PROVE  Tariff!ChargedByTheNewest
<1> USE FeeTypes
<1> SUFFICES ASSUME NEW pair \in Codes \ unseen
             PROVE  Tariff!findActiveSchedule(pair, now)
                      = IF Tariff!Newest(pair) # 0 /\ schedule[Tariff!Newest(pair)].from <= now
                          THEN {Tariff!Newest(pair)} ELSE {}
  BY DEF Tariff!ChargedByTheNewest
<1> DEFINE Of == {n \in Tariff!Numbers : schedule[n].of = pair}
<1>0. Of \subseteq Nat \ {0} /\ Of \subseteq 0 .. MaxSchedules
  BY FeesAssumption DEF Tariff!Numbers
<1>1. CASE Of = {}
  <2>1. {0} \cup Of \subseteq Nat /\ 0 \in {0} \cup Of /\ \A y \in {0} \cup Of : 0 >= y
    BY <1>1
  <2>2. Tariff!Newest(pair) = 0
    BY <2>1, MaximumIs DEF Tariff!Newest
  <2>3. Tariff!findActiveSchedule(pair, now) = {}
    BY <1>1 DEF Tariff!findActiveSchedule, Tariff!InForce, Tariff!ActiveFor
  <2> QED BY <2>2, <2>3
<1>2. CASE Of # {}
  <2>1. PICK m \in Of : \A y \in Of : m >= y
    <3> HIDE DEF Of
    <3> QED BY <1>0, <1>2, LargestOf, FeesAssumption
  <2>2. {0} \cup Of \subseteq Nat /\ m \in {0} \cup Of /\ \A y \in {0} \cup Of : m >= y
    BY <1>0, <2>1
  <2>3. Tariff!Newest(pair) = m /\ m # 0
    BY <1>0, <2>2, MaximumIs DEF Tariff!Newest
  <2>4. \A n \in Of : schedule[n].active <=> n = m
    <3>1. ASSUME NEW n \in Of
          PROVE  schedule[n].active <=> n = m
      <4>1. schedule[n].active <=> \A k \in Tariff!Numbers : schedule[k].of = pair => k <= n
        BY DEF FeesInv, NewestIsActive
      <4>2. schedule[n].active <=> \A k \in Of : k <= n
        BY <4>1
      <4> HIDE DEF Of
      <4>3. m \in Nat /\ n \in Nat /\ Of \subseteq Nat
        BY <1>0
      <4> QED BY <2>1, <4>2, <4>3
    <3> QED BY <3>1
  <2>5. Tariff!ActiveFor(pair) = {m}
    BY <2>4 DEF Tariff!ActiveFor
  <2>6. schedule[m].to = None
    BY <2>4 DEF FeesInv, ActiveIsOpen
  <2>7. Tariff!InForce(pair, now) = IF schedule[m].from <= now THEN {m} ELSE {}
    BY <2>5, <2>6 DEF Tariff!InForce
  <2>8. Tariff!findActiveSchedule(pair, now) = IF schedule[m].from <= now THEN {m} ELSE {}
    BY <2>7 DEF Tariff!findActiveSchedule
  <2> QED BY <2>3, <2>8
<1> QED BY <1>1, <1>2

-----------------------------------------------------------------------------
(* What a schedule charges.                                                *)

\* A tier has a fee or basis points.
TierRow ==
  {t \in [from : Nat, to : Nat \cup {None}, fee : Nat \cup {None}, bps : Nat \cup {None}] :
     t.fee # None \/ t.bps # None}

TierSeqs == Seq(TierRow)

\* A schedule as it is validated before it is published.
ScheduleRow(s) ==
  /\ s.type \in {"FLAT", "PERCENTAGE", "TIERED"}
  /\ s.flat \in Nat /\ s.bps \in Nat /\ s.bps <= 10000 /\ s.min \in Nat /\ s.max \in Nat \cup {None}
  /\ s.type = "TIERED" => s.tiers \in TierSeqs /\ s.tiers # << >>

LEMMA ShareIs ==
  ASSUME NEW a \in Nat, NEW bps \in Nat
  PROVE  /\ Tariff!Share(a, bps) \in Nat
         /\ bps <= 10000 => Tariff!Share(a, bps) <= a
         /\ \A b \in Nat : a <= b => Tariff!Share(a, bps) <= Tariff!Share(b, bps)
<1>1. PICK x \in Nat : x = a * bps
  OBVIOUS
<1>2. x \div 10000 \in Nat
  OBVIOUS
<1>3. ASSUME bps <= 10000 PROVE x \div 10000 <= a
  <2>1. a * bps <= a * 10000
    BY <1>3
  <2>2. x <= a * 10000
    BY <1>1, <2>1
  <2> QED BY <2>2
<1>4. ASSUME NEW b \in Nat, a <= b
      PROVE  x \div 10000 <= (b * bps) \div 10000
  <2>1. a * bps <= b * bps
    BY <1>4
  <2>2. PICK y \in Nat : y = b * bps
    OBVIOUS
  <2>3. x <= y
    BY <1>1, <2>1, <2>2
  <2>4. x \div 10000 <= y \div 10000
    BY <2>3
  <2> QED BY <2>2, <2>4
<1> QED BY <1>1, <1>2, <1>3, <1>4 DEF Tariff!Share

LEMMA TierFits ==
  ASSUME NEW s, ScheduleRow(s), s.type = "TIERED", NEW a \in Nat
  PROVE  /\ Tariff!TierOf(s.tiers, a) # 0 => Tariff!TierOf(s.tiers, a) \in 1 .. Len(s.tiers)
         /\ (\E i \in 1 .. Len(s.tiers) : Tariff!InTier(s.tiers[i], a)) =>
              /\ Tariff!TierOf(s.tiers, a) # 0
              /\ Tariff!InTier(s.tiers[Tariff!TierOf(s.tiers, a)], a)
<1> DEFINE fits == {i \in DOMAIN s.tiers : Tariff!InTier(s.tiers[i], a)}
<1>1. DOMAIN s.tiers = 1 .. Len(s.tiers) /\ Len(s.tiers) \in Nat
  BY DEF ScheduleRow, TierSeqs
<1>2. Tariff!TierOf(s.tiers, a) = IF fits = {} THEN 0 ELSE Tariff!Min(fits)
  BY DEF Tariff!TierOf
<1>3. fits # {} => Tariff!Min(fits) \in fits
  <2>1. fits \subseteq Nat
    BY <1>1
  <2> HIDE DEF fits
  <2>2. SUFFICES ASSUME fits # {} PROVE Tariff!Min(fits) \in fits
    OBVIOUS
  <2>3. \E m \in fits : \A y \in fits : m <= y
    BY <2>1, <2>2, LeastOf
  <2> QED BY <2>3 DEF Tariff!Min
<1> QED BY <1>1, <1>2, <1>3

LEMMA RawFeeType ==
  ASSUME NEW s, ScheduleRow(s), NEW a \in Nat, Tariff!Charges(s, a)
  PROVE  Tariff!RawFee(s, a) \in Nat
<1>1. CASE s.type = "FLAT"
  BY <1>1 DEF Tariff!RawFee, ScheduleRow
<1>2. CASE s.type = "PERCENTAGE"
  <2>1. s.bps \in Nat /\ Tariff!RawFee(s, a) = Tariff!Share(a, s.bps)
    BY <1>2 DEF Tariff!RawFee, ScheduleRow
  <2>2. \A n \in Nat : Tariff!Share(a, n) \in Nat
    BY ShareIs
  <2> QED BY <2>1, <2>2, Zenon
<1>3. CASE s.type = "TIERED"
  <2>1. PICK i \in 1 .. Len(s.tiers) : i = Tariff!TierOf(s.tiers, a)
    BY <1>3, TierFits DEF Tariff!Charges
  <2>2. s.tiers[i] \in TierRow
    BY <1>3 DEF ScheduleRow, TierSeqs
  <2>3. PICK t : t = s.tiers[i]
    OBVIOUS
  <2>4. (t.fee # None => t.fee \in Nat) /\ (t.fee = None => t.bps \in Nat)
    BY <2>2, <2>3 DEF TierRow
  <2>5. Tariff!RawFee(s, a) = IF t.fee # None THEN t.fee ELSE Tariff!Share(a, t.bps)
    BY <1>3, <2>1, <2>3 DEF Tariff!RawFee
  <2> QED BY <2>4, <2>5, ShareIs
<1> QED BY <1>1, <1>2, <1>3 DEF ScheduleRow

\* Of adjoining tiers an earlier one ends before a later one begins.
LEMMA TiersApart ==
  ASSUME NEW s, ScheduleRow(s), s.type = "TIERED", Tariff!Adjoining(s.tiers),
         NEW i \in 1 .. Len(s.tiers), NEW j \in 1 .. Len(s.tiers), i < j
  PROVE  s.tiers[i].to # None /\ s.tiers[i].to < s.tiers[j].from
<1>1. Len(s.tiers) \in Nat /\ \A k \in 1 .. Len(s.tiers) : s.tiers[k] \in TierRow
  BY DEF ScheduleRow, TierSeqs
<1>2. \A k \in 1 .. Len(s.tiers) : s.tiers[k].from \in Nat /\ s.tiers[k].to \in Nat \cup {None}
  BY <1>1 DEF TierRow
<1>3. \A k \in 1 .. Len(s.tiers) - 1 :
        s.tiers[k].to # None /\ s.tiers[k].from <= s.tiers[k].to /\ s.tiers[k + 1].from = s.tiers[k].to + 1
  BY DEF Tariff!Adjoining
<1>4. i \in 1 .. Len(s.tiers) - 1 /\ s.tiers[i].to \in Nat /\ s.tiers[i].to # None
  BY <1>1, <1>2, <1>3
<1> DEFINE T == {k \in i + 1 .. Len(s.tiers) : ~(s.tiers[i].to < s.tiers[k].from)}
<1>5. SUFFICES ASSUME T # {} PROVE FALSE
  BY <1>1, <1>4
<1>6. PICK k \in T : \A y \in T : k <= y
  <2>1. T \subseteq Nat
    OBVIOUS
  <2> HIDE DEF T
  <2> QED BY <1>5, <2>1, LeastOf
<1>7. k \in i + 1 .. Len(s.tiers) /\ ~(s.tiers[i].to < s.tiers[k].from)
  OBVIOUS
<1>8. k # i + 1
  BY <1>2, <1>3, <1>4, <1>7
<1>9. k - 1 \in i + 1 .. Len(s.tiers) /\ k - 1 \in 1 .. Len(s.tiers) - 1 /\ (k - 1) + 1 = k
  BY <1>1, <1>7, <1>8
<1>10. s.tiers[i].to < s.tiers[k - 1].from
  BY <1>6, <1>9
<1>11. /\ s.tiers[k - 1].from <= s.tiers[k - 1].to /\ s.tiers[k].from = s.tiers[k - 1].to + 1
       /\ s.tiers[k - 1].to \in Nat /\ s.tiers[k - 1].from \in Nat /\ s.tiers[k].from \in Nat
  <2>1. s.tiers[(k - 1) + 1].from = s.tiers[k - 1].to + 1 /\ s.tiers[k - 1].from <= s.tiers[k - 1].to
        /\ s.tiers[k - 1].to # None
    BY <1>3, <1>9
  <2>2. k - 1 \in 1 .. Len(s.tiers) /\ k \in 1 .. Len(s.tiers)
    BY <1>1, <1>7, <1>9
  <2>3. s.tiers[(k - 1) + 1] = s.tiers[k]
    BY <1>9
  <2>4. /\ s.tiers[k - 1].from \in Nat /\ s.tiers[k].from \in Nat
        /\ s.tiers[k - 1].to \in Nat \cup {None}
    BY <1>2, <2>2
  <2> QED BY <2>1, <2>3, <2>4
<1> QED BY <1>4, <1>7, <1>10, <1>11

LEMMA TiersCover ==
  ASSUME NEW s, ScheduleRow(s), s.type = "TIERED", Tariff!Adjoining(s.tiers), NEW a \in Nat
  PROVE  /\ Tariff!Charges(s, a)
         /\ \A i \in DOMAIN s.tiers : s.tiers[i].to = a => Tariff!TierOf(s.tiers, a) = i
<1> USE FeesAssumption
<1>1. /\ Len(s.tiers) \in Nat \ {0} /\ DOMAIN s.tiers = 1 .. Len(s.tiers)
      /\ \A k \in 1 .. Len(s.tiers) : s.tiers[k] \in TierRow
  BY DEF ScheduleRow, TierSeqs
<1>2. \A k \in 1 .. Len(s.tiers) : s.tiers[k].from \in Nat /\ s.tiers[k].to \in Nat \cup {None}
  BY <1>1 DEF TierRow
<1>3. /\ s.tiers[1].from = 0 /\ s.tiers[Len(s.tiers)].to = None
      /\ \A k \in 1 .. Len(s.tiers) - 1 :
           /\ s.tiers[k].to # None /\ s.tiers[k].from <= s.tiers[k].to
           /\ s.tiers[k + 1].from = s.tiers[k].to + 1
  BY DEF Tariff!Adjoining
<1>4. \E i \in 1 .. Len(s.tiers) : Tariff!InTier(s.tiers[i], a)
  <2> DEFINE T == {k \in 1 .. Len(s.tiers) : s.tiers[k].from <= a}
  <2>1. T \subseteq 0 .. Len(s.tiers) /\ 1 \in T
    BY <1>1, <1>3
  <2>2. PICK i \in T : \A y \in T : i >= y
    <3> HIDE DEF T
    <3> QED BY <1>1, <2>1, LargestOf
  <2>3. i \in 1 .. Len(s.tiers) /\ s.tiers[i].from <= a
    OBVIOUS
  <2>4. CASE i = Len(s.tiers)
    BY <1>2, <1>3, <2>3, <2>4 DEF Tariff!InTier
  <2>5. CASE i # Len(s.tiers)
    <3>1. i \in 1 .. Len(s.tiers) - 1 /\ i + 1 \in 1 .. Len(s.tiers)
      BY <1>1, <2>3, <2>5
    <3>2. ~(s.tiers[i + 1].from <= a)
      <4>1. i + 1 \notin T
        BY <1>1, <2>1, <2>2, <2>3
      <4> QED BY <3>1, <4>1
    <3>3. s.tiers[i + 1].from = s.tiers[i].to + 1 /\ s.tiers[i].to \in Nat
      BY <1>2, <1>3, <2>3, <3>1
    <3>4. a <= s.tiers[i].to
      BY <3>2, <3>3
    <3> QED BY <1>2, <2>3, <3>4 DEF Tariff!InTier
  <2> QED BY <2>4, <2>5
<1>5. Tariff!Charges(s, a)
  BY <1>4, TierFits DEF Tariff!Charges
<1>6. ASSUME NEW i \in DOMAIN s.tiers, s.tiers[i].to = a
      PROVE  Tariff!TierOf(s.tiers, a) = i
  <2>1. PICK t \in 1 .. Len(s.tiers) : t = Tariff!TierOf(s.tiers, a) /\ Tariff!InTier(s.tiers[t], a)
    BY <1>4, TierFits
  <2>2. s.tiers[t].from <= a /\ (s.tiers[t].to = None \/ a <= s.tiers[t].to)
    BY <1>2, <2>1 DEF Tariff!InTier
  <2>3. i \in 1 .. Len(s.tiers) - 1
    BY <1>1, <1>3, <1>6
  <2>4. s.tiers[i].from <= a
    BY <1>3, <1>6, <2>3
  <2>5. CASE t < i
    <3>1. s.tiers[t].to # None /\ s.tiers[t].to < s.tiers[i].from
      BY <1>1, <2>5, TiersApart
    <3>2. s.tiers[t].to \in Nat /\ s.tiers[i].from \in Nat
      BY <1>1, <1>2, <3>1
    <3> QED BY <2>2, <2>4, <3>1, <3>2
  <2>6. CASE i < t
    <3>1. s.tiers[i].to < s.tiers[t].from
      BY <1>1, <2>6, TiersApart
    <3>2. s.tiers[t].from \in Nat
      BY <1>2
    <3> QED BY <1>6, <2>2, <3>1, <3>2
  <2>7. CASE t = i
    BY <2>1, <2>7
  <2>8. t \in Nat /\ i \in Nat
    BY <1>1
  <2> QED BY <2>5, <2>6, <2>7, <2>8
<1> QED BY <1>5, <1>6

\* What a fee is of the amount computed first.
LEMMA Limited ==
  ASSUME NEW raw \in Nat, NEW min \in Nat, NEW max \in Nat \cup {None}
  PROVE  /\ max # None => Tariff!applyMinMax(raw, min, max) <= max
         /\ Tariff!applyMinMax(raw, min, max) < min => max # None /\ max < min
         /\ Tariff!applyMinMax(raw, min, max) > min => Tariff!applyMinMax(raw, min, max) <= raw
         /\ \A more \in Nat : raw <= more =>
              Tariff!applyMinMax(raw, min, max) <= Tariff!applyMinMax(more, min, max)
BY DEF Tariff!applyMinMax

LEMMA FeeWithinLimits ==
  ASSUME NEW s, ScheduleRow(s), NEW a \in Nat, Tariff!Charges(s, a)
  PROVE  LET fee == Tariff!calculateFromSchedule(s, a) IN
         /\ s.max # None => fee <= s.max
         /\ fee < s.min => s.max # None /\ s.max < s.min
         /\ s.type = "PERCENTAGE" /\ fee > s.min => fee <= a
<1>1. PICK raw \in Nat : raw = Tariff!RawFee(s, a)
  BY RawFeeType
<1>2a. PICK min \in Nat : min = s.min
  BY DEF ScheduleRow
<1>0. s.max \in Nat \cup {None}
  BY DEF ScheduleRow
<1>2b. PICK max \in Nat \cup {None} : max = s.max
  BY <1>0
<1>2c. PICK bps \in Nat : bps = s.bps
  BY DEF ScheduleRow
<1>2. min = s.min /\ max = s.max /\ bps = s.bps
  BY <1>2a, <1>2b, <1>2c
<1>8. bps <= 10000
  BY <1>2 DEF ScheduleRow
<1>3. PICK fee : fee = Tariff!applyMinMax(raw, min, max)
  OBVIOUS
<1>4. /\ max # None => fee <= max
      /\ fee < min => max # None /\ max < min
      /\ fee > min => fee <= raw
  BY <1>3, Limited
<1>5. s.type = "PERCENTAGE" => raw <= a
  <2>1. Tariff!Share(a, bps) <= a
    BY <1>8, ShareIs
  <2> QED BY <1>1, <1>2, <2>1 DEF Tariff!RawFee
<1>6. fee \in Nat
  BY <1>3 DEF Tariff!applyMinMax
<1>7. Tariff!calculateFromSchedule(s, a) = fee
  BY <1>1, <1>2, <1>3 DEF Tariff!calculateFromSchedule
<1> QED BY <1>2, <1>4, <1>5, <1>6, <1>7

LEMMA ShareGrows ==
  ASSUME NEW s, ScheduleRow(s), s.type = "PERCENTAGE", NEW a \in Nat, NEW b \in Nat, a <= b
  PROVE  Tariff!calculateFromSchedule(s, a) <= Tariff!calculateFromSchedule(s, b)
<1>1. PICK min \in Nat, max \in Nat \cup {None}, bps \in Nat : min = s.min /\ max = s.max /\ bps = s.bps
  BY DEF ScheduleRow
<1>2. PICK x \in Nat, y \in Nat : x = Tariff!Share(a, bps) /\ y = Tariff!Share(b, bps)
  BY ShareIs
<1>3. x <= y
  BY <1>2, ShareIs
<1>4. Tariff!applyMinMax(x, min, max) <= Tariff!applyMinMax(y, min, max)
  BY <1>3, Limited
<1>5. Tariff!calculateFromSchedule(s, a) = Tariff!applyMinMax(x, min, max)
      /\ Tariff!calculateFromSchedule(s, b) = Tariff!applyMinMax(y, min, max)
  BY <1>1, <1>2 DEF Tariff!calculateFromSchedule, Tariff!RawFee
<1> QED BY <1>4, <1>5

\* A fee is at most the schedule's maximum and at least its minimum where the
\* two agree, a percentage takes no more than the amount unless the minimum
\* does and grows with it, and adjoining tiers charge every amount, where the
\* one that ends a tier is still in it: for every valid schedule and every
\* amount.
THEOREM FeesAsScheduledInGeneral ==
  ASSUME NEW schedules, \A s \in schedules : ScheduleRow(s), NEW amounts, \A a \in amounts : a \in Nat
  PROVE  Tariff!FeesAreAsScheduled(schedules, amounts)
<1>1. ASSUME NEW s \in schedules, NEW a \in amounts, Tariff!Charges(s, a)
      PROVE  LET fee == Tariff!calculateFromSchedule(s, a) IN
             /\ s.max # None => fee <= s.max
             /\ fee < s.min => s.max # None /\ s.max < s.min
             /\ s.type = "PERCENTAGE" /\ fee > s.min => fee <= a
  <2>1. ScheduleRow(s) /\ a \in Nat
    OBVIOUS
  <2> QED BY <1>1, <2>1, FeeWithinLimits
<1>2. ASSUME NEW s \in schedules, s.type = "TIERED", Tariff!Adjoining(s.tiers), NEW a \in amounts
      PROVE  Tariff!Charges(s, a) /\ \A i \in DOMAIN s.tiers :
               s.tiers[i].to = a => Tariff!TierOf(s.tiers, a) = i
  <2>1. ScheduleRow(s) /\ a \in Nat
    OBVIOUS
  <2> QED BY <1>2, <2>1, TiersCover
<1>3. ASSUME NEW s \in schedules, s.type = "PERCENTAGE", NEW a \in amounts, NEW b \in amounts, a <= b
      PROVE  Tariff!calculateFromSchedule(s, a) <= Tariff!calculateFromSchedule(s, b)
  <2>1. ScheduleRow(s) /\ a \in Nat /\ b \in Nat
    OBVIOUS
  <2> QED BY <1>3, <2>1, ShareGrows
<1> QED BY <1>1, <1>2, <1>3, Zenon DEF Tariff!FeesAreAsScheduled

LEMMA FeesAsScheduled == Tariff!FeesAreAsScheduled(Schedules, Charged)
<1>1. \A a \in Charged : a \in Nat
  BY DEF Charged
<1>2. ASSUME NEW from \in Nat, NEW to \in Nat \cup {None}, NEW fee \in Nat \cup {None},
             NEW bps \in Nat \cup {None}, fee # None \/ bps # None
      PROVE  Tier(from, to, fee, bps) \in TierRow
  <2>1. PICK t : t = Tier(from, to, fee, bps)
    OBVIOUS
  <2>2. t \in [from : Nat, to : Nat \cup {None}, fee : Nat \cup {None}, bps : Nat \cup {None}]
        /\ t.fee = fee /\ t.bps = bps
    BY <2>1 DEF Tier
  <2> QED BY <1>2, <2>1, <2>2 DEF TierRow
<1>3. \A t \in TierLists : t \in Seq(TierRow) /\ t # << >>
  <2>0. /\ 5 # None /\ 50 # None /\ 10000 # None /\ 7 # None /\ 0 # None /\ 3 # None
        /\ \A n \in Nat : n \in Nat \cup {None}
        /\ None \in Nat \cup {None}
    BY FeesAssumption
  <2>1. Tier(0, 99, 5, None) \in TierRow
    BY <2>0, FeesAssumption DEF Tier, TierRow
  <2>2. Tier(100, None, None, 50) \in TierRow
    BY <2>0, FeesAssumption DEF Tier, TierRow
  <2>3. Tier(0, 100, 5, None) \in TierRow
    BY <2>0, FeesAssumption DEF Tier, TierRow
  <2>4. Tier(200, 300, None, 10000) \in TierRow
    BY <2>0, FeesAssumption DEF Tier, TierRow
  <2>5. Tier(301, None, 7, None) \in TierRow
    BY <2>0, FeesAssumption DEF Tier, TierRow
  <2>6. Tier(0, 9999, None, 0) \in TierRow
    BY <2>0, FeesAssumption DEF Tier, TierRow
  <2>7. Tier(10000, None, 3, 3) \in TierRow
    BY <2>0, FeesAssumption DEF Tier, TierRow
  <2>8. \A u, v \in TierRow : <<u, v>> \in Seq(TierRow) /\ <<u, v>> # << >>
    OBVIOUS
  <2>9. \A u, v, w \in TierRow : <<u, v, w>> \in Seq(TierRow) /\ <<u, v, w>> # << >>
    OBVIOUS
  <2>10. ASSUME NEW t \in TierLists
         PROVE  t \in Seq(TierRow) /\ t # << >>
    <3>1. CASE t = <<Tier(0, 99, 5, None), Tier(100, None, None, 50)>>
      BY <2>1, <2>2, <2>8, <3>1
    <3>2. CASE t = <<Tier(0, 100, 5, None), Tier(200, 300, None, 10000), Tier(301, None, 7, None)>>
      BY <2>3, <2>4, <2>5, <2>9, <3>2
    <3>3. CASE t = <<Tier(0, 9999, None, 0), Tier(10000, None, 3, 3)>>
      BY <2>6, <2>7, <2>8, <3>3
    <3> QED BY <3>1, <3>2, <3>3 DEF TierLists
  <2> QED BY <2>10
<1>4. ASSUME NEW s \in Schedules
      PROVE  ScheduleRow(s)
  <2>1. CASE s \in [type : {"FLAT", "PERCENTAGE"}, flat : {0, 3, 500}, bps : {0, 1, 50, 10000},
                    tiers : {<< >>}, min : {0, 2, 10}, max : {None, 0, 5, 1000}]
    BY <2>1 DEF ScheduleRow
  <2>2. CASE s \in [type : {"TIERED"}, flat : {0}, bps : {0}, tiers : TierLists, min : {0, 2, 10},
                    max : {None, 5}]
    <3>1. s.tiers \in TierLists
      BY <2>2
    <3>2. s.type = "TIERED" /\ s.flat = 0 /\ s.bps = 0 /\ s.min \in Nat /\ s.max \in Nat \cup {None}
      BY <2>2
    <3> QED BY <1>3, <3>1, <3>2 DEF ScheduleRow, TierSeqs
  <2> QED BY <2>1, <2>2 DEF Schedules
<1> QED BY <1>1, <1>4, FeesAsScheduledInGeneral

-----------------------------------------------------------------------------
(* Authorization: caps and twins.                                          *)

\* What a session knows of the payment it is on, and, unless another one has
\* committed since, of the others: the volumes that it has read are not less
\* than those of now, and a twin that it has not seen is not there.
Fetched == {"fetched", "authorized"}
Summed == {"summed"} \cup Fetched
Matched == {"matched"} \cup Summed

SessionKnows(at) ==
  /\ at.step = "idle" => at.on = None
  /\ at.step # "idle" =>
       /\ at.on \in Things
       /\ at.row.state = stored[at.on].state
       /\ at.row.state \in {"NONE", "PENDING_RECONCILIATION"}
       /\ at.row.state = "NONE" => at.row.age = "day"
       /\ at.row.state # "NONE" => at.row = stored[at.on]
  /\ at.step \in Matched /\ ~at.missed /\ ~at.ctx.twins =>
       Limits!countRecentByOriginatorAndE2E(at.on, at.row.e2e) = {}
  /\ at.step \in Summed /\ ~at.missed =>
       Limits!Volume(Limits!Counted({"day"})) <= at.ctx.daily
  /\ at.step \in Fetched /\ ~at.missed =>
       Limits!Volume(Limits!Counted({"day", "week", "month"})) <= at.ctx.monthly
  /\ at.step = "authorized" =>
       /\ at.row.state = "NONE"
       /\ ~at.ctx.twins
       /\ at.ctx.daily + at.row.amount <= DailyCap
       /\ at.ctx.monthly + at.row.amount <= MonthlyCap

Alone(s) == session[s].step # "idle" => \A u \in Callers \ {s} : session[u].on # session[s].on

LimitsInv ==
  /\ Limits!ATypeOK
  /\ Limits!CapsHoldButForOverlapped
  /\ Limits!OneOfEachIdButForOverlapped
  /\ \A t \in Things : stored[t].state = "NONE" => stored[t].e2e = None
  /\ \A s \in Callers : SessionKnows(session[s]) /\ Alone(s)

Row == Limits!Row
LEMMA RowIs ==
  ASSUME NEW r \in Row
  PROVE  /\ r.state \in Limits!TxStates /\ r.amount \in Nat /\ r.e2e \in Two \cup {None}
         /\ r.age \in {"day", "week", "month", "old"}
         /\ r.amount \in Amounts \cup {0}
<1>1. /\ r.state \in Limits!TxStates /\ r.amount \in Amounts \cup {0} /\ r.e2e \in Two \cup {None}
      /\ r.age \in {"day", "week", "month", "old"}
  BY DEF Row, Limits!Row, Limits!Ages
<1>2. Amounts \cup {0} \subseteq Nat
  BY ChecksAssumption
<1> QED BY <1>1, <1>2

LEMMA AwayIs ==
  /\ Limits!NoRow \in Row /\ Limits!NoContext \in Limits!Context /\ Limits!Away \in Limits!Session
  /\ Limits!Away.step = "idle" /\ Limits!Away.on = None
  BY DEF Row, Limits!Row, Limits!NoRow, Limits!TxStates, Limits!Ages, Limits!NoContext,
     Limits!Context, Limits!Statuses, Limits!Away, Limits!Session

AmountIn(f) == [t \in Things |-> f[t].amount]
LEMMA VolumeIs ==
  /\ \A S : Limits!Volume(S) = SumFunctionOnSet(AmountIn(stored), S)
  /\ \A S : Limits!Volume(S)' = SumFunctionOnSet(AmountIn(stored'), S)
  /\ \A ages : (Limits!Volume(Limits!Counted(ages)))'
                  = SumFunctionOnSet(AmountIn(stored'), Limits!Counted(ages)')
  /\ \A ages : (Limits!Volume(Limits!Counted(ages) \ missed))'
                  = SumFunctionOnSet(AmountIn(stored'), Limits!Counted(ages)' \ missed')
  BY DEF Limits!Volume, AmountIn, Limits!SumFunctionOnSet, SumFunctionOnSet, Limits!FoldFunctionOnSet, FoldFunctionOnSet, Limits!MapThenFoldSet, MapThenFoldSet

LEMMA VolumeNat ==
  ASSUME NEW f \in [Things -> Row], NEW S, S \subseteq Things
  PROVE  SumFunctionOnSet(AmountIn(f), S) \in Nat
<1>1. IsFiniteSet(S)
  BY ChecksAssumption, FS_Subset
<1>2. \A t \in S : AmountIn(f)[t] \in Nat
  BY RowIs DEF AmountIn
<1> QED BY <1>1, <1>2, SumNat

LEMMA VolumeFewer ==
  ASSUME NEW f \in [Things -> Row], NEW g \in [Things -> Row], NEW S, S \subseteq Things,
         NEW R, R \subseteq S, \A t \in R : g[t].amount = f[t].amount
  PROVE  SumFunctionOnSet(AmountIn(g), R) <= SumFunctionOnSet(AmountIn(f), S)
<1>1. IsFiniteSet(S) /\ IsFiniteSet(R)
  BY ChecksAssumption, FS_Subset
<1>2. SumFunctionOnSet(AmountIn(g), R) = SumFunctionOnSet(AmountIn(f), R)
  <2>1. \A t \in R : AmountIn(g)[t] = AmountIn(f)[t]
    BY DEF AmountIn
  <2> QED BY <1>1, <2>1, SumAgrees
<1>3. \A t \in S : AmountIn(f)[t] \in Nat
  BY RowIs DEF AmountIn
<1> QED BY <1>1, <1>2, <1>3, SumGrows

LEMMA VolumeOneMore ==
  ASSUME NEW f \in [Things -> Row], NEW g \in [Things -> Row], NEW S, S \subseteq Things,
         NEW t \in Things, NEW R, R \subseteq S \cup {t},
         \A u \in S \ {t} : g[u].amount = f[u].amount
  PROVE  SumFunctionOnSet(AmountIn(g), R) <= SumFunctionOnSet(AmountIn(f), S) + g[t].amount
<1> DEFINE Q == S \ {t}
<1>1. IsFiniteSet(Q) /\ t \notin Q /\ Q \cup {t} \subseteq Things /\ R \subseteq Q \cup {t}
  BY ChecksAssumption, FS_Subset
<1>2. SumFunctionOnSet(AmountIn(g), R) <= SumFunctionOnSet(AmountIn(g), Q \cup {t})
  BY <1>1, VolumeFewer
<1>3. SumFunctionOnSet(AmountIn(g), Q \cup {t}) = SumFunctionOnSet(AmountIn(f), Q) + g[t].amount
  <2>1. \A x \in Q : AmountIn(f)[x] \in Int /\ AmountIn(g)[x] = AmountIn(f)[x]
    BY RowIs DEF AmountIn
  <2>2. AmountIn(g)[t] = g[t].amount /\ AmountIn(g)[t] \in Int
    BY RowIs DEF AmountIn
  <2> HIDE DEF Q
  <2> QED BY <1>1, <2>1, <2>2, SumAdd
<1>4. SumFunctionOnSet(AmountIn(f), Q) <= SumFunctionOnSet(AmountIn(f), S)
  BY VolumeFewer
<1>5. /\ SumFunctionOnSet(AmountIn(g), R) \in Nat /\ SumFunctionOnSet(AmountIn(g), Q \cup {t}) \in Nat
      /\ SumFunctionOnSet(AmountIn(f), Q) \in Nat /\ SumFunctionOnSet(AmountIn(f), S) \in Nat
      /\ g[t].amount \in Nat
  BY <1>1, VolumeNat, RowIs
<1> QED BY <1>2, <1>3, <1>4, <1>5

LEMMA LimitsInitInv == Limits!AInit => LimitsInv
<1> SUFFICES ASSUME Limits!AInit PROVE LimitsInv
  OBVIOUS
<1>1. /\ stored = [t \in Things |-> Limits!NoRow] /\ missed = {}
      /\ session = [s \in Callers |-> Limits!Away]
      /\ status = [a \in Codes |-> "active"]
  BY DEF Limits!AInit
<1>2. Limits!ATypeOK
  BY <1>1, AwayIs DEF Limits!ATypeOK, Limits!Statuses, Row
<1>3. \A ages : Limits!Counted(ages) = {}
  BY <1>1 DEF Limits!Counted, Limits!NoRow
<1>4. Limits!Volume({}) = 0
  BY VolumeIs, SumEmpty
<1>5. Limits!CapsHoldButForOverlapped
  BY <1>3, <1>4, ChecksAssumption DEF Limits!CapsHoldButForOverlapped
<1>6. Limits!OneOfEachIdButForOverlapped
  BY <1>1 DEF Limits!OneOfEachIdButForOverlapped, Limits!NoRow
<1>7. \A s \in Callers : SessionKnows(session[s]) /\ Alone(s)
  BY <1>1, AwayIs DEF SessionKnows, Alone, Matched, Summed, Fetched
<1>8. \A t \in Things : stored[t].e2e = None
  BY <1>1 DEF Limits!NoRow
<1> QED BY <1>2, <1>5, <1>6, <1>7, <1>8 DEF LimitsInv

\* A step that commits nothing.
LEMMA QuietSession ==
  ASSUME LimitsInv, UNCHANGED <<stored, status, missed>>,
         NEW s \in Callers, NEW x \in Limits!Session, session' = [session EXCEPT ![s] = x],
         SessionKnows(x),
         x.step # "idle" => \A u \in Callers \ {s} : session[u].on # x.on
  PROVE  LimitsInv'
<1>1. Limits!ATypeOK' /\ session' \in [Callers -> Limits!Session]
  BY DEF LimitsInv, Limits!ATypeOK
<1>2. /\ \A ages : Limits!Counted(ages)' = Limits!Counted(ages)
      /\ \A S : Limits!Volume(S)' = Limits!Volume(S)
      /\ \A t, e : Limits!countRecentByOriginatorAndE2E(t, e)' = Limits!countRecentByOriginatorAndE2E(t, e)
  BY VolumeIs DEF Limits!Counted, Limits!countRecentByOriginatorAndE2E
<1>3. Limits!CapsHoldButForOverlapped' /\ Limits!OneOfEachIdButForOverlapped'
  BY <1>2 DEF LimitsInv, Limits!CapsHoldButForOverlapped, Limits!OneOfEachIdButForOverlapped
<1>4. \A u \in Callers : session'[u] = IF u = s THEN x ELSE session[u]
  BY DEF LimitsInv, Limits!ATypeOK
<1>5. ASSUME NEW at, SessionKnows(at)
      PROVE  /\ at.step = "idle" => at.on = None
             /\ at.step # "idle" =>
                  /\ at.on \in Things
                  /\ at.row.state = stored'[at.on].state
                  /\ at.row.state \in {"NONE", "PENDING_RECONCILIATION"}
                  /\ at.row.state = "NONE" => at.row.age = "day"
                  /\ at.row.state # "NONE" => at.row = stored'[at.on]
             /\ at.step \in Matched /\ ~at.missed /\ ~at.ctx.twins =>
                  Limits!countRecentByOriginatorAndE2E(at.on, at.row.e2e)' = {}
             /\ at.step \in Summed /\ ~at.missed =>
                  Limits!Volume(Limits!Counted({"day"}))' <= at.ctx.daily
             /\ at.step \in Fetched /\ ~at.missed =>
                  Limits!Volume(Limits!Counted({"day", "week", "month"}))' <= at.ctx.monthly
             /\ at.step = "authorized" =>
                  /\ at.row.state = "NONE"
                  /\ ~at.ctx.twins
                  /\ at.ctx.daily + at.row.amount <= DailyCap
                  /\ at.ctx.monthly + at.row.amount <= MonthlyCap
  BY <1>2, <1>5 DEF SessionKnows
<1>6. ASSUME NEW u \in Callers PROVE SessionKnows(session[u])'
  <2>1. SessionKnows(session'[u])
    BY <1>4 DEF LimitsInv
  <2> QED BY <2>1, <1>5 DEF SessionKnows
<1>7. ASSUME NEW u \in Callers PROVE Alone(u)'
  <2>1. \A v \in Callers : session[v].step = "idle" => session[v].on = None
    BY DEF LimitsInv, SessionKnows
  <2>3. x.step = "idle" => x.on = None
    BY DEF SessionKnows
  <2>4. \A v \in Callers : session[v].step # "idle" => session[v].on \in Things
    BY DEF LimitsInv, SessionKnows
  <2>5. ASSUME NEW v \in Callers \ {u}, session'[u].step # "idle", session'[v].on = session'[u].on
        PROVE  FALSE
    <3>1. CASE u = s
      <4>1. session'[u] = x /\ session'[v] = session[v] /\ v \in Callers \ {s}
        BY <1>4, <2>5, <3>1
      <4>2. session[v].step # "idle"
        <5>1. SUFFICES ASSUME session[v].on = None PROVE FALSE
          BY <2>1, <2>5
        <5>2. x.on \in Things
          BY <4>1, <2>5 DEF SessionKnows
        <5> QED BY <5>1, <5>2, <4>1, <2>5, ChecksAssumption
      <4> QED BY <4>1, <4>2, <2>5
    <3>2. CASE u # s /\ v = s
      <4>1. session'[u] = session[u] /\ session'[v] = x /\ session[u].on \in Things
        BY <1>4, <2>4, <2>5, <3>2
      <4>2. x.step # "idle"
        BY <4>1, <2>3, <2>5, ChecksAssumption
      <4> QED BY <4>1, <4>2, <2>5, <3>2
    <3>3. CASE u # s /\ v # s
      BY <1>4, <2>5, <3>3 DEF LimitsInv, Alone
    <3> QED BY <3>1, <3>2, <3>3
  <2> QED BY <2>5 DEF Alone
<1>8. \A t \in Things : stored'[t].state = "NONE" => stored'[t].e2e = None
  BY DEF LimitsInv
<1> QED BY <1>1, <1>3, <1>6, <1>7, <1>8 DEF LimitsInv

\* The twins of t are the same rows when only their state, or what is older,
\* has changed.
LEMMA SessionBeginsInv ==
  ASSUME LimitsInv, NEW s \in Callers, NEW t \in Things, NEW r \in Row, NEW from \in Codes, NEW to \in Codes,
         Limits!Begins(s, t, r, from, to)
  PROVE  LimitsInv'
<1> DEFINE x == [Limits!Away EXCEPT !.step = "begun", !.on = t, !.row = r,
                   !.ctx = [Limits!NoContext EXCEPT !.from = status[from], !.to = status[to]]]
<1>1. x \in Limits!Session
  BY AwayIs DEF Limits!Begins, Limits!Session, Limits!Context, LimitsInv, Limits!ATypeOK, Row, Limits!Away, Limits!NoContext
<1>2. x.step = "begun" /\ x.on = t /\ x.row = r
  BY DEF Limits!Away
<1>3. session' = [session EXCEPT ![s] = x] /\ UNCHANGED <<stored, status, missed>>
  BY DEF Limits!Begins
<1>4. \A u \in Callers \ {s} : session[u].on # x.on
  BY <1>2 DEF Limits!Begins
<1> HIDE DEF x
<1>5. SessionKnows(x)
  BY <1>2 DEF SessionKnows, Limits!Begins, Matched, Summed, Fetched
<1> QED BY <1>1, <1>2, <1>3, <1>4, <1>5, QuietSession

\* A read of the context: what it has read is so now.
LEMMA FetchesInv ==
  ASSUME LimitsInv, NEW s \in Callers, NEW from \in {"begun", "matched", "summed"},
         NEW to \in {"matched", "summed", "fetched"}, NEW ctx \in Limits!Context,
         Limits!Fetches(s, from, to, ctx),
         to \in Matched /\ ~ctx.twins =>
           \/ Limits!countRecentByOriginatorAndE2E(session[s].on, session[s].row.e2e) = {}
           \/ from \in Matched /\ ctx.twins = session[s].ctx.twins,
         to \in Summed =>
           \/ ctx.daily = Limits!Volume(Limits!Counted({"day"}))
           \/ from \in Summed /\ ctx.daily = session[s].ctx.daily,
         to \in Fetched => ctx.monthly = Limits!Volume(Limits!Counted({"day", "week", "month"}))
  PROVE  LimitsInv'
<1> DEFINE at == session[s]
           x == [at EXCEPT !.step = to, !.ctx = ctx]
           daily == Limits!Volume(Limits!Counted({"day"}))
           monthly == Limits!Volume(Limits!Counted({"day", "week", "month"}))
<1>1. at \in Limits!Session /\ at.step = from
  BY DEF LimitsInv, Limits!ATypeOK, Limits!Fetches
<1>2. daily \in Nat /\ monthly \in Nat
  BY VolumeIs, VolumeNat DEF LimitsInv, Limits!ATypeOK, Row, Limits!Counted
<1>3. session' = [session EXCEPT ![s] = x] /\ UNCHANGED <<stored, status, missed>>
  BY DEF Limits!Fetches, LimitsInv, Limits!ATypeOK
<1>4. x \in Limits!Session /\ x.step = to /\ x.on = at.on /\ x.row = at.row /\ x.missed = at.missed
      /\ x.ctx = ctx
  BY <1>1 DEF Limits!Session
<1>5. \A u \in Callers \ {s} : session[u].on # x.on
  BY <1>1, <1>4 DEF LimitsInv, Alone
<1>6. SessionKnows(at)
  BY DEF LimitsInv
<1>7. to \in Summed => ctx.daily = daily \/ (from \in Summed /\ ctx.daily = at.ctx.daily)
  OBVIOUS
<1>8. to \in Fetched => ctx.monthly = monthly
  OBVIOUS
<1>9. to \in Matched /\ ~ctx.twins =>
        \/ Limits!countRecentByOriginatorAndE2E(at.on, at.row.e2e) = {}
        \/ from \in Matched /\ ctx.twins = at.ctx.twins
  OBVIOUS
<1>10. daily <= daily /\ monthly <= monthly
  BY <1>2
<1>11. /\ x.step \in Matched /\ ~x.missed /\ ~x.ctx.twins =>
            Limits!countRecentByOriginatorAndE2E(x.on, x.row.e2e) = {}
       /\ x.step \in Summed /\ ~x.missed => daily <= x.ctx.daily
       /\ x.step \in Fetched /\ ~x.missed => monthly <= x.ctx.monthly
  <2>1. /\ from \in Matched /\ ~at.missed /\ ~at.ctx.twins =>
             Limits!countRecentByOriginatorAndE2E(at.on, at.row.e2e) = {}
        /\ from \in Summed /\ ~at.missed => daily <= at.ctx.daily
    BY <1>1, <1>6 DEF SessionKnows
  <2> HIDE DEF x, at, daily, monthly
  <2> QED BY <1>4, <1>7, <1>8, <1>9, <1>10, <2>1
<1>12. SessionKnows(x)
  <2> HIDE DEF x, at
  <2> QED BY <1>1, <1>4, <1>6, <1>11 DEF SessionKnows
<1> QED BY <1>3, <1>4, <1>5, <1>12, QuietSession

LEMMA FetchInv ==
  ASSUME LimitsInv, NEW s \in Callers,
         Limits!recentMatchingE2E(s) \/ Limits!dailyVolumeMinor(s) \/ Limits!monthlyVolumeMinor(s)
  PROVE  LimitsInv'
<1> DEFINE at == session[s]
           twins == Limits!countRecentByOriginatorAndE2E(at.on, at.row.e2e) # {}
           daily == Limits!Volume(Limits!Counted({"day"}))
           monthly == Limits!Volume(Limits!Counted({"day", "week", "month"}))
<1>1. at.ctx \in Limits!Context
  BY DEF LimitsInv, Limits!ATypeOK, Limits!Session
<1>2. daily \in Nat /\ monthly \in Nat /\ twins \in BOOLEAN
  BY VolumeIs, VolumeNat DEF LimitsInv, Limits!ATypeOK, Row, Limits!Counted
<1>3. CASE Limits!recentMatchingE2E(s)
  <2> DEFINE ctx == [at.ctx EXCEPT !.twins = twins]
  <2>1. Limits!Fetches(s, "begun", "matched", ctx)
    BY <1>3 DEF Limits!recentMatchingE2E
  <2>2. ctx \in Limits!Context /\ ctx.twins = twins
    BY <1>1, <1>2 DEF Limits!Context
  <2>3. ~twins => Limits!countRecentByOriginatorAndE2E(at.on, at.row.e2e) = {}
    OBVIOUS
  <2> HIDE DEF ctx, twins
  <2> QED BY <2>1, <2>2, <2>3, FetchesInv DEF Matched, Summed, Fetched
<1>4. CASE Limits!dailyVolumeMinor(s)
  <2> DEFINE ctx == [at.ctx EXCEPT !.daily = daily]
  <2>1. Limits!Fetches(s, "matched", "summed", ctx)
    BY <1>4 DEF Limits!dailyVolumeMinor, Limits!sumVolumeForOriginator
  <2>2. ctx \in Limits!Context /\ ctx.twins = at.ctx.twins /\ ctx.daily = daily
    <3> HIDE DEF daily, at
    <3> QED BY <1>1, <1>2 DEF Limits!Context
  <2> HIDE DEF ctx
  <2> QED BY <2>1, <2>2, FetchesInv DEF Matched, Summed, Fetched
<1>5. CASE Limits!monthlyVolumeMinor(s)
  <2> DEFINE ctx == [at.ctx EXCEPT !.monthly = monthly]
  <2>1. Limits!Fetches(s, "summed", "fetched", ctx)
    BY <1>5 DEF Limits!monthlyVolumeMinor, Limits!sumVolumeForOriginator
  <2>2. /\ ctx \in Limits!Context /\ ctx.twins = at.ctx.twins /\ ctx.daily = at.ctx.daily
        /\ ctx.monthly = monthly
    <3> HIDE DEF monthly, at
    <3> QED BY <1>1, <1>2 DEF Limits!Context
  <2> HIDE DEF ctx
  <2> QED BY <2>1, <2>2, FetchesInv DEF Matched, Summed, Fetched
<1> QED BY <1>3, <1>4, <1>5

LEMMA AuthorizesInv ==
  ASSUME LimitsInv, NEW s \in Callers, NEW others \in BOOLEAN, session[s].step = "fetched",
         Limits!Passes(s, others), session[s].row.state = "NONE",
         session' = [session EXCEPT ![s] = [@ EXCEPT !.step = "authorized"]],
         UNCHANGED <<stored, status, missed>>
  PROVE  LimitsInv'
<1> DEFINE at == session[s]
           x == [at EXCEPT !.step = "authorized"]
<1>1. at \in Limits!Session
  BY DEF LimitsInv, Limits!ATypeOK
<1>2. x \in Limits!Session /\ x.step = "authorized" /\ x.on = at.on /\ x.row = at.row
      /\ x.missed = at.missed /\ x.ctx = at.ctx
  BY <1>1 DEF Limits!Session
<1>3. session' = [session EXCEPT ![s] = x]
  OBVIOUS
<1>4. \A u \in Callers \ {s} : session[u].on # x.on
  BY <1>2 DEF LimitsInv, Alone
<1>5. SessionKnows(at)
  BY DEF LimitsInv
<1>6. ~at.ctx.twins /\ at.ctx.daily + at.row.amount <= DailyCap /\ at.ctx.monthly + at.row.amount <= MonthlyCap
  BY DEF Limits!Passes, Limits!duplicates, Limits!limits
<1>7. at.step = "fetched" /\ at.row.state = "NONE"
  OBVIOUS
<1>8. SessionKnows(x)
  <2> HIDE DEF x, at
  <2> QED BY <1>2, <1>5, <1>6, <1>7 DEF SessionKnows, Matched, Summed, Fetched
<1> HIDE DEF x
<1> QED BY <1>2, <1>3, <1>4, <1>8, QuietSession

LEMMA LeavesInv ==
  ASSUME LimitsInv, NEW s \in Callers, session' = [session EXCEPT ![s] = Limits!Away],
         UNCHANGED <<stored, status, missed>>
  PROVE  LimitsInv'
<1>1. SessionKnows(Limits!Away)
  BY AwayIs DEF SessionKnows, Matched, Summed, Fetched
<1> QED BY <1>1, AwayIs, QuietSession

\* Of the rows that count, those that are left after a row has changed.
LEMMA RowChanges ==
  ASSUME LimitsInv, NEW t \in Things, NEW r \in Row, stored' = [stored EXCEPT ![t] = r]
  PROVE  /\ stored' \in [Things -> Row]
         /\ \A u \in Things : stored'[u] = IF u = t THEN r ELSE stored[u]
         /\ \A ages : /\ Limits!Counted(ages) \subseteq Things
                      /\ Limits!Counted(ages)' \subseteq Limits!Counted(ages) \cup {t}
                      /\ r.state \notin {"CONFIRMED", "PENDING_RECONCILIATION"} \/ r.age \notin ages
                         => Limits!Counted(ages)' \subseteq Limits!Counted(ages)
<1>1. stored' \in [Things -> Row] /\ \A u \in Things : stored'[u] = IF u = t THEN r ELSE stored[u]
  BY DEF LimitsInv, Limits!ATypeOK, Row
<1> QED BY <1>1 DEF Limits!Counted

\* What a commit does to another session.
LEMMA MissesIs ==
  ASSUME NEW at \in Limits!Session
  PROVE  LET x == Limits!Misses(at) IN
         /\ x \in Limits!Session
         /\ x.step = at.step /\ x.on = at.on /\ x.row = at.row /\ x.ctx = at.ctx
         /\ x.step \in Matched => x.missed
  BY DEF Limits!Misses, Limits!Session, Matched, Summed, Fetched

LEMMA CommitInv ==
  ASSUME LimitsInv, NEW s \in Callers, session[s].step \in {"fetched", "authorized"},
         NEW state \in Limits!TxStates \ {"NONE"},
         state = "REJECTED" \/ session[s].step = "authorized",
         Limits!Commits(s, state)
  PROVE  LimitsInv'
<1> DEFINE at == session[s]
           t == at.on
           r == [at.row EXCEPT !.state = state]
           day == {"day"}
           long == {"day", "week", "month"}
<1>1. at \in Limits!Session /\ at.row \in Row /\ at.ctx \in Limits!Context /\ at.missed \in BOOLEAN
  BY DEF LimitsInv, Limits!ATypeOK, Limits!Session, Row
<1>2. SessionKnows(at) /\ t \in Things
  <2>1. SessionKnows(at)
    BY DEF LimitsInv
  <2> QED BY <2>1 DEF SessionKnows
<1>3. r \in Row /\ r.state = state /\ r.amount = at.row.amount /\ r.e2e = at.row.e2e /\ r.age = at.row.age
  BY <1>1 DEF Row, Limits!Row
<1>4. /\ stored' = [stored EXCEPT ![t] = r]
      /\ session' = [c \in Callers |-> IF c = s THEN Limits!Away ELSE Limits!Misses(session[c])]
      /\ missed' = IF at.missed THEN missed \cup {t} ELSE missed
      /\ status' = status
  BY DEF Limits!Commits
<1> HIDE DEF r, t, at
<1>5. /\ stored' \in [Things -> Row] /\ stored \in [Things -> Row]
      /\ \A u \in Things : stored'[u] = IF u = t THEN r ELSE stored[u]
      /\ \A ages : /\ Limits!Counted(ages) \subseteq Things
                   /\ Limits!Counted(ages)' \subseteq Limits!Counted(ages) \cup {t}
                   /\ r.state \notin {"CONFIRMED", "PENDING_RECONCILIATION"} \/ r.age \notin ages
                      => Limits!Counted(ages)' \subseteq Limits!Counted(ages)
  BY <1>2, <1>3, <1>4, RowChanges DEF LimitsInv, Limits!ATypeOK, Row
<1>6. ASSUME NEW c \in Callers
      PROVE  /\ c = s => session'[c] = Limits!Away
             /\ c # s => /\ session'[c].step = session[c].step /\ session'[c].on = session[c].on
                         /\ session'[c].row = session[c].row /\ session'[c].ctx = session[c].ctx
                         /\ session'[c].step \in Matched => session'[c].missed
             /\ session'[c] \in Limits!Session
  <2>1. session[c] \in Limits!Session
    BY DEF LimitsInv, Limits!ATypeOK
  <2> QED BY <1>4, <2>1, AwayIs, MissesIs
<1>7. Limits!ATypeOK'
  <2>1. session' \in [Callers -> Limits!Session]
    BY <1>4, <1>6
  <2> QED BY <2>1, <1>2, <1>4, <1>5 DEF LimitsInv, Limits!ATypeOK, Row
<1>8. \A c \in Callers \ {s} : session[c].on # t
  <2>1. at.step # "idle"
    BY DEF at
  <2> QED BY <2>1 DEF LimitsInv, Alone, t, at
<1>9. \A c \in Callers : (SessionKnows(session[c]) /\ Alone(c))'
  <2> SUFFICES ASSUME NEW c \in Callers PROVE SessionKnows(session[c])' /\ Alone(c)'
    OBVIOUS
  <2>1. CASE c = s
    <3>1. session'[c].step = "idle" /\ session'[c].on = None
      BY <1>6, <2>1, AwayIs
    <3> QED BY <3>1 DEF SessionKnows, Alone, Matched, Summed, Fetched
  <2>2. CASE c # s
    <3>1. SessionKnows(session[c])
      BY DEF LimitsInv
    <3>2. SessionKnows(session[c])'
      <4>1. session[c].step # "idle" => stored'[session[c].on] = stored[session[c].on]
        BY <1>5, <1>8, <2>2, <3>1 DEF SessionKnows
      <4>2. /\ session'[c].step = session[c].step /\ session'[c].on = session[c].on
            /\ session'[c].row = session[c].row /\ session'[c].ctx = session[c].ctx
            /\ ~(session'[c].step \in Matched /\ ~session'[c].missed)
        BY <1>6, <2>2
      <4> QED BY <3>1, <4>1, <4>2 DEF SessionKnows, Matched, Summed
    <3>3. Alone(c)'
      <4> SUFFICES ASSUME session'[c].step # "idle", NEW u \in Callers \ {c}, session'[u].on = session'[c].on
                   PROVE  FALSE
        BY DEF Alone
      <4>1. session[c].step # "idle" /\ session'[c].on = session[c].on /\ session[c].on \in Things
        BY <1>6, <2>2, <3>1 DEF SessionKnows
      <4>2. CASE u = s
        BY <4>1, <4>2, <1>6, AwayIs, ChecksAssumption
      <4>3. CASE u # s
        BY <4>1, <4>3, <1>6 DEF LimitsInv, Alone
      <4> QED BY <4>2, <4>3
    <3> QED BY <3>2, <3>3
  <2> QED BY <2>1, <2>2
<1>10. \A u \in Things : stored'[u].state = "NONE" => stored'[u].e2e = None
  BY <1>3, <1>5 DEF LimitsInv
<1>11. state = "REJECTED" \/ at.missed \/
         /\ at.row.state = "NONE" /\ at.ctx.twins = FALSE
         /\ at.ctx.daily + r.amount <= DailyCap /\ at.ctx.monthly + r.amount <= MonthlyCap
         /\ Limits!Volume(Limits!Counted(day)) <= at.ctx.daily
         /\ Limits!Volume(Limits!Counted(long)) <= at.ctx.monthly
         /\ Limits!countRecentByOriginatorAndE2E(t, r.e2e) = {}
  <2>1. at.step = "authorized" \/ state = "REJECTED"
    BY DEF at
  <2>2. at.ctx.twins \in BOOLEAN
    BY <1>1 DEF Limits!Context
  <2> QED BY <1>2, <1>3, <2>1, <2>2 DEF SessionKnows, t, Matched, Summed, Fetched
<1>12. Limits!CapsHoldButForOverlapped'
  <2> DEFINE f == stored
             g == stored'
  <2>0. \A u \in Things \ {t} : g[u].amount = f[u].amount
    BY <1>5
  <2>01. missed \subseteq missed' /\ (at.missed => t \in missed')
    BY <1>4
  <2>1. CASE state = "REJECTED" \/ at.missed
    <3>1. ASSUME NEW ages, t \notin Limits!Counted(ages)' \ missed'
          PROVE  /\ (Limits!Volume(Limits!Counted(ages) \ missed))'
                     <= Limits!Volume(Limits!Counted(ages) \ missed)
                 /\ (Limits!Volume(Limits!Counted(ages) \ missed))' \in Nat
                 /\ Limits!Volume(Limits!Counted(ages) \ missed) \in Nat
      <4> DEFINE S == Limits!Counted(ages) \ missed
                 R == Limits!Counted(ages)' \ missed'
      <4>1. S \subseteq Things /\ R \subseteq S /\ R \subseteq Things
        BY <1>5, <2>01, <3>1
      <4>2. \A u \in R : g[u].amount = f[u].amount
        BY <2>0, <3>1, <4>1
      <4> HIDE DEF S, R
      <4>3. SumFunctionOnSet(AmountIn(g), R) <= SumFunctionOnSet(AmountIn(f), S)
        BY <1>5, <4>1, <4>2, VolumeFewer
      <4>4. SumFunctionOnSet(AmountIn(g), R) \in Nat /\ SumFunctionOnSet(AmountIn(f), S) \in Nat
        BY <1>5, <4>1, VolumeNat
      <4>5. (Limits!Volume(Limits!Counted(ages) \ missed))' = SumFunctionOnSet(AmountIn(g), R) /\ Limits!Volume(S) = SumFunctionOnSet(AmountIn(f), S)
        BY VolumeIs DEF R, S
      <4> QED BY <4>3, <4>4, <4>5 DEF R, S
    <3>2. \A ages : t \notin Limits!Counted(ages)' \ missed'
      <4>1. CASE at.missed
        BY <4>1, <2>01
      <4>2. CASE state = "REJECTED"
        BY <4>2, <1>2, <1>3, <1>5 DEF Limits!Counted
      <4> QED BY <2>1, <4>1, <4>2
    <3>3. /\ (Limits!Volume(Limits!Counted(day) \ missed))' <= Limits!Volume(Limits!Counted(day) \ missed)
          /\ (Limits!Volume(Limits!Counted(long) \ missed))' <= Limits!Volume(Limits!Counted(long) \ missed)
          /\ (Limits!Volume(Limits!Counted(day) \ missed))' \in Nat
          /\ Limits!Volume(Limits!Counted(day) \ missed) \in Nat
          /\ (Limits!Volume(Limits!Counted(long) \ missed))' \in Nat
          /\ Limits!Volume(Limits!Counted(long) \ missed) \in Nat
      BY <3>1, <3>2
    <3>4. /\ Limits!Volume(Limits!Counted(day) \ missed) <= DailyCap
          /\ Limits!Volume(Limits!Counted(long) \ missed) <= MonthlyCap
      BY DEF LimitsInv, Limits!CapsHoldButForOverlapped
    <3> QED BY <3>3, <3>4, ChecksAssumption DEF Limits!CapsHoldButForOverlapped
  <2>2. CASE ~(state = "REJECTED" \/ at.missed)
    <3>1. ASSUME NEW ages
          PROVE  /\ (Limits!Volume(Limits!Counted(ages) \ missed))'
                     <= Limits!Volume(Limits!Counted(ages)) + r.amount
                 /\ (Limits!Volume(Limits!Counted(ages) \ missed))' \in Nat
                 /\ Limits!Volume(Limits!Counted(ages)) \in Nat
      <4> DEFINE S == Limits!Counted(ages)
                 R == Limits!Counted(ages)' \ missed'
      <4>1. S \subseteq Things /\ R \subseteq S \cup {t} /\ R \subseteq Things
        BY <1>2, <1>5
      <4>2. \A u \in S \ {t} : g[u].amount = f[u].amount
        BY <2>0, <4>1
      <4>6. g[t] = r
        BY <1>2, <1>5
      <4> HIDE DEF S, R
      <4>3. SumFunctionOnSet(AmountIn(g), R) <= SumFunctionOnSet(AmountIn(f), S) + g[t].amount
        BY <1>2, <1>5, <4>1, <4>2, VolumeOneMore
      <4>4. SumFunctionOnSet(AmountIn(g), R) \in Nat /\ SumFunctionOnSet(AmountIn(f), S) \in Nat
        BY <1>5, <4>1, VolumeNat
      <4>5. (Limits!Volume(Limits!Counted(ages) \ missed))' = SumFunctionOnSet(AmountIn(g), R) /\ Limits!Volume(S) = SumFunctionOnSet(AmountIn(f), S)
        BY VolumeIs DEF R, S
      <4> QED BY <4>3, <4>4, <4>5, <4>6 DEF R, S
    <3>2. /\ (Limits!Volume(Limits!Counted(day) \ missed))' <= Limits!Volume(Limits!Counted(day)) + r.amount
          /\ (Limits!Volume(Limits!Counted(long) \ missed))' <= Limits!Volume(Limits!Counted(long)) + r.amount
          /\ (Limits!Volume(Limits!Counted(day) \ missed))' \in Nat
          /\ Limits!Volume(Limits!Counted(day)) \in Nat
          /\ (Limits!Volume(Limits!Counted(long) \ missed))' \in Nat
          /\ Limits!Volume(Limits!Counted(long)) \in Nat
      BY <3>1
    <3>3. at.ctx.daily \in Nat /\ at.ctx.monthly \in Nat /\ r.amount \in Nat
      BY <1>1, <1>3, RowIs DEF Limits!Context
    <3> QED BY <3>2, <3>3, <1>11, <2>2, ChecksAssumption DEF Limits!CapsHoldButForOverlapped
  <2> QED BY <2>1, <2>2
<1>13. Limits!OneOfEachIdButForOverlapped'
  <2> SUFFICES ASSUME NEW u \in Things, NEW v \in Things,
                      u # v, stored'[u].e2e = stored'[v].e2e, stored'[u].e2e # None,
                      stored'[u].age \in {"day", "week"}, stored'[v].age \in {"day", "week"},
                      stored'[u].state # "REJECTED", stored'[v].state # "REJECTED",
                      u \notin missed', v \notin missed'
               PROVE  FALSE
    BY DEF Limits!OneOfEachIdButForOverlapped
  <2>0. missed \subseteq missed' /\ (at.missed => t \in missed')
    BY <1>4
  <2>1. ASSUME NEW w \in Things, w # t, t \in {u, v}, w \in {u, v} PROVE FALSE
    <3>1. stored'[t] = r /\ stored'[w] = stored[w] /\ stored[w].e2e = r.e2e
          /\ stored[w].age \in {"day", "week"} /\ r.e2e # None
      BY <1>2, <1>5, <2>1
    <3>2. ~at.missed /\ state # "REJECTED"
      BY <1>3, <2>0, <2>1, <3>1
    <3>3. stored[w].state # "NONE"
      BY <3>1 DEF LimitsInv
    <3>4. w \in Limits!countRecentByOriginatorAndE2E(t, r.e2e)
      BY <2>1, <3>1, <3>3 DEF Limits!countRecentByOriginatorAndE2E
    <3> QED BY <3>2, <3>4, <1>11
  <2>2. u # t /\ v # t
    BY <2>1
  <2>3. stored'[u] = stored[u] /\ stored'[v] = stored[v] /\ u \notin missed /\ v \notin missed
    BY <2>0, <2>2, <1>5
  <2> QED BY <2>3 DEF LimitsInv, Limits!OneOfEachIdButForOverlapped
<1> QED BY <1>7, <1>9, <1>10, <1>12, <1>13 DEF LimitsInv

\* A reversal: nobody has seen it, and it is one of those that have not seen
\* the others.
LEMMA ReversalInv ==
  ASSUME LimitsInv, NEW t \in Things, NEW amount \in Amounts, Limits!initiateReversal(t, amount)
  PROVE  LimitsInv'
<1> DEFINE r == [Limits!NoRow EXCEPT !.state = "CONFIRMED", !.amount = amount]
           f == stored
           g == stored'
           day == {"day"}
           long == {"day", "week", "month"}
<1>1. /\ stored' = [stored EXCEPT ![t] = r]
      /\ session' = [c \in Callers |-> Limits!Misses(session[c])]
      /\ missed' = missed \cup {t}
      /\ status' = status
      /\ \A s \in Callers : session[s].on # t
  BY DEF Limits!initiateReversal
<1>2. r \in Row /\ r.state = "CONFIRMED" /\ r.e2e = None
  BY AwayIs DEF Row, Limits!Row, Limits!NoRow, Limits!TxStates
<1> HIDE DEF r
<1>3. /\ stored' \in [Things -> Row] /\ stored \in [Things -> Row]
      /\ \A u \in Things : stored'[u] = IF u = t THEN r ELSE stored[u]
      /\ \A ages : /\ Limits!Counted(ages) \subseteq Things
                   /\ Limits!Counted(ages)' \subseteq Limits!Counted(ages) \cup {t}
  BY <1>1, <1>2, RowChanges DEF LimitsInv, Limits!ATypeOK, Row
<1>4. ASSUME NEW c \in Callers
      PROVE  /\ session'[c] \in Limits!Session
             /\ session'[c].step = session[c].step /\ session'[c].on = session[c].on
             /\ session'[c].row = session[c].row /\ session'[c].ctx = session[c].ctx
             /\ session'[c].step \in Matched => session'[c].missed
  <2>1. session[c] \in Limits!Session /\ session'[c] = Limits!Misses(session[c])
    BY <1>1 DEF LimitsInv, Limits!ATypeOK
  <2> QED BY <2>1, MissesIs
<1>5. Limits!ATypeOK'
  <2>1. session' \in [Callers -> Limits!Session]
    BY <1>1, <1>4
  <2> QED BY <2>1, <1>1, <1>3 DEF LimitsInv, Limits!ATypeOK, Row
<1>6. ASSUME NEW c \in Callers PROVE (SessionKnows(session[c]) /\ Alone(c))'
  <2>1. SessionKnows(session[c]) /\ Alone(c)
    BY DEF LimitsInv
  <2>2. session[c].step # "idle" => stored'[session[c].on] = stored[session[c].on]
    BY <1>1, <1>3, <2>1 DEF SessionKnows
  <2>3. SessionKnows(session[c])'
    BY <1>4, <2>1, <2>2 DEF SessionKnows, Matched, Summed
  <2>4. Alone(c)'
    BY <1>4, <2>1 DEF Alone
  <2> QED BY <2>3, <2>4
<1>7. ASSUME NEW ages
      PROVE  /\ (Limits!Volume(Limits!Counted(ages) \ missed))'
                 <= Limits!Volume(Limits!Counted(ages) \ missed)
             /\ (Limits!Volume(Limits!Counted(ages) \ missed))' \in Nat
             /\ Limits!Volume(Limits!Counted(ages) \ missed) \in Nat
  <2> DEFINE S == Limits!Counted(ages) \ missed
             R == Limits!Counted(ages)' \ missed'
  <2>1. S \subseteq Things /\ R \subseteq S /\ R \subseteq Things
    BY <1>1, <1>3
  <2>2. \A u \in R : g[u].amount = f[u].amount
    BY <1>1, <1>3, <2>1
  <2> HIDE DEF S, R
  <2>3. SumFunctionOnSet(AmountIn(g), R) <= SumFunctionOnSet(AmountIn(f), S)
    BY <1>3, <2>1, <2>2, VolumeFewer
  <2>4. SumFunctionOnSet(AmountIn(g), R) \in Nat /\ SumFunctionOnSet(AmountIn(f), S) \in Nat
    BY <1>3, <2>1, VolumeNat
  <2>5. /\ (Limits!Volume(Limits!Counted(ages) \ missed))' = SumFunctionOnSet(AmountIn(g), R)
        /\ Limits!Volume(S) = SumFunctionOnSet(AmountIn(f), S)
    BY VolumeIs DEF R, S
  <2> QED BY <2>3, <2>4, <2>5 DEF R, S
<1>8. Limits!CapsHoldButForOverlapped'
  <2> HIDE DEF day, long
  <2>1. /\ (Limits!Volume(Limits!Counted(day) \ missed))' <= Limits!Volume(Limits!Counted(day) \ missed)
        /\ (Limits!Volume(Limits!Counted(long) \ missed))' <= Limits!Volume(Limits!Counted(long) \ missed)
        /\ (Limits!Volume(Limits!Counted(day) \ missed))' \in Nat
        /\ Limits!Volume(Limits!Counted(day) \ missed) \in Nat
        /\ (Limits!Volume(Limits!Counted(long) \ missed))' \in Nat
        /\ Limits!Volume(Limits!Counted(long) \ missed) \in Nat
    BY <1>7
  <2>2. /\ Limits!Volume(Limits!Counted(day) \ missed) <= DailyCap
        /\ Limits!Volume(Limits!Counted(long) \ missed) <= MonthlyCap
    BY DEF LimitsInv, Limits!CapsHoldButForOverlapped, day, long
  <2> QED BY <2>1, <2>2, ChecksAssumption DEF Limits!CapsHoldButForOverlapped, day, long
<1>9. Limits!OneOfEachIdButForOverlapped'
  <2> SUFFICES ASSUME NEW u \in Things, NEW v \in Things,
                      u # v, stored'[u].e2e = stored'[v].e2e, stored'[u].e2e # None,
                      stored'[u].age \in {"day", "week"}, stored'[v].age \in {"day", "week"},
                      stored'[u].state # "REJECTED", stored'[v].state # "REJECTED",
                      u \notin missed', v \notin missed'
               PROVE  FALSE
    BY DEF Limits!OneOfEachIdButForOverlapped
  <2>1. u # t /\ v # t /\ u \notin missed /\ v \notin missed
    BY <1>1
  <2>2. stored'[u] = stored[u] /\ stored'[v] = stored[v]
    BY <1>3, <2>1
  <2> QED BY <2>1, <2>2 DEF LimitsInv, Limits!OneOfEachIdButForOverlapped
<1>10. \A u \in Things : stored'[u].state = "NONE" => stored'[u].e2e = None
  BY <1>2, <1>3 DEF LimitsInv
<1> QED BY <1>5, <1>6, <1>8, <1>9, <1>10 DEF LimitsInv

\* What happens to a row that no session is on.
LEMMA RowAgesInv ==
  ASSUME LimitsInv, NEW t \in Things, NEW r \in Row, stored' = [stored EXCEPT ![t] = r],
         UNCHANGED <<status, session, missed>>,
         \A s \in Callers : session[s].on # t,
         \/ r.state = stored[t].state /\ \A s \in Callers : session[s] = Limits!Away
         \/ r.age = stored[t].age,
         stored[t].state # "NONE", r.state # "NONE",
         r.amount = stored[t].amount, r.e2e = stored[t].e2e,
         r.state \in {"CONFIRMED", "PENDING_RECONCILIATION"}
            => stored[t].state \in {"CONFIRMED", "PENDING_RECONCILIATION"},
         r.age = "day" => stored[t].age = "day",
         r.age \in {"day", "week"} => stored[t].age \in {"day", "week"},
         r.age \in {"day", "week", "month"} => stored[t].age \in {"day", "week", "month"},
         stored[t].state = "REJECTED" => r.state = "REJECTED"
  PROVE  LimitsInv'
<1> DEFINE f == stored
           g == stored'
           day == {"day"}
           long == {"day", "week", "month"}
<1>1. /\ stored' \in [Things -> Row] /\ stored \in [Things -> Row]
      /\ \A u \in Things : stored'[u] = IF u = t THEN r ELSE stored[u]
  BY RowChanges DEF LimitsInv, Limits!ATypeOK, Row
<1>2. Limits!ATypeOK'
  BY <1>1 DEF LimitsInv, Limits!ATypeOK, Row
<1>3. /\ Limits!Counted(day)' \subseteq Limits!Counted(day) /\ Limits!Counted(long)' \subseteq Limits!Counted(long)
      /\ Limits!Counted(day) \subseteq Things /\ Limits!Counted(long) \subseteq Things
  BY <1>1 DEF Limits!Counted
<1>4. \A u \in Things : g[u].amount = f[u].amount
  BY <1>1
<1>5. ASSUME NEW S, NEW R, S \subseteq Things, R \subseteq S
      PROVE  /\ SumFunctionOnSet(AmountIn(g), R) <= SumFunctionOnSet(AmountIn(f), S)
             /\ SumFunctionOnSet(AmountIn(g), R) \in Nat /\ SumFunctionOnSet(AmountIn(f), S) \in Nat
  <2>1. SumFunctionOnSet(AmountIn(g), R) <= SumFunctionOnSet(AmountIn(f), S)
    BY <1>1, <1>4, <1>5, VolumeFewer
  <2>2. SumFunctionOnSet(AmountIn(g), R) \in Nat /\ SumFunctionOnSet(AmountIn(f), S) \in Nat
    BY <1>1, <1>5, VolumeNat
  <2> QED BY <2>1, <2>2
<1>6. /\ (Limits!Volume(Limits!Counted(day) \ missed))' <= Limits!Volume(Limits!Counted(day) \ missed)
      /\ (Limits!Volume(Limits!Counted(long) \ missed))' <= Limits!Volume(Limits!Counted(long) \ missed)
      /\ (Limits!Volume(Limits!Counted(day)))' <= Limits!Volume(Limits!Counted(day))
      /\ (Limits!Volume(Limits!Counted(long)))' <= Limits!Volume(Limits!Counted(long))
      /\ (Limits!Volume(Limits!Counted(day) \ missed))' \in Nat /\ Limits!Volume(Limits!Counted(day) \ missed) \in Nat
      /\ (Limits!Volume(Limits!Counted(long) \ missed))' \in Nat /\ Limits!Volume(Limits!Counted(long) \ missed) \in Nat
      /\ (Limits!Volume(Limits!Counted(day)))' \in Nat /\ Limits!Volume(Limits!Counted(day)) \in Nat
      /\ (Limits!Volume(Limits!Counted(long)))' \in Nat /\ Limits!Volume(Limits!Counted(long)) \in Nat
  <2>1. ASSUME NEW ages, Limits!Counted(ages)' \subseteq Limits!Counted(ages), Limits!Counted(ages) \subseteq Things
        PROVE  /\ (Limits!Volume(Limits!Counted(ages) \ missed))' <= Limits!Volume(Limits!Counted(ages) \ missed)
               /\ (Limits!Volume(Limits!Counted(ages)))' <= Limits!Volume(Limits!Counted(ages))
               /\ (Limits!Volume(Limits!Counted(ages) \ missed))' \in Nat /\ Limits!Volume(Limits!Counted(ages) \ missed) \in Nat
               /\ (Limits!Volume(Limits!Counted(ages)))' \in Nat /\ Limits!Volume(Limits!Counted(ages)) \in Nat
    <3> DEFINE S == Limits!Counted(ages)
               R == Limits!Counted(ages)'
    <3>1. S \subseteq Things /\ R \subseteq S /\ S \ missed \subseteq Things /\ R \ missed \subseteq S \ missed
          /\ missed' = missed
      BY <2>1
    <3>2. /\ (Limits!Volume(Limits!Counted(ages) \ missed))' = SumFunctionOnSet(AmountIn(g), R \ missed)
          /\ (Limits!Volume(Limits!Counted(ages)))' = SumFunctionOnSet(AmountIn(g), R)
          /\ Limits!Volume(Limits!Counted(ages) \ missed) = SumFunctionOnSet(AmountIn(f), S \ missed)
          /\ Limits!Volume(Limits!Counted(ages)) = SumFunctionOnSet(AmountIn(f), S)
      BY <3>1, VolumeIs
    <3> HIDE DEF S, R, f, g
    <3>3. /\ SumFunctionOnSet(AmountIn(g), R) <= SumFunctionOnSet(AmountIn(f), S)
          /\ SumFunctionOnSet(AmountIn(g), R) \in Nat /\ SumFunctionOnSet(AmountIn(f), S) \in Nat
      BY <1>5, <3>1
    <3>4. /\ SumFunctionOnSet(AmountIn(g), R \ missed) <= SumFunctionOnSet(AmountIn(f), S \ missed)
          /\ SumFunctionOnSet(AmountIn(g), R \ missed) \in Nat /\ SumFunctionOnSet(AmountIn(f), S \ missed) \in Nat
      BY <1>5, <3>1
    <3> QED BY <3>2, <3>3, <3>4
  <2> HIDE DEF day, long
  <2> QED BY <1>3, <2>1
<1>7. Limits!CapsHoldButForOverlapped'
  BY <1>6, ChecksAssumption DEF LimitsInv, Limits!CapsHoldButForOverlapped
<1>8. Limits!OneOfEachIdButForOverlapped'
  <2> SUFFICES ASSUME NEW u \in Things, NEW v \in Things,
                      u # v, stored'[u].e2e = stored'[v].e2e, stored'[u].e2e # None,
                      stored'[u].age \in {"day", "week"}, stored'[v].age \in {"day", "week"},
                      stored'[u].state # "REJECTED", stored'[v].state # "REJECTED",
                      u \notin missed, v \notin missed
               PROVE  FALSE
    BY DEF Limits!OneOfEachIdButForOverlapped
  <2>1. \A w \in {u, v} : /\ stored[w].e2e = stored'[w].e2e /\ stored[w].age \in {"day", "week"}
                          /\ stored[w].state # "REJECTED"
    BY <1>1
  <2> QED BY <2>1 DEF LimitsInv, Limits!OneOfEachIdButForOverlapped
<1>9. \A u \in Things : stored'[u].state = "NONE" => stored'[u].e2e = None
  BY <1>1 DEF LimitsInv
<1>10. ASSUME NEW s \in Callers PROVE (SessionKnows(session[s]) /\ Alone(s))'
  <2> DEFINE at == session[s]
  <2>1. SessionKnows(at) /\ at \in Limits!Session /\ at.ctx \in Limits!Context
    BY DEF LimitsInv, Limits!ATypeOK, Limits!Session
  <2>2. Alone(s)'
    BY DEF LimitsInv, Alone
  <2>3. CASE at.step = "idle"
    BY <2>1, <2>2, <2>3 DEF SessionKnows, Matched, Summed, Fetched
  <2>4. CASE at.step # "idle"
    <3>1. at.on \in Things /\ at.on # t /\ stored'[at.on] = stored[at.on]
      BY <1>1, <2>1, <2>4 DEF SessionKnows
    <3>2. r.age = stored[t].age
      BY <2>4, AwayIs
    <3>3. Limits!countRecentByOriginatorAndE2E(at.on, at.row.e2e)'
            = Limits!countRecentByOriginatorAndE2E(at.on, at.row.e2e)
      BY <1>1, <3>2 DEF Limits!countRecentByOriginatorAndE2E
    <3>4. at.ctx.daily \in Nat /\ at.ctx.monthly \in Nat
      BY <2>1 DEF Limits!Context
    <3>5. at' = at
      OBVIOUS
    <3>6. /\ at.step \in Matched /\ ~at.missed /\ ~at.ctx.twins =>
               Limits!countRecentByOriginatorAndE2E(at.on, at.row.e2e)' = {}
          /\ at.step \in Summed /\ ~at.missed =>
               Limits!Volume(Limits!Counted({"day"}))' <= at.ctx.daily
          /\ at.step \in Fetched /\ ~at.missed =>
               Limits!Volume(Limits!Counted({"day", "week", "month"}))' <= at.ctx.monthly
      BY <1>6, <2>1, <3>3, <3>4 DEF SessionKnows
    <3> HIDE DEF at
    <3>7. SessionKnows(at)'
      BY <2>1, <3>1, <3>5, <3>6 DEF SessionKnows
    <3> QED BY <2>2, <3>7 DEF at
  <2> QED BY <2>3, <2>4
<1> QED BY <1>2, <1>7, <1>8, <1>9, <1>10 DEF LimitsInv

LEMMA StatusInv ==
  ASSUME LimitsInv, status' \in [Codes -> Limits!Statuses], UNCHANGED <<stored, session, missed>>
  PROVE  LimitsInv'
<1>1. Limits!ATypeOK'
  BY DEF LimitsInv, Limits!ATypeOK
<1>2. /\ \A ages : Limits!Counted(ages)' = Limits!Counted(ages)
      /\ \A S : Limits!Volume(S)' = Limits!Volume(S)
      /\ \A t, e : Limits!countRecentByOriginatorAndE2E(t, e)' = Limits!countRecentByOriginatorAndE2E(t, e)
  BY VolumeIs DEF Limits!Counted, Limits!countRecentByOriginatorAndE2E
<1>3. Limits!CapsHoldButForOverlapped' /\ Limits!OneOfEachIdButForOverlapped'
  BY <1>2 DEF LimitsInv, Limits!CapsHoldButForOverlapped, Limits!OneOfEachIdButForOverlapped
<1>4. ASSUME NEW s \in Callers PROVE (SessionKnows(session[s]) /\ Alone(s))'
  <2>1. SessionKnows(session[s]) /\ Alone(s)
    BY DEF LimitsInv
  <2>2. SessionKnows(session[s])'
    BY <1>2, <2>1 DEF SessionKnows
  <2> QED BY <2>1, <2>2 DEF Alone
<1> QED BY <1>1, <1>3, <1>4 DEF LimitsInv

LEMMA LimitsStepInv == LimitsInv /\ Limits!ANext => LimitsInv'
<1> SUFFICES ASSUME LimitsInv, Limits!ANext PROVE LimitsInv'
  OBVIOUS
<1>0. stored \in [Things -> Row] /\ Limits!ATypeOK
  BY DEF LimitsInv, Limits!ATypeOK, Row
<1>1. ASSUME NEW s \in Callers, NEW t \in Things, NEW from \in Codes, NEW to \in Codes,
             Limits!Begins(s, t, stored[t], from, to)
      PROVE  LimitsInv'
  BY <1>0, <1>1, SessionBeginsInv
<1>2. ASSUME NEW s \in Callers, NEW t \in Things, NEW from \in Codes, NEW to \in Codes,
             NEW amount \in Amounts, NEW e2e \in Two,
             Limits!Begins(s, t, [Limits!NoRow EXCEPT !.amount = amount, !.e2e = e2e], from, to)
      PROVE  LimitsInv'
  <2>1. [Limits!NoRow EXCEPT !.amount = amount, !.e2e = e2e] \in Row
    BY AwayIs DEF Row, Limits!Row, Limits!NoRow
  <2> QED BY <1>2, <2>1, SessionBeginsInv
<1>3. ASSUME NEW s \in Callers,
             Limits!recentMatchingE2E(s) \/ Limits!dailyVolumeMinor(s) \/ Limits!monthlyVolumeMinor(s)
      PROVE  LimitsInv'
  BY <1>3, FetchInv
<1>4. ASSUME NEW s \in Callers, Limits!process(s) PROVE LimitsInv'
  <2>1. PICK state \in {"CONFIRMED", "PENDING_RECONCILIATION", "REJECTED"} : Limits!Commits(s, state)
    BY <1>4 DEF Limits!process
  <2>2. session[s].step = "authorized" /\ state \in Limits!TxStates \ {"NONE"}
    BY <1>4 DEF Limits!process, Limits!TxStates
  <2> QED BY <2>1, <2>2, CommitInv
<1>5. ASSUME NEW s \in Callers, Limits!Throws(s) PROVE LimitsInv'
  BY <1>5, LeavesInv DEF Limits!Throws
<1>6. ASSUME NEW s \in Callers, NEW others \in BOOLEAN, Limits!authorize(s, others) PROVE LimitsInv'
  <2>0. session[s].step = "fetched" /\ "REJECTED" \in Limits!TxStates \ {"NONE"}
    BY <1>6 DEF Limits!authorize, Limits!TxStates
  <2>1. CASE ~Limits!Passes(s, others)
    BY <1>6, <2>0, <2>1, CommitInv DEF Limits!authorize
  <2>2. CASE Limits!Passes(s, others) /\ session[s].row.state = "NONE"
    BY <1>6, <2>0, <2>2, AuthorizesInv DEF Limits!authorize
  <2>3. CASE Limits!Passes(s, others) /\ session[s].row.state # "NONE"
    BY <1>6, <2>0, <2>3, LeavesInv DEF Limits!authorize
  <2> QED BY <2>1, <2>2, <2>3
<1>7. ASSUME NEW t \in Things, Limits!MovesOn(t) PROVE LimitsInv'
  <2> DEFINE r(state) == [stored[t] EXCEPT !.state = state]
  <2>1. PICK state \in {"CONFIRMED", "REJECTED", "REVERSED"} :
          /\ stored' = [stored EXCEPT ![t] = r(state)]
          /\ stored[t].state \in {"PENDING_RECONCILIATION", "CONFIRMED"}
    BY <1>7 DEF Limits!MovesOn
  <2>2. /\ r(state) \in Row /\ r(state).state = state /\ r(state).age = stored[t].age
        /\ r(state).amount = stored[t].amount /\ r(state).e2e = stored[t].e2e
    BY <1>0 DEF Row, Limits!Row, Limits!TxStates
  <2> HIDE DEF r
  <2> QED BY <1>7, <2>1, <2>2, RowAgesInv DEF Limits!MovesOn
<1>8. ASSUME NEW t \in Things, Limits!AgePasses(t) PROVE LimitsInv'
  <2> DEFINE older == Limits!Older(stored[t].age)
             r == [stored[t] EXCEPT !.age = older]
  <2>1. stored[t] \in Row /\ stored[t].age \in {"day", "week", "month"}
    BY <1>0, <1>8, RowIs DEF Limits!AgePasses
  <2>2. /\ older \in {"week", "month", "old"}
        /\ older = "week" => stored[t].age = "day"
        /\ older = "month" => stored[t].age = "week"
    BY <2>1 DEF Limits!Older
  <2> HIDE DEF older
  <2>3. /\ r \in Row /\ r.age = older /\ r.state = stored[t].state
        /\ r.amount = stored[t].amount /\ r.e2e = stored[t].e2e
    BY <2>1, <2>2 DEF Row, Limits!Row, Limits!Ages
  <2>4. stored' = [stored EXCEPT ![t] = r]
    BY <1>8 DEF Limits!AgePasses, older
  <2> HIDE DEF r
  <2>5. \A s \in Callers : session[s].on # t
    BY <1>8, AwayIs, ChecksAssumption DEF Limits!AgePasses
  <2>6. stored[t].state # "NONE" /\ UNCHANGED <<status, session, missed>>
        /\ \A s \in Callers : session[s] = Limits!Away
    BY <1>8 DEF Limits!AgePasses
  <2>7. /\ r.age = "day" => stored[t].age = "day"
        /\ r.age \in {"day", "week"} => stored[t].age \in {"day", "week"}
        /\ r.age \in {"day", "week", "month"} => stored[t].age \in {"day", "week", "month"}
    BY <2>1, <2>2, <2>3
  <2> QED BY <2>3, <2>4, <2>5, <2>6, <2>7, RowAgesInv
<1>9. ASSUME NEW a \in Codes, NEW to \in Limits!Statuses, Limits!setStatus(a, to) PROVE LimitsInv'
  <2>1. status' \in [Codes -> Limits!Statuses]
    BY <1>0, <1>9 DEF Limits!setStatus, Limits!ATypeOK
  <2> QED BY <1>9, <2>1, StatusInv DEF Limits!setStatus
<1>10. ASSUME NEW t \in Things, NEW amount \in Amounts, Limits!initiateReversal(t, amount) PROVE LimitsInv'
  BY <1>10, ReversalInv
<1> QED BY <1>1, <1>2, <1>3, <1>4, <1>5, <1>6, <1>7, <1>8, <1>9, <1>10 DEF Limits!ANext

-----------------------------------------------------------------------------
(* Screening.                                                              *)

Related(k) == {e \in Entries : <<k, e>> \in Direct \cup Strong}

\* What is remembered is right for the entries that did not change in the
\* minute before it was forgotten, that is, since it was read.
Remembers(c, k) ==
  /\ c.until <= minute + CACHE_TTL
  /\ ~c.late => \A e \in Related(k) :
       entry[e].at + CACHE_TTL < c.until => (e \in c.matches <=> entry[e].state = "listed")

ScreenKnows(s) ==
  /\ s.step # "idle" => s.of \in Subjects
  /\ s.at <= minute
  /\ s.step = "names" /\ ~s.late => s.matches = Watch!Listed(s.of, Direct)
  /\ s.step = "found" /\ ~s.late => s.matches = Watch!Listed(s.of, Direct) \cup Watch!Listed(s.of, Strong)
  /\ s.step = "answered" /\ ~s.late => \A e \in Related(s.of) :
       entry[e].at + CACHE_TTL < s.at => (e \in s.matches <=> entry[e].state = "listed")

WatchInv ==
  /\ Watch!STypeOK
  /\ memory = [p \in Processes |-> memory[p]]
  /\ \A p \in Processes : memory[p] = [k \in DOMAIN memory[p] |-> memory[p][k]]
  /\ \A p \in Processes : \A k \in DOMAIN memory[p] : Remembers(memory[p][k], k)
  /\ \A t \in Codes, party \in Watch!Parties : ScreenKnows(screen[t][party])

LEMMA WatchTypes ==
  ASSUME Watch!STypeOK
  PROVE  /\ minute \in Nat /\ minute <= MaxTime
         /\ \A e \in Entries : entry[e].at \in Nat /\ entry[e].state \in {"absent", "listed", "removed"}
         /\ \A t \in Codes, party \in Watch!Parties :
              /\ screen[t][party] \in Watch!Screen
              /\ screen[t][party].at \in Nat /\ screen[t][party].late \in BOOLEAN
              /\ screen[t][party].matches \subseteq Entries
         /\ \A p \in Processes : \A k \in DOMAIN memory[p] :
              memory[p][k].until \in Nat /\ memory[p][k].matches \subseteq Entries
              /\ memory[p][k].late \in BOOLEAN /\ memory[p][k] \in Watch!Cached
<1>1. Watch!Times \subseteq Nat /\ 0 .. MaxTime + CACHE_TTL \subseteq Nat
  BY ScreeningAssumption DEF Watch!Times
<1>2. \A e \in Entries : entry[e] \in Watch!Entry
  BY DEF Watch!STypeOK
<1>3. \A t \in Codes, party \in Watch!Parties : screen[t][party] \in Watch!Screen
  BY DEF Watch!STypeOK
<1>4. \A p \in Processes : \A k \in DOMAIN memory[p] : memory[p][k] \in Watch!Cached
  BY DEF Watch!STypeOK, Watch!Remembered
<1>5. minute \in Nat /\ minute <= MaxTime
  BY ScreeningAssumption DEF Watch!STypeOK, Watch!Times
<1>6. \A e \in Entries : entry[e].at \in Nat /\ entry[e].state \in {"absent", "listed", "removed"}
  BY <1>1, <1>2 DEF Watch!Entry
<1>7. \A t \in Codes, party \in Watch!Parties :
              /\ screen[t][party].at \in Nat /\ screen[t][party].late \in BOOLEAN
              /\ screen[t][party].matches \subseteq Entries
  BY <1>1, <1>3 DEF Watch!Screen
<1>8. \A p \in Processes : \A k \in DOMAIN memory[p] :
              memory[p][k].until \in Nat /\ memory[p][k].matches \subseteq Entries
              /\ memory[p][k].late \in BOOLEAN
  BY <1>1, <1>4 DEF Watch!Cached
<1> QED BY <1>3, <1>4, <1>5, <1>6, <1>7, <1>8

LEMMA WatchInitInv == Watch!SInit => WatchInv
<1> SUFFICES ASSUME Watch!SInit PROVE WatchInv
  OBVIOUS
<1>1. /\ minute = 0 /\ entry = [e \in Entries |-> [state |-> "absent", at |-> 0]]
      /\ memory = [p \in Processes |-> << >>]
      /\ payment = [t \in Codes |-> [state |-> "new", by |-> None]]
      /\ screen = [t \in Codes |-> [party \in Watch!Parties |-> Watch!NoScreen]]
      /\ screening = {}
  BY DEF Watch!SInit
<1>2. 0 \in Watch!Times /\ Watch!NoScreen \in Watch!Screen
  BY ScreeningAssumption DEF Watch!Times, Watch!Screen, Watch!NoScreen
<1>3. \A p \in Processes : memory[p] = << >> /\ DOMAIN memory[p] = {}
  BY <1>1
<1>4. Watch!STypeOK
  BY <1>1, <1>2, <1>3 DEF Watch!STypeOK, Watch!Entry, Watch!Payment, Watch!Remembered
<1>5. \A t \in Codes, party \in Watch!Parties : ScreenKnows(screen[t][party])
  <2>1. \A t \in Codes, party \in Watch!Parties : screen[t][party] = Watch!NoScreen
    BY <1>1
  <2>2. ScreenKnows(Watch!NoScreen)
    BY <1>1 DEF ScreenKnows, Watch!NoScreen
  <2> QED BY <2>1, <2>2
<1>6. memory = [p \in Processes |-> memory[p]]
  BY <1>1
<1>7. \A p \in Processes : memory[p] = [k \in DOMAIN memory[p] |-> memory[p][k]]
  BY <1>3
<1> QED BY <1>3, <1>4, <1>5, <1>6, <1>7 DEF WatchInv

LEMMA WatchImplies == WatchInv => Watch!AnswersAreOfTheLastMinute
BY DEF WatchInv, Watch!AnswersAreOfTheLastMinute, ScreenKnows, Related

LEMMA ChangesInv ==
  ASSUME WatchInv, NEW e \in Entries, NEW to \in {"listed", "removed"}, Watch!Changes(e, to)
  PROVE  WatchInv'
<1> DEFINE touched(s) == s.step \in {"names", "found"}
<1>0. minute \in Watch!Times
  BY DEF WatchInv, Watch!STypeOK
<1>1. /\ entry' = [entry EXCEPT ![e] = [state |-> to, at |-> minute]]
      /\ minute' = minute /\ memory' = memory /\ payment' = payment /\ screening' = screening
  BY DEF Watch!Changes
<1>2. \A t \in Codes, party \in Watch!Parties :
        /\ screen'[t][party] \in Watch!Screen
        /\ touched(screen[t][party]) => screen'[t][party] = [screen[t][party] EXCEPT !.late = TRUE]
        /\ ~touched(screen[t][party]) => screen'[t][party] = screen[t][party]
  <2>1. \A t \in Codes, party \in Watch!Parties : screen[t][party] \in Watch!Screen
    BY WatchTypes DEF WatchInv
  <2>2. \A s \in Watch!Screen : [s EXCEPT !.late = TRUE] \in Watch!Screen
    BY DEF Watch!Screen
  <2> QED BY <2>1, <2>2 DEF Watch!Changes
<1>3. screen' \in [Codes -> [Watch!Parties -> Watch!Screen]]
  BY <1>2 DEF Watch!Changes
<1>4. entry' \in [Entries -> Watch!Entry]
  BY <1>0, <1>1 DEF WatchInv, Watch!STypeOK, Watch!Entry
<1>5. Watch!STypeOK'
  BY <1>1, <1>3, <1>4 DEF WatchInv, Watch!STypeOK, Watch!Remembered
<1>6. \A f \in Entries : entry'[f] = IF f = e THEN [state |-> to, at |-> minute] ELSE entry[f]
  BY <1>1 DEF WatchInv, Watch!STypeOK
<1>7. ASSUME NEW p \in Processes, NEW k \in DOMAIN memory[p]
      PROVE  Remembers(memory[p][k], k)'
  <2> DEFINE c == memory[p][k]
  <2>1. Remembers(c, k) /\ c.until \in Nat /\ minute \in Nat
    BY WatchTypes DEF WatchInv
  <2>2. ~(entry'[e].at + CACHE_TTL < c.until)
    BY <1>6, <2>1, ScreeningAssumption DEF Remembers
  <2>3. c' = c
    BY <1>1
  <2> HIDE DEF c
  <2>4. Remembers(c, k)'
    BY <1>1, <1>6, <2>1, <2>2, <2>3 DEF Remembers, Related
  <2> QED BY <2>4 DEF c
<1>8. ASSUME NEW t \in Codes, NEW party \in Watch!Parties
      PROVE  ScreenKnows(screen[t][party])'
  <2> DEFINE s == screen[t][party]
             z == screen'[t][party]
  <2>1. ScreenKnows(s) /\ s.at \in Nat /\ minute \in Nat /\ s \in Watch!Screen
    BY WatchTypes DEF WatchInv
  <2>2. ~(entry'[e].at + CACHE_TTL < s.at)
    BY <1>6, <2>1, ScreeningAssumption DEF ScreenKnows
  <2>3. CASE touched(s)
    <3>0. z = [s EXCEPT !.late = TRUE]
      BY <1>2, <2>3
    <3>1. z.step = s.step /\ z.of = s.of /\ z.at = s.at /\ z.late = TRUE
      <4> HIDE DEF s, z
      <4> QED BY <2>1, <3>0 DEF Watch!Screen
    <3>2. s.step \in {"names", "found"}
      BY <2>3
    <3> HIDE DEF s
    <3>3. screen[t][party]' = z
      BY DEF z
    <3> HIDE DEF z
    <3> QED BY <1>1, <2>1, <3>1, <3>2, <3>3 DEF ScreenKnows
  <2>4. CASE ~touched(s)
    <3>1. z = s /\ s.step \notin {"names", "found"}
      BY <1>2, <2>4
    <3>2. screen[t][party]' = z
      BY DEF z
    <3> HIDE DEF s, z
    <3> QED BY <1>1, <1>6, <2>1, <2>2, <3>1, <3>2 DEF ScreenKnows, Related
  <2> QED BY <2>3, <2>4
<1> QED BY <1>1, <1>5, <1>7, <1>8 DEF WatchInv

\* A step of one payment's screenings, or of none.
LEMMA ScreensChange ==
  ASSUME WatchInv, UNCHANGED <<minute, entry, memory>>, payment' \in [Codes -> Watch!Payment],
         screening' \subseteq Codes \X Watch!Parties,
         NEW t \in Codes, NEW z \in [Watch!Parties -> Watch!Screen],
         screen' = [screen EXCEPT ![t] = z],
         \A party \in Watch!Parties : ScreenKnows(z[party])
  PROVE  WatchInv'
<1>1. Watch!STypeOK'
  BY DEF WatchInv, Watch!STypeOK, Watch!Remembered
<1>2. \A u \in Codes : screen'[u] = IF u = t THEN z ELSE screen[u]
  BY DEF WatchInv, Watch!STypeOK
<1>3. ASSUME NEW p \in Processes, NEW k \in DOMAIN memory[p]
      PROVE  Remembers(memory[p][k], k)'
  BY DEF WatchInv, Remembers, Related
<1>4. ASSUME NEW u \in Codes, NEW party \in Watch!Parties
      PROVE  ScreenKnows(screen[u][party])'
  <2>1. ScreenKnows(screen'[u][party])
    BY <1>2 DEF WatchInv
  <2> QED BY <2>1 DEF ScreenKnows, Related, Watch!Listed
<1> QED BY <1>1, <1>3, <1>4 DEF WatchInv

LEMMA NoScreenKnows ==
  ASSUME WatchInv
  PROVE  Watch!NoScreen \in Watch!Screen /\ ScreenKnows(Watch!NoScreen)
<1>1. 0 \in Watch!Times /\ minute \in Nat
  BY WatchTypes, ScreeningAssumption DEF Watch!Times, WatchInv
<1>2. Watch!NoScreen \in Watch!Screen
  BY <1>1 DEF Watch!Screen, Watch!NoScreen
<1> QED BY <1>1, <1>2 DEF ScreenKnows, Watch!NoScreen

LEMMA AsksKnows ==
  ASSUME WatchInv, NEW p \in Processes, NEW k \in Subjects
  PROVE  Watch!Asks(p, k) \in Watch!Screen /\ ScreenKnows(Watch!Asks(p, k))
<1> DEFINE c == memory[p][k]
<1>0. Watch!NoScreen \in Watch!Screen /\ minute \in Watch!Times /\ minute \in Nat
  BY NoScreenKnows, WatchTypes DEF WatchInv, Watch!STypeOK
<1>1. CASE k \in DOMAIN memory[p] /\ minute <= c.until
  <2> DEFINE z == [Watch!NoScreen EXCEPT !.step = "answered", !.of = k, !.at = minute,
                          !.matches = c.matches, !.late = c.late]
  <2>1. Watch!Asks(p, k) = z
    BY <1>1 DEF Watch!Asks, Watch!Remembered, Watch!IsFresh
  <2>2. c \in Watch!Cached /\ c.until \in Nat /\ Remembers(c, k) /\ c.matches \subseteq Entries
        /\ c.late \in BOOLEAN
    BY <1>1, WatchTypes DEF WatchInv
  <2>3. z \in Watch!Screen /\ z.step = "answered" /\ z.of = k /\ z.at = minute /\ z.matches = c.matches
        /\ z.late = c.late
    <3> HIDE DEF c
    <3> QED BY <1>0, <2>2 DEF Watch!Screen, Watch!NoScreen
  <2>4. \A e \in Entries : entry[e].at \in Nat
    BY WatchTypes DEF WatchInv
  <2>5. \A e \in Related(k) : entry[e].at + CACHE_TTL < minute => entry[e].at + CACHE_TTL < c.until
    BY <1>0, <1>1, <2>2, <2>4, ScreeningAssumption DEF Related
  <2>6. minute <= minute
    BY <1>0
  <2> HIDE DEF z, c
  <2>7. ScreenKnows(z)
    BY <2>2, <2>3, <2>5, <2>6 DEF ScreenKnows, Remembers
  <2> QED BY <2>1, <2>3, <2>7
<1>2. CASE ~(k \in DOMAIN memory[p] /\ minute <= c.until)
  <2> DEFINE z == [Watch!NoScreen EXCEPT !.step = "keys", !.of = k]
  <2>1. Watch!Asks(p, k) = z
    BY <1>2 DEF Watch!Asks, Watch!Remembered, Watch!IsFresh
  <2>2. z \in Watch!Screen /\ z.step = "keys" /\ z.of = k /\ z.at = 0
    BY <1>0 DEF Watch!Screen, Watch!NoScreen
  <2> HIDE DEF z
  <2>3. ScreenKnows(z)
    BY <1>0, <2>2 DEF ScreenKnows
  <2> QED BY <2>1, <2>2, <2>3
<1> QED BY <1>1, <1>2

LEMMA AsksInv ==
  ASSUME WatchInv, NEW t \in Codes, NEW p \in Processes, NEW k \in Subjects, NEW m \in Subjects,
         Watch!sanctions(t, p, k, m)
  PROVE  WatchInv'
<1> DEFINE z == [party \in Watch!Parties |-> Watch!Asks(p, IF party = "ORIGINATOR" THEN k ELSE m)]
<1>1. \A party \in Watch!Parties : z[party] = Watch!Asks(p, IF party = "ORIGINATOR" THEN k ELSE m)
  OBVIOUS
<1>2. \A party \in Watch!Parties : z[party] \in Watch!Screen /\ ScreenKnows(z[party])
  BY <1>1, AsksKnows
<1>3. z \in [Watch!Parties -> Watch!Screen]
  BY <1>2
<1>4. screen' = [screen EXCEPT ![t] = z] /\ UNCHANGED <<minute, entry, memory, screening>>
  BY DEF Watch!sanctions
<1>5. payment' \in [Codes -> Watch!Payment]
  <2>1. [state |-> "checking", by |-> p] \in Watch!Payment
    BY DEF Watch!Payment
  <2>2. payment' = [payment EXCEPT ![t] = [state |-> "checking", by |-> p]]
    BY DEF Watch!sanctions
  <2> QED BY <2>1, <2>2 DEF WatchInv, Watch!STypeOK
<1>6. screening' \subseteq Codes \X Watch!Parties
  BY <1>4 DEF WatchInv, Watch!STypeOK
<1> HIDE DEF z
<1> QED BY <1>2, <1>3, <1>4, <1>5, <1>6, ScreensChange

LEMMA ReadsInv ==
  ASSUME WatchInv, NEW t \in Codes, NEW party \in Watch!Parties, Watch!Reads(t, party)
  PROVE  WatchInv'
<1> DEFINE s == screen[t][party]
           x == IF s.step = "keys"
                THEN [s EXCEPT !.step = "names", !.matches = Watch!Listed(s.of, Direct)]
                ELSE [s EXCEPT !.step = "found", !.matches = s.matches \cup Watch!Listed(s.of, Strong)]
           z == [screen[t] EXCEPT ![party] = x]
<1>1. s \in Watch!Screen /\ ScreenKnows(s) /\ s.step \in {"keys", "names"} /\ s.matches \subseteq Entries
      /\ screen[t] \in [Watch!Parties -> Watch!Screen] /\ screen \in [Codes -> [Watch!Parties -> Watch!Screen]]
  BY WatchTypes DEF WatchInv, Watch!Reads, Watch!STypeOK
<1>2. Watch!Listed(s.of, Direct) \subseteq Entries /\ Watch!Listed(s.of, Strong) \subseteq Entries
  BY DEF Watch!Listed
<1>3. /\ x \in Watch!Screen /\ x.of = s.of /\ x.at = s.at /\ x.late = s.late
      /\ s.step = "keys" => x.step = "names" /\ x.matches = Watch!Listed(s.of, Direct)
      /\ s.step # "keys" => x.step = "found" /\ x.matches = s.matches \cup Watch!Listed(s.of, Strong)
  <2> HIDE DEF s
  <2> QED BY <1>1, <1>2 DEF Watch!Screen
<1>4. ScreenKnows(x)
  <2> HIDE DEF s, x
  <2> QED BY <1>1, <1>3 DEF ScreenKnows
<1>5. screen' = [screen EXCEPT ![t] = z] /\ UNCHANGED <<minute, entry, memory, payment, screening>>
  BY <1>1 DEF Watch!Reads
<1> HIDE DEF x, s
<1>6. z \in [Watch!Parties -> Watch!Screen] /\ \A other \in Watch!Parties : ScreenKnows(z[other])
  <2>1. \A other \in Watch!Parties : z[other] = IF other = party THEN x ELSE screen[t][other]
    BY <1>1
  <2> QED BY <2>1, <1>1, <1>3, <1>4 DEF WatchInv
<1>7. payment' \in [Codes -> Watch!Payment] /\ screening' \subseteq Codes \X Watch!Parties
  BY <1>5 DEF WatchInv, Watch!STypeOK
<1> HIDE DEF z
<1> QED BY <1>5, <1>6, <1>7, ScreensChange

LEMMA ScreenEndsInv ==
  ASSUME WatchInv, NEW t \in Codes, payment' \in [Codes -> Watch!Payment],
         screening' \subseteq screening, UNCHANGED <<minute, entry, memory>>,
         screen' = [screen EXCEPT ![t] = [party \in Watch!Parties |-> Watch!NoScreen]]
  PROVE  WatchInv'
<1> DEFINE z == [party \in Watch!Parties |-> Watch!NoScreen]
<1>1. z \in [Watch!Parties -> Watch!Screen] /\ \A party \in Watch!Parties : ScreenKnows(z[party])
  BY NoScreenKnows
<1>2. screening' \subseteq Codes \X Watch!Parties
  BY DEF WatchInv, Watch!STypeOK
<1> QED BY <1>1, <1>2, ScreensChange

LEMMA RemembersInv ==
  ASSUME WatchInv, NEW t \in Codes, NEW party \in Watch!Parties, Watch!Remembers(t, party)
  PROVE  WatchInv'
<1> DEFINE s == screen[t][party]
           p == payment[t].by
           d == DOMAIN memory[p] \cup {s.of}
           y == [matches |-> s.matches, until |-> minute + CACHE_TTL, late |-> s.late]
           kept == [k \in d |-> IF k = s.of THEN y ELSE memory[p][k]]
           x == [s EXCEPT !.step = "answered", !.at = minute]
<1>1. s \in Watch!Screen /\ ScreenKnows(s) /\ s.step = "found" /\ s.matches \subseteq Entries /\ s.late \in BOOLEAN
      /\ screen[t] \in [Watch!Parties -> Watch!Screen] /\ screen \in [Codes -> [Watch!Parties -> Watch!Screen]]
      /\ minute \in Nat /\ minute <= MaxTime /\ minute \in Watch!Times /\ s.of \in Subjects
  BY WatchTypes DEF WatchInv, Watch!Remembers, Watch!STypeOK, ScreenKnows
<1>2. /\ memory' = [memory EXCEPT ![p] = kept]
      /\ screening' = screening \cup {<<t, party>>}
      /\ screen' = [screen EXCEPT ![t] = [screen[t] EXCEPT ![party] = x]]
      /\ UNCHANGED <<minute, entry, payment>>
  BY <1>1 DEF Watch!Remembers, Watch!Remembered
<1>3. x \in Watch!Screen /\ x.step = "answered" /\ x.of = s.of /\ x.at = minute /\ x.matches = s.matches
      /\ x.late = s.late
  <2> HIDE DEF s
  <2> QED BY <1>1 DEF Watch!Screen
<1>4. y \in Watch!Cached
  <2>1. minute + CACHE_TTL \in 0 .. MaxTime + CACHE_TTL
    BY <1>1, ScreeningAssumption
  <2> QED BY <1>1, <2>1 DEF Watch!Cached
<1>5. y.matches = s.matches /\ y.until = minute + CACHE_TTL /\ y.late = s.late
  OBVIOUS
<1> HIDE DEF x, y, s
<1>6. ~s.late => \A e \in Related(s.of) : e \in s.matches <=> entry[e].state = "listed"
  BY <1>1 DEF ScreenKnows, Related, Watch!Listed
<1>7. Remembers(y, s.of)
  BY <1>1, <1>5, <1>6, ScreeningAssumption DEF Remembers
<1>8. ScreenKnows(x)
  BY <1>1, <1>3, <1>6 DEF ScreenKnows
<1>9. \A q \in Processes : memory'[q] = IF q = p THEN kept ELSE memory[q]
  BY <1>2 DEF WatchInv
<1>10. /\ DOMAIN kept = d
       /\ \A k \in d : kept[k] = IF k = s.of THEN y ELSE memory[p][k]
  OBVIOUS
<1>11. memory' = [q \in Processes |-> memory'[q]]
  <2>1. memory = [q \in Processes |-> memory[q]]
    BY DEF WatchInv
  <2> HIDE DEF kept
  <2> QED BY <1>2, <2>1
<1>12. \A q \in Processes : memory'[q] = [k \in DOMAIN memory'[q] |-> memory'[q][k]]
  BY <1>9, <1>10 DEF WatchInv
<1>13. ASSUME NEW q \in Processes, NEW k \in DOMAIN memory'[q]
       PROVE  k \in Subjects /\ memory'[q][k] \in Watch!Cached /\ Remembers(memory'[q][k], k)
  <2>1. CASE q = p /\ k = s.of
    BY <1>1, <1>4, <1>7, <1>9, <1>10, <2>1
  <2>2. CASE ~(q = p /\ k = s.of)
    <3>1. k \in DOMAIN memory[q] /\ memory'[q][k] = memory[q][k]
      BY <1>9, <1>10, <1>13, <2>2
    <3> QED BY <3>1 DEF WatchInv, Watch!STypeOK, Watch!Remembered
  <2> QED BY <2>1, <2>2
<1>14. ASSUME NEW q \in Processes, NEW k \in DOMAIN memory'[q] PROVE Remembers(memory[q][k], k)'
  BY <1>2, <1>13 DEF Remembers, Related
<1>15. \A u \in Codes, other \in Watch!Parties :
         screen'[u][other] = IF u = t /\ other = party THEN x ELSE screen[u][other]
  BY <1>1, <1>2
<1>16. screen' \in [Codes -> [Watch!Parties -> Watch!Screen]]
  BY <1>1, <1>2, <1>3
<1>17. Watch!STypeOK'
  <2>1. screening' \subseteq Codes \X Watch!Parties
    BY <1>2 DEF WatchInv, Watch!STypeOK
  <2> QED BY <2>1, <1>2, <1>13, <1>16 DEF WatchInv, Watch!STypeOK, Watch!Remembered
<1>18. ASSUME NEW u \in Codes, NEW other \in Watch!Parties PROVE ScreenKnows(screen[u][other])'
  <2>1. ScreenKnows(screen'[u][other])
    BY <1>8, <1>15 DEF WatchInv
  <2> QED BY <1>2, <2>1 DEF ScreenKnows, Related, Watch!Listed
<1> QED BY <1>11, <1>12, <1>14, <1>17, <1>18 DEF WatchInv

LEMMA RestartsInv ==
  ASSUME WatchInv, NEW p \in Processes, Watch!Restarts(p)
  PROVE  WatchInv'
<1>1. /\ memory' = [memory EXCEPT ![p] = << >>] /\ UNCHANGED <<minute, entry, payment, screen, screening>>
      /\ memory = [q \in Processes |-> memory[q]]
  BY DEF Watch!Restarts, WatchInv
<1>2. \A q \in Processes : memory'[q] = IF q = p THEN << >> ELSE memory[q]
  BY <1>1
<1>3. memory' = [q \in Processes |-> memory'[q]]
  BY <1>1
<1>4. \A q \in Processes : memory'[q] = [k \in DOMAIN memory'[q] |-> memory'[q][k]]
  BY <1>2 DEF WatchInv
<1>5. \A q \in Processes : \A k \in DOMAIN memory'[q] : k \in DOMAIN memory[q] /\ memory'[q][k] = memory[q][k]
  BY <1>2
<1>6. Watch!STypeOK'
  BY <1>1, <1>5 DEF WatchInv, Watch!STypeOK, Watch!Remembered
<1>7. ASSUME NEW q \in Processes, NEW k \in DOMAIN memory'[q] PROVE Remembers(memory[q][k], k)'
  <2>1. Remembers(memory'[q][k], k)
    BY <1>5 DEF WatchInv
  <2> QED BY <1>1, <2>1 DEF Remembers, Related
<1>8. ASSUME NEW u \in Codes, NEW other \in Watch!Parties PROVE ScreenKnows(screen[u][other])'
  BY <1>1 DEF WatchInv, ScreenKnows, Related, Watch!Listed
<1> QED BY <1>3, <1>4, <1>6, <1>7, <1>8 DEF WatchInv

LEMMA TickInv ==
  ASSUME WatchInv, Watch!Tick
  PROVE  WatchInv'
<1> DEFINE touched(s) == s.step \in {"names", "found"}
<1>1. minute \in Nat /\ minute' = minute + 1 /\ minute' \in Watch!Times
      /\ UNCHANGED <<entry, memory, payment, screening>>
  BY WatchTypes, ScreeningAssumption DEF Watch!Tick, WatchInv, Watch!Times
<1>2. \A t \in Codes, party \in Watch!Parties :
        /\ screen'[t][party] \in Watch!Screen
        /\ touched(screen[t][party]) => screen'[t][party] = [screen[t][party] EXCEPT !.late = TRUE]
        /\ ~touched(screen[t][party]) => screen'[t][party] = screen[t][party]
  <2>1. \A t \in Codes, party \in Watch!Parties : screen[t][party] \in Watch!Screen
    BY WatchTypes DEF WatchInv
  <2>2. \A s \in Watch!Screen : [s EXCEPT !.late = TRUE] \in Watch!Screen
    BY DEF Watch!Screen
  <2> QED BY <2>1, <2>2 DEF Watch!Tick
<1>3. screen' \in [Codes -> [Watch!Parties -> Watch!Screen]]
  BY <1>2 DEF Watch!Tick
<1>4. Watch!STypeOK'
  BY <1>1, <1>3 DEF WatchInv, Watch!STypeOK, Watch!Remembered
<1>5. ASSUME NEW p \in Processes, NEW k \in DOMAIN memory[p]
      PROVE  Remembers(memory[p][k], k)'
  <2>1. Remembers(memory[p][k], k) /\ memory[p][k].until \in Nat
    BY WatchTypes DEF WatchInv
  <2>2. memory[p][k].until <= minute' + CACHE_TTL
    BY <1>1, <2>1, ScreeningAssumption DEF Remembers
  <2> QED BY <1>1, <2>1, <2>2 DEF Remembers, Related
<1>6. ASSUME NEW t \in Codes, NEW party \in Watch!Parties
      PROVE  ScreenKnows(screen[t][party])'
  <2> DEFINE s == screen[t][party]
             z == screen'[t][party]
  <2>1. ScreenKnows(s) /\ s.at \in Nat /\ s \in Watch!Screen
    BY WatchTypes DEF WatchInv
  <2>2. s.at <= minute'
    BY <1>1, <2>1 DEF ScreenKnows
  <2>3. CASE touched(s)
    <3>0. z = [s EXCEPT !.late = TRUE]
      BY <1>2, <2>3
    <3>1. z.step = s.step /\ z.of = s.of /\ z.at = s.at /\ z.late = TRUE
      <4> HIDE DEF s, z
      <4> QED BY <2>1, <3>0 DEF Watch!Screen
    <3>2. s.step \in {"names", "found"}
      BY <2>3
    <3> HIDE DEF s
    <3>3. screen[t][party]' = z
      BY DEF z
    <3> HIDE DEF z
    <3> QED BY <1>1, <2>1, <2>2, <3>1, <3>2, <3>3 DEF ScreenKnows
  <2>4. CASE ~touched(s)
    <3>1. z = s /\ s.step \notin {"names", "found"}
      BY <1>2, <2>4
    <3>2. screen[t][party]' = z
      BY DEF z
    <3> HIDE DEF s, z
    <3> QED BY <1>1, <2>1, <2>2, <3>1, <3>2 DEF ScreenKnows, Related
  <2> QED BY <2>3, <2>4
<1> QED BY <1>1, <1>4, <1>5, <1>6 DEF WatchInv

LEMMA WatchStepInv == WatchInv /\ Watch!SNext => WatchInv'
<1> SUFFICES ASSUME WatchInv, Watch!SNext PROVE WatchInv'
  OBVIOUS
<1>0. payment \in [Codes -> Watch!Payment]
  BY DEF WatchInv, Watch!STypeOK
<1>1. ASSUME NEW e \in Entries, Watch!upsertEntry(e) \/ Watch!removeEntry(e) PROVE WatchInv'
  BY <1>1, ChangesInv DEF Watch!upsertEntry, Watch!removeEntry
<1>2. ASSUME NEW t \in Codes, NEW p \in Processes, NEW k \in Subjects, NEW m \in Subjects,
             Watch!sanctions(t, p, k, m)
      PROVE  WatchInv'
  BY <1>2, AsksInv
<1>3. ASSUME NEW t \in Codes, NEW party \in Watch!Parties, Watch!Reads(t, party) \/ Watch!Remembers(t, party)
      PROVE  WatchInv'
  BY <1>3, ReadsInv, RemembersInv
<1>4. ASSUME NEW t \in Codes, Watch!Concludes(t) PROVE WatchInv'
  <2>1. PICK to \in {"refused", "passed"} : payment' = [payment EXCEPT ![t].state = to]
    BY <1>4 DEF Watch!Concludes
  <2>2. payment' \in [Codes -> Watch!Payment]
    BY <1>0, <2>1 DEF Watch!Payment
  <2> QED BY <1>4, <2>2, ScreenEndsInv DEF Watch!Concludes
<1>5. ASSUME NEW t \in Codes, Watch!RollsBack(t) PROVE WatchInv'
  <2>1. payment' = [payment EXCEPT ![t] = [state |-> "new", by |-> None]]
    BY <1>5 DEF Watch!RollsBack
  <2>2. payment' \in [Codes -> Watch!Payment]
    BY <1>0, <2>1 DEF Watch!Payment
  <2>3. screening' \subseteq screening
    BY <1>5 DEF Watch!RollsBack
  <2> QED BY <1>5, <2>2, <2>3, ScreenEndsInv DEF Watch!RollsBack
<1>6. ASSUME NEW p \in Processes, Watch!Restarts(p) PROVE WatchInv'
  BY <1>6, RestartsInv
<1> QED BY <1>1, <1>2, <1>3, <1>4, <1>5, <1>6, TickInv DEF Watch!SNext

-----------------------------------------------------------------------------
(* The portal for disputes.                                                *)

Served == {h \in recent : request[h] \in {"served", "notFound"}}

PortalInv ==
  /\ Portal!TypeOK
  /\ Cardinality(Served) <= Cap
  /\ Portal!CommentsAreServed

LEMMA PortalCard ==
  ASSUME NEW S, S \subseteq Hits
  PROVE  /\ Portal!Cardinality(S) = Cardinality(S) /\ IsFiniteSet(S) /\ Cardinality(S) \in Nat
         /\ \A R : R \subseteq S => IsFiniteSet(R) /\ Cardinality(R) <= Cardinality(S) /\ Cardinality(R) \in Nat
<1>1. IsFiniteSet(S)
  BY PortalAssumption, FS_Subset
<1> QED BY <1>1, FS_Subset, FS_CardinalityType DEF Portal!Cardinality, Cardinality

LEMMA PortalInitInv == Portal!Init => PortalInv
<1> SUFFICES ASSUME Portal!Init PROVE PortalInv
  OBVIOUS
<1>1. Portal!TypeOK /\ comments = {} /\ recent = {}
  BY DEF Portal!Init, Portal!TypeOK, Portal!Stages
<1>2. Cardinality(Served) = 0
  BY <1>1, FS_EmptySet DEF Served
<1> QED BY <1>1, <1>2, PortalAssumption DEF PortalInv, Portal!CommentsAreServed

LEMMA PortalImplies == PortalInv => Portal!TypeOK /\ Portal!ServedWithinCap /\ Portal!CommentsAreServed
<1> SUFFICES ASSUME PortalInv PROVE Portal!TypeOK /\ Portal!ServedWithinCap /\ Portal!CommentsAreServed
  OBVIOUS
<1>1. Served \subseteq Hits
  BY DEF PortalInv, Portal!TypeOK, Served
<1>2. Portal!Cardinality(Served) = Cardinality(Served)
  BY <1>1, PortalCard
<1> QED BY <1>2 DEF PortalInv, Portal!ServedWithinCap, Served

LEMMA PortalStepInv == PortalInv /\ Portal!Next => PortalInv'
<1> SUFFICES ASSUME PortalInv, Portal!Next PROVE PortalInv'
  OBVIOUS
<1>0. Portal!TypeOK /\ Served \subseteq recent /\ recent \subseteq Hits /\ Served \subseteq Hits /\ Served' \subseteq recent'
  BY DEF PortalInv, Portal!TypeOK, Served
<1>1. Portal!TypeOK'
  BY <1>0 DEF Portal!TypeOK, Portal!Next, Portal!recordHit, Portal!enforceRateLimit, Portal!lookup,
     Portal!comment, Portal!Ages, Portal!pruneOldHits, Portal!Stages
<1>2. Portal!CommentsAreServed'
  BY <1>0 DEF PortalInv, Portal!CommentsAreServed, Portal!TypeOK, Portal!Next, Portal!recordHit,
     Portal!enforceRateLimit, Portal!lookup, Portal!comment, Portal!Ages, Portal!pruneOldHits
<1>3. \/ Served' \subseteq Served
      \/ Served' \subseteq recent /\ Portal!WithinCap
  BY <1>0 DEF Served, Portal!TypeOK, Portal!Next, Portal!recordHit,
     Portal!enforceRateLimit, Portal!lookup, Portal!comment, Portal!Ages, Portal!pruneOldHits
<1>4. Cardinality(Served') <= Cap
  <2>1. Portal!WithinCap => Cardinality(recent) <= Cap
    BY <1>0, PortalCard DEF Portal!WithinCap
  <2>2. CASE Served' \subseteq Served
    <3>1. Cardinality(Served') <= Cardinality(Served) /\ Cardinality(Served') \in Nat /\ Cardinality(Served) \in Nat
      BY <1>0, <2>2, PortalCard
    <3> QED BY <3>1, PortalAssumption DEF PortalInv
  <2>3. CASE Served' \subseteq recent /\ Cardinality(recent) <= Cap
    <3>1. Cardinality(Served') <= Cardinality(recent) /\ Cardinality(Served') \in Nat /\ Cardinality(recent) \in Nat
      BY <1>0, <2>3, PortalCard
    <3> QED BY <3>1, <2>3, PortalAssumption
  <2> QED BY <1>3, <2>1, <2>2, <2>3
<1> QED BY <1>1, <1>2, <1>4 DEF PortalInv

-----------------------------------------------------------------------------
(* Changing a fraud rule.                                                  *)

\* An approval tested the proposal of another user.
TestedAnothers(h) ==
  h.step # "idle" => /\ h.tested # None /\ h.checker \in Things
                     /\ h.tested \in Fraud!Proposal /\ h.tested.by # h.checker

FraudInv ==
  /\ Fraud!RTypeOK
  /\ \A c \in Callers : TestedAnothers(approval[c])
  /\ Fraud!CheckedByAnotherUnlessReplaced

LEMMA FraudInitInv ==
  ASSUME Fraud!RInit
  PROVE  FraudInv
<1>1. Fraud!RTypeOK
  BY DEF Fraud!RInit, Fraud!RTypeOK, Fraud!Rule, Fraud!Call, Fraud!Idle, Fraud!Nobody
<1>2. \A c \in Callers : TestedAnothers(approval[c])
  BY DEF Fraud!RInit, Fraud!Idle, TestedAnothers
<1>3. Fraud!CheckedByAnotherUnlessReplaced
  BY DEF Fraud!RInit, Fraud!CheckedByAnotherUnlessReplaced
<1> QED BY <1>1, <1>2, <1>3 DEF FraudInv

\* One approval goes on to h, and what is in force stays or is what it read.
LEMMA ApprovalMoves ==
  ASSUME FraudInv, NEW c \in Callers, NEW h \in Fraud!Call, TestedAnothers(h),
         approval' = [approval EXCEPT ![c] = h], rule' \in Fraud!Rule,
         Fraud!RTypeOK => inForce' \in [maker : Things \cup {None}, checker : Things \cup {None}, asTested : BOOLEAN],
         Fraud!CheckedByAnotherUnlessReplaced'
  PROVE  FraudInv'
<1>1. Fraud!RTypeOK' /\ \A d \in Callers : approval'[d] = IF d = c THEN h ELSE approval[d]
  BY DEF FraudInv, Fraud!RTypeOK
<1> QED BY <1>1 DEF FraudInv

LEMMA FraudStepInv ==
  ASSUME FraudInv, Fraud!RNext
  PROVE  FraudInv'
<1>0. /\ rule \in Fraud!Rule /\ approval \in [Callers -> Fraud!Call]
      /\ inForce \in [maker : Things \cup {None}, checker : Things \cup {None}, asTested : BOOLEAN]
  BY DEF FraudInv, Fraud!RTypeOK
<1>1. ASSUME NEW user \in Things, NEW weight \in Weights, Fraud!proposeChange(user, weight)
      PROVE  FraudInv'
  <2>1. rule' \in Fraud!Rule /\ approval' = approval /\ inForce' = inForce
    BY <1>0, <1>1 DEF Fraud!proposeChange, Fraud!Rule, Fraud!Proposal
  <2> QED BY <2>1 DEF FraudInv, Fraud!RTypeOK, Fraud!CheckedByAnotherUnlessReplaced
<1>2. ASSUME UNCHANGED inForce
      PROVE  Fraud!CheckedByAnotherUnlessReplaced'
  BY <1>2 DEF FraudInv, Fraud!CheckedByAnotherUnlessReplaced
<1>3. ASSUME NEW c \in Callers, NEW user \in Things, Fraud!approveChange(c, user)
      PROVE  FraudInv'
  <2>1. PICK h : h = [Fraud!Idle EXCEPT !.step = "tested", !.checker = user, !.tested = rule.pending]
    OBVIOUS
  <2>2. approval' = [approval EXCEPT ![c] = h] /\ UNCHANGED <<rule, inForce>>
        /\ rule.pending # None /\ rule.pending.by # user
    BY <1>3, <2>1 DEF Fraud!approveChange, Fraud!MayApprove
  <2>3. rule.pending \in Fraud!Proposal
    BY <1>0, <2>2 DEF Fraud!Rule
  <2>4. h.step = "tested" /\ h.checker = user /\ h.tested = rule.pending /\ h \in Fraud!Call
    BY <2>1, <2>3 DEF Fraud!Idle, Fraud!Call
  <2>5. TestedAnothers(h)
    BY <2>2, <2>3, <2>4 DEF TestedAnothers
  <2> QED BY <1>0, <1>2, <2>2, <2>4, <2>5, ApprovalMoves
<1>4. ASSUME NEW c \in Callers, Fraud!ReadsPending(c)
      PROVE  FraudInv'
  <2>1. PICK h : h = [approval[c] EXCEPT !.step = "read", !.read = rule.pending]
    OBVIOUS
  <2>2. approval' = [approval EXCEPT ![c] = h] /\ UNCHANGED <<rule, inForce>> /\ approval[c].step = "tested"
    BY <1>4, <2>1 DEF Fraud!ReadsPending
  <2>3. rule.pending \in Fraud!Proposal \cup {None} /\ approval[c] \in Fraud!Call /\ TestedAnothers(approval[c])
    BY <1>0 DEF Fraud!Rule, FraudInv
  <2>4. h \in Fraud!Call /\ h.checker = approval[c].checker /\ h.tested = approval[c].tested
    BY <2>1, <2>3 DEF Fraud!Call
  <2>5. TestedAnothers(h)
    BY <2>2, <2>3, <2>4 DEF TestedAnothers
  <2> QED BY <1>0, <1>2, <2>2, <2>4, <2>5, ApprovalMoves
<1>5. Fraud!Idle \in Fraud!Call /\ TestedAnothers(Fraud!Idle)
  BY DEF Fraud!Idle, Fraud!Call, TestedAnothers
<1>6. ASSUME NEW c \in Callers, Fraud!Fails(c)
      PROVE  FraudInv'
  BY <1>0, <1>2, <1>5, <1>6, ApprovalMoves DEF Fraud!Fails
<1>7. ASSUME NEW c \in Callers, Fraud!approveRuleChange(c)
      PROVE  FraudInv'
  <2>1. PICK read : read = approval[c].read
    OBVIOUS
  <2>2. /\ approval[c].step = "read"
        /\ rule' = [weight |-> IF read = None THEN rule.weight ELSE read.weight, pending |-> None]
        /\ inForce' = IF read = None THEN inForce
                      ELSE [maker |-> read.by, checker |-> approval[c].checker,
                            asTested |-> read = approval[c].tested]
        /\ approval' = [approval EXCEPT ![c] = Fraud!Idle]
    BY <1>7, <2>1 DEF Fraud!approveRuleChange
  <2>3. approval[c] \in Fraud!Call /\ TestedAnothers(approval[c])
    BY <1>0 DEF FraudInv
  <2>4. approval[c].checker \in Things /\ approval[c].tested.by # approval[c].checker
    BY <2>2, <2>3 DEF TestedAnothers
  <2>5. read \in Fraud!Proposal \cup {None}
    BY <2>1, <2>3 DEF Fraud!Call
  <2>6. CASE read = None
    <3>1. rule' \in Fraud!Rule /\ inForce' = inForce
      BY <1>0, <2>2, <2>6 DEF Fraud!Rule
    <3> QED BY <1>0, <1>2, <1>5, <2>2, <3>1, ApprovalMoves
  <2>7. CASE read # None
    <3>1. read.weight \in Weights /\ read.by \in Things
      BY <2>5, <2>7 DEF Fraud!Proposal
    <3>2. rule' \in Fraud!Rule
      BY <2>2, <2>7, <3>1 DEF Fraud!Rule
    <3>3. inForce' = [maker |-> read.by, checker |-> approval[c].checker, asTested |-> read = approval[c].tested]
      BY <2>2, <2>7
    <3>4. inForce' \in [maker : Things \cup {None}, checker : Things \cup {None}, asTested : BOOLEAN]
      BY <2>4, <3>1, <3>3
    <3>5. inForce'.asTested => inForce'.maker # inForce'.checker
      BY <2>1, <2>4, <3>3
    <3>6. Fraud!CheckedByAnotherUnlessReplaced'
      BY <3>5 DEF Fraud!CheckedByAnotherUnlessReplaced
    <3> QED BY <1>5, <2>2, <3>2, <3>4, <3>6, ApprovalMoves
  <2> QED BY <2>6, <2>7
<1> QED BY <1>1, <1>3, <1>4, <1>6, <1>7 DEF Fraud!RNext

-----------------------------------------------------------------------------
(* Verdicts.                                                               *)

Context(c) ==
  /\ c.lastHour \in Nat /\ c.lastDay \in Nat /\ c.beneficiaries \in Nat /\ c.amount \in Nat /\ c.max \in Nat
  /\ c.age \in Nat /\ c.officeHours \in Nat /\ c.hour \in Nat /\ c.flag \in Nat
  /\ c.first \in BOOLEAN /\ c.young \in BOOLEAN /\ c.agent \in BOOLEAN /\ c.simSwapped \in BOOLEAN
  /\ c.sanctioned \in BOOLEAN /\ c.watched \in BOOLEAN /\ c.mule \in BOOLEAN

\* d speaks against a payment at least as much as c.
AtLeast(d, c) ==
  /\ d.lastHour >= c.lastHour /\ d.flag >= c.flag
  /\ d.beneficiaries >= 3 \/ d.beneficiaries = c.beneficiaries
  /\ d.lastDay >= 8 \/ d.lastDay = c.lastDay
  /\ (c.first => d.first) /\ (c.agent => d.agent) /\ (c.simSwapped => d.simSwapped)
  /\ (c.sanctioned => d.sanctioned) /\ (c.watched => d.watched) /\ (c.mule => d.mule)
  /\ d.amount = c.amount /\ d.max = c.max /\ d.age = c.age /\ d.officeHours = c.officeHours /\ d.hour = c.hour
  /\ d.young = c.young

LEMMA Codes15 ==
  Fraud!RULE_CODES = {"R001", "R002", "R003", "R004", "R005", "R006", "R007", "R008", "R009", "R010", "R011",
                      "R012", "R013", "R014", "R015"}
BY DEF Fraud!RULE_CODES, Fraud!DEFAULT_RULE_WEIGHTS

LEMMA WeightsAre ==
  /\ \A code \in Fraud!RULE_CODES : Fraud!DEFAULT_RULE_WEIGHTS[code] \in Nat
  /\ Fraud!DEFAULT_RULE_WEIGHTS["R011"] = 85 /\ Fraud!DEFAULT_RULE_WEIGHTS["R012"] = 100
  /\ Fraud!DEFAULT_RULE_WEIGHTS["R014"] = 90
BY Codes15 DEF Fraud!DEFAULT_RULE_WEIGHTS

LEMMA ScoresAre ==
  ASSUME NEW c, Context(c)
  PROVE  /\ \A code \in Fraud!RULE_CODES : Fraud!ScoreOf(code, c) \in Nat
         /\ Fraud!ScoreOf("R012", c) = 100 /\ Fraud!ScoreOf("R014", c) = 90
         /\ Fraud!ScoreOf("R011", c) = IF c.flag <= 100 THEN c.flag ELSE 100
BY Codes15 DEF Fraud!ScoreOf, Context, Fraud!Min

\* What speaks against a payment still does when more does.
LEMMA FiresAndScores ==
  ASSUME NEW c, Context(c), NEW d, Context(d), AtLeast(d, c), NEW code \in Fraud!RULE_CODES, Fraud!Fires(code, c)
  PROVE  Fraud!Fires(code, d) /\ Fraud!ScoreOf(code, c) <= Fraud!ScoreOf(code, d)
<1>1. Fraud!Fires(code, d)
  <2>0. c.lastHour \in Nat /\ d.lastHour \in Nat /\ c.flag \in Nat /\ d.flag \in Nat
        /\ c.lastHour <= d.lastHour /\ c.flag <= d.flag
    BY DEF Context, AtLeast
  <2>1. CASE code = "R001"
    BY <2>0, <2>1 DEF Fraud!Fires, AtLeast
  <2>2. CASE code = "R002"
    BY <2>0, <2>2 DEF Fraud!Fires, AtLeast
  <2>3. CASE code = "R003"
    BY <2>0, <2>3 DEF Fraud!Fires, AtLeast
  <2>4. CASE code = "R004"
    BY <2>0, <2>4 DEF Fraud!Fires, AtLeast
  <2>5. CASE code = "R005"
    BY <2>0, <2>5 DEF Fraud!Fires, AtLeast
  <2>6. CASE code = "R006"
    BY <2>0, <2>6 DEF Fraud!Fires, AtLeast
  <2>7. CASE code = "R007"
    BY <2>0, <2>7 DEF Fraud!Fires, AtLeast
  <2>8. CASE code = "R008"
    BY <2>8 DEF Fraud!Fires
  <2>9. CASE code = "R009"
    BY <2>0, <2>9 DEF Fraud!Fires, AtLeast
  <2>10. CASE code = "R010"
    BY <2>10 DEF Fraud!Fires
  <2>11. CASE code = "R011"
    BY <2>0, <2>11 DEF Fraud!Fires, AtLeast
  <2>12. CASE code = "R012"
    BY <2>0, <2>12 DEF Fraud!Fires, AtLeast
  <2>13. CASE code = "R013"
    BY <2>0, <2>13 DEF Fraud!Fires, AtLeast
  <2>14. CASE code = "R014"
    BY <2>0, <2>14 DEF Fraud!Fires, AtLeast
  <2>15. CASE code = "R015"
    BY <2>0, <2>15 DEF Fraud!Fires, AtLeast
  <2> QED BY <2>1, <2>2, <2>3, <2>4, <2>5, <2>6, <2>7, <2>8, <2>9, <2>10, <2>11, <2>12, <2>13, <2>14, <2>15, Codes15
<1>2. Fraud!ScoreOf(code, c) <= Fraud!ScoreOf(code, d)
  <2>1. CASE code = "R011"
    <3>1. c.flag \in Nat /\ d.flag \in Nat /\ c.flag <= d.flag
      BY DEF Context, AtLeast
    <3> QED BY <2>1, <3>1, ScoresAre
  <2>2. CASE code # "R011"
    <3>1. Fraud!ScoreOf(code, c) = Fraud!ScoreOf(code, d)
      BY <2>2, Codes15 DEF Fraud!ScoreOf
    <3>2. Fraud!ScoreOf(code, c) \in Nat
      BY ScoresAre
    <3> QED BY <3>1, <3>2
  <2> QED BY <2>1, <2>2
<1> QED BY <1>1, <1>2

Firing(codes, c) == {code \in codes : Fraud!Fires(code, c)}
PointsOf(c) == Fraud!Points(Fraud!DEFAULT_RULE_WEIGHTS, c)
TotalPoints(codes, c) == SumFunctionOnSet(PointsOf(c), Firing(codes, c))

LEMMA CodesFinite ==
  ASSUME NEW codes, codes \subseteq Fraud!RULE_CODES
  PROVE  IsFiniteSet(codes)
<1>1. Fraud!RULE_CODES
        = {"R001"} \cup {"R002"} \cup {"R003"} \cup {"R004"} \cup {"R005"} \cup {"R006"} \cup {"R007"}
          \cup {"R008"} \cup {"R009"} \cup {"R010"} \cup {"R011"} \cup {"R012"} \cup {"R013"}
          \cup {"R014"} \cup {"R015"}
  BY Codes15
<1>2. IsFiniteSet(Fraud!RULE_CODES)
  BY <1>1, FS_Singleton, FS_Union
<1> QED BY <1>2, FS_Subset

LEMMA PointsAre ==
  ASSUME NEW c, Context(c)
  PROVE  /\ \A code \in Fraud!RULE_CODES :
              /\ PointsOf(c)[code] = Fraud!ScoreOf(code, c) * Fraud!DEFAULT_RULE_WEIGHTS[code]
              /\ PointsOf(c)[code] \in Nat
         /\ PointsOf(c)["R012"] = 10000 /\ PointsOf(c)["R014"] = 8100
         /\ c.flag = 100 => PointsOf(c)["R011"] = 8500
<1>1. \A code \in Fraud!RULE_CODES :
        PointsOf(c)[code] = Fraud!ScoreOf(code, c) * Fraud!DEFAULT_RULE_WEIGHTS[code]
  BY DEF PointsOf, Fraud!Points
<1>2. \A code \in Fraud!RULE_CODES :
        Fraud!ScoreOf(code, c) \in Nat /\ Fraud!DEFAULT_RULE_WEIGHTS[code] \in Nat
  BY ScoresAre, WeightsAre
<1>3. \A x, y \in Nat : x * y \in Nat
  OBVIOUS
<1>4. \A code \in Fraud!RULE_CODES : PointsOf(c)[code] \in Nat
  BY <1>1, <1>2, <1>3
<1>5. PointsOf(c)["R012"] = 100 * 100 /\ PointsOf(c)["R014"] = 90 * 90
  BY <1>1, ScoresAre, WeightsAre, Codes15
<1>6. c.flag = 100 => PointsOf(c)["R011"] = 100 * 85
  BY <1>1, ScoresAre, WeightsAre, Codes15
<1> QED BY <1>1, <1>4, <1>5, <1>6

LEMMA TotalIsNat ==
  ASSUME NEW c, Context(c), NEW codes, codes \subseteq Fraud!RULE_CODES
  PROVE  IsFiniteSet(Firing(codes, c)) /\ Firing(codes, c) \subseteq Fraud!RULE_CODES /\ TotalPoints(codes, c) \in Nat
<1>1. Firing(codes, c) \subseteq Fraud!RULE_CODES
  BY DEF Firing
<1>2. IsFiniteSet(Firing(codes, c))
  BY <1>1, CodesFinite
<1>3. \A code \in Firing(codes, c) : PointsOf(c)[code] \in Nat
  BY <1>1, PointsAre
<1> QED BY <1>1, <1>2, <1>3, SumNat DEF TotalPoints

LEMMA TotalGrows ==
  ASSUME NEW c, Context(c), NEW d, Context(d), AtLeast(d, c), NEW more, more \subseteq Fraud!RULE_CODES,
         NEW codes, codes \subseteq more
  PROVE  TotalPoints(codes, c) <= TotalPoints(more, d)
<1>1. /\ IsFiniteSet(Firing(codes, c)) /\ Firing(codes, c) \subseteq Fraud!RULE_CODES
      /\ IsFiniteSet(Firing(more, d)) /\ Firing(more, d) \subseteq Fraud!RULE_CODES
      /\ TotalPoints(codes, c) \in Nat /\ TotalPoints(more, d) \in Nat
  BY TotalIsNat
<1>2. Firing(codes, c) \subseteq Firing(more, d)
  BY <1>1, FiresAndScores DEF Firing
<1>3. ASSUME NEW code \in Firing(codes, c)
      PROVE  PointsOf(c)[code] \in Nat /\ PointsOf(d)[code] \in Nat /\ PointsOf(c)[code] <= PointsOf(d)[code]
  <2>1. code \in Fraud!RULE_CODES /\ Fraud!Fires(code, c)
    BY <1>1 DEF Firing
  <2>2. PICK x \in Nat, y \in Nat, w \in Nat :
          x = Fraud!ScoreOf(code, c) /\ y = Fraud!ScoreOf(code, d) /\ w = Fraud!DEFAULT_RULE_WEIGHTS[code]
    BY <2>1, ScoresAre, WeightsAre
  <2>3. x <= y
    BY <2>1, <2>2, FiresAndScores
  <2>4. PointsOf(c)[code] = x * w /\ PointsOf(d)[code] = y * w
    BY <2>1, <2>2, PointsAre
  <2>5. x * w <= y * w
    BY <2>3
  <2> QED BY <2>1, <2>4, <2>5, PointsAre
<1>4. SumFunctionOnSet(PointsOf(c), Firing(codes, c)) <= SumFunctionOnSet(PointsOf(d), Firing(codes, c))
  BY <1>1, <1>3, SumMonotone
<1>5. SumFunctionOnSet(PointsOf(d), Firing(codes, c)) <= SumFunctionOnSet(PointsOf(d), Firing(more, d))
  <2>1. \A code \in Firing(more, d) : PointsOf(d)[code] \in Nat
    BY <1>1, PointsAre
  <2> QED BY <1>1, <1>2, <2>1, SumGrows
<1>6. SumFunctionOnSet(PointsOf(d), Firing(codes, c)) \in Nat
  BY <1>1, <1>3, SumNat
<1> QED BY <1>1, <1>4, <1>5, <1>6 DEF TotalPoints

CompositeOf(codes, c) == Fraud!Composite(codes, Fraud!DEFAULT_RULE_WEIGHTS, c)

LEMMA CompositeIs ==
  ASSUME NEW c, Context(c), NEW codes, codes \subseteq Fraud!RULE_CODES
  PROVE  /\ CompositeOf(codes, c) \in Nat
         /\ \A n \in Nat : n <= TotalPoints(codes, c) =>
              CompositeOf(codes, c) >= 100 \/ CompositeOf(codes, c) >= (n + 50) \div 100
         /\ \A n \in Nat : TotalPoints(codes, c) <= n =>
              CompositeOf(codes, c) <= 100 /\ CompositeOf(codes, c) <= (n + 50) \div 100
<1>1. PICK t \in Nat : t = TotalPoints(codes, c)
  BY TotalIsNat
<1>2. t = Fraud!SumFunctionOnSet(Fraud!Points(Fraud!DEFAULT_RULE_WEIGHTS, c), Firing(codes, c))
  BY <1>1 DEF TotalPoints, PointsOf, Fraud!SumFunctionOnSet, SumFunctionOnSet, Fraud!FoldFunctionOnSet, FoldFunctionOnSet,
              Fraud!MapThenFoldSet, MapThenFoldSet
<1>3. PICK n \in Nat : n = (t + 50) \div 100
  OBVIOUS
<1>4. CompositeOf(codes, c) = Fraud!Min({100, n})
  BY <1>2, <1>3 DEF CompositeOf, Fraud!Composite, Firing
<1>5. Fraud!Min({100, n}) = IF n <= 100 THEN n ELSE 100
  <2>1. CASE n <= 100
    <3>1. \A x \in {100, n} : (\A y \in {100, n} : x =< y) <=> x = n
      BY <2>1
    <3> QED BY <2>1, <3>1 DEF Fraud!Min
  <2>2. CASE ~(n <= 100)
    <3>1. \A x \in {100, n} : (\A y \in {100, n} : x =< y) <=> x = 100
      BY <2>2
    <3> QED BY <2>2, <3>1 DEF Fraud!Min
  <2> QED BY <2>1, <2>2
<1>6. ASSUME NEW k \in Nat, k <= t
      PROVE  (k + 50) \div 100 <= n
  BY <1>3, <1>6
<1>7. ASSUME NEW k \in Nat, t <= k
      PROVE  n <= (k + 50) \div 100
  BY <1>3, <1>7
<1>8. PICK v \in Nat : v = CompositeOf(codes, c) /\ v = IF n <= 100 THEN n ELSE 100
  BY <1>4, <1>5
<1>9. ASSUME NEW k \in Nat, k <= t
      PROVE  v >= 100 \/ v >= (k + 50) \div 100
  <2>1. PICK l \in Nat : l = (k + 50) \div 100
    OBVIOUS
  <2>2. l <= n
    BY <1>6, <1>9, <2>1
  <2> QED BY <1>8, <2>1, <2>2
<1>10. ASSUME NEW k \in Nat, t <= k
       PROVE  v <= 100 /\ v <= (k + 50) \div 100
  <2>1. PICK l \in Nat : l = (k + 50) \div 100
    OBVIOUS
  <2>2. n <= l
    BY <1>7, <1>10, <2>1
  <2> QED BY <1>8, <2>1, <2>2
<1> QED BY <1>1, <1>8, <1>9, <1>10

LEMMA CompositeGrows ==
  ASSUME NEW c, Context(c), NEW d, Context(d), AtLeast(d, c), NEW more, more \subseteq Fraud!RULE_CODES,
         NEW codes, codes \subseteq more
  PROVE  CompositeOf(codes, c) <= CompositeOf(more, d)
<1>1. PICK t \in Nat : t = TotalPoints(codes, c) /\ t <= TotalPoints(more, d)
  BY TotalGrows, TotalIsNat
<1>2. /\ CompositeOf(codes, c) <= 100 /\ CompositeOf(codes, c) <= (t + 50) \div 100
      /\ CompositeOf(codes, c) \in Nat
  BY <1>1, CompositeIs
<1>3. /\ CompositeOf(more, d) >= 100 \/ CompositeOf(more, d) >= (t + 50) \div 100
      /\ CompositeOf(more, d) \in Nat
  BY <1>1, CompositeIs
<1>4. PICK l \in Nat : l = (t + 50) \div 100
  OBVIOUS
<1> QED BY <1>2, <1>3, <1>4

-----------------------------------------------------------------------------

LEMMA PacksAre ==
  /\ Fraud!PACK_CODES = {"UNIVERSAL", "GHANA"}
  /\ \A packs \in SUBSET Fraud!PACK_CODES : Fraud!listActiveRulesForParticipant(packs) \subseteq Fraud!RULE_CODES
  /\ \A packs, more \in SUBSET Fraud!PACK_CODES : packs \subseteq more =>
       Fraud!listActiveRulesForParticipant(packs) \subseteq Fraud!listActiveRulesForParticipant(more)
  /\ \A packs \in SUBSET Fraud!PACK_CODES : "UNIVERSAL" \in packs =>
       {"R011", "R012", "R014"} \subseteq Fraud!listActiveRulesForParticipant(packs)
<1>1. Fraud!PACK_CODES = {"UNIVERSAL", "GHANA"}
  BY DEF Fraud!PACK_CODES, Fraud!PACK_DEFINITIONS
<1>2. /\ Fraud!PACK_DEFINITIONS["UNIVERSAL"] = Fraud!RULE_CODES \ {"R005", "R006", "R007"}
      /\ Fraud!PACK_DEFINITIONS["GHANA"] = {"R005", "R006", "R007"}
  BY DEF Fraud!PACK_DEFINITIONS
<1>3. \A p \in Fraud!PACK_CODES : Fraud!PACK_DEFINITIONS[p] \subseteq Fraud!RULE_CODES
  BY <1>1, <1>2, Codes15
<1>4. {"R011", "R012", "R014"} \subseteq Fraud!PACK_DEFINITIONS["UNIVERSAL"]
  BY <1>2, Codes15
<1> QED BY <1>1, <1>3, <1>4 DEF Fraud!listActiveRulesForParticipant

\* Thresholds of two packs.
ThresholdsOf(t) == t["UNIVERSAL"] \in Int /\ t["GHANA"] \in Int

LEMMA StrictestIs ==
  ASSUME NEW t, ThresholdsOf(t), NEW default \in Int, NEW packs \in SUBSET Fraud!PACK_CODES, packs # {}
  PROVE  /\ Fraud!Strictest(packs, t, default) \in {t[p] : p \in packs}
         /\ Fraud!Strictest(packs, t, default) \in Int
         /\ \A p \in packs : Fraud!Strictest(packs, t, default) <= t[p]
<1>1. PICK u \in Int, g \in Int : u = t["UNIVERSAL"] /\ g = t["GHANA"]
  BY DEF ThresholdsOf
<1>2. PICK S : S = {t[p] : p \in packs}
  OBVIOUS
<1>3. packs = {"UNIVERSAL"} \/ packs = {"GHANA"} \/ packs = {"UNIVERSAL", "GHANA"}
  BY PacksAre
<1>4. S = {u} \/ S = {g} \/ S = {u, g}
  BY <1>1, <1>2, <1>3
<1>5. \E x \in S : \A y \in S : x =< y
  BY <1>4
<1>6. Fraud!Strictest(packs, t, default) = Fraud!Min(S)
  BY <1>2 DEF Fraud!Strictest
<1>7. Fraud!Min(S) \in S /\ \A y \in S : Fraud!Min(S) =< y
  BY <1>5 DEF Fraud!Min
<1>8. Fraud!Min(S) \in Int
  BY <1>4, <1>7
<1> QED BY <1>2, <1>6, <1>7, <1>8

VerdictOf(packs, block, review, c) ==
  Fraud!Severity[Fraud!computeComposite(packs, block, review, Fraud!DEFAULT_RULE_WEIGHTS, c)]

LEMMA VerdictIs ==
  ASSUME NEW c, Context(c), NEW block, ThresholdsOf(block), NEW review, ThresholdsOf(review),
         NEW packs \in SUBSET Fraud!PACK_CODES
  PROVE  /\ Fraud!Strictest(packs, block, 80) \in Int /\ Fraud!Strictest(packs, review, 50) \in Int
         /\ CompositeOf(Fraud!listActiveRulesForParticipant(packs), c) \in Nat
         /\ VerdictOf(packs, block, review, c)
              = IF CompositeOf(Fraud!listActiveRulesForParticipant(packs), c) >= Fraud!Strictest(packs, block, 80)
                  THEN 2
                ELSE IF CompositeOf(Fraud!listActiveRulesForParticipant(packs), c)
                          >= Fraud!Strictest(packs, review, 50) THEN 1 ELSE 0
<1>1. /\ Fraud!Strictest(packs, block, 80) \in Int /\ Fraud!Strictest(packs, review, 50) \in Int
  <2>1. CASE packs = {}
    BY <2>1 DEF Fraud!Strictest
  <2>2. CASE packs # {}
    BY <2>2, StrictestIs
  <2> QED BY <2>1, <2>2
<1>2. CompositeOf(Fraud!listActiveRulesForParticipant(packs), c) \in Nat
  BY CompositeIs, PacksAre
<1>3. PICK b \in Int, r \in Int, v \in Nat :
        /\ b = Fraud!Strictest(packs, block, 80) /\ r = Fraud!Strictest(packs, review, 50)
        /\ v = CompositeOf(Fraud!listActiveRulesForParticipant(packs), c)
  BY <1>1, <1>2
<1>4. Fraud!computeComposite(packs, block, review, Fraud!DEFAULT_RULE_WEIGHTS, c)
        = CASE v >= b -> "BLOCK" [] v < b /\ v >= r -> "REVIEW" [] OTHER -> "PASS"
  BY <1>3 DEF Fraud!computeComposite, CompositeOf
<1>5. Fraud!Severity["BLOCK"] = 2 /\ Fraud!Severity["REVIEW"] = 1 /\ Fraud!Severity["PASS"] = 0
  BY DEF Fraud!Severity
<1>6. CASE v >= b
  <2>1. Fraud!computeComposite(packs, block, review, Fraud!DEFAULT_RULE_WEIGHTS, c) = "BLOCK"
    BY <1>4, <1>6
  <2> QED BY <1>1, <1>2, <1>3, <1>5, <1>6, <2>1 DEF VerdictOf
<1>7. CASE v < b /\ v >= r
  <2>1. Fraud!computeComposite(packs, block, review, Fraud!DEFAULT_RULE_WEIGHTS, c) = "REVIEW"
    BY <1>4, <1>7
  <2> QED BY <1>1, <1>2, <1>3, <1>5, <1>7, <2>1 DEF VerdictOf
<1>8. CASE v < b /\ ~(v >= r)
  <2>1. Fraud!computeComposite(packs, block, review, Fraud!DEFAULT_RULE_WEIGHTS, c) = "PASS"
    BY <1>4, <1>8
  <2> QED BY <1>1, <1>2, <1>3, <1>5, <1>8, <2>1 DEF VerdictOf
<1> QED BY <1>3, <1>6, <1>7, <1>8

LEMMA VerdictGrows ==
  ASSUME NEW c, Context(c), NEW d, Context(d), AtLeast(d, c), NEW block, ThresholdsOf(block),
         NEW review, ThresholdsOf(review), NEW more \in SUBSET Fraud!PACK_CODES, NEW packs \in SUBSET more,
         packs # {} \/ more = {}
  PROVE  VerdictOf(more, block, review, d) >= VerdictOf(packs, block, review, c)
<1>0. packs \in SUBSET Fraud!PACK_CODES
  OBVIOUS
<1>1. PICK b \in Int, r \in Int, v \in Nat :
        /\ b = Fraud!Strictest(packs, block, 80) /\ r = Fraud!Strictest(packs, review, 50)
        /\ v = CompositeOf(Fraud!listActiveRulesForParticipant(packs), c)
        /\ VerdictOf(packs, block, review, c) = IF v >= b THEN 2 ELSE IF v >= r THEN 1 ELSE 0
  BY <1>0, VerdictIs
<1>2. PICK bb \in Int, rr \in Int, vv \in Nat :
        /\ bb = Fraud!Strictest(more, block, 80) /\ rr = Fraud!Strictest(more, review, 50)
        /\ vv = CompositeOf(Fraud!listActiveRulesForParticipant(more), d)
        /\ VerdictOf(more, block, review, d) = IF vv >= bb THEN 2 ELSE IF vv >= rr THEN 1 ELSE 0
  BY VerdictIs
<1>3. v <= vv
  BY <1>0, <1>1, <1>2, CompositeGrows, PacksAre
<1>4. bb <= b /\ rr <= r
  <2>1. CASE packs = {}
    <3>1. more = {}
      BY <2>1
    <3> QED BY <1>1, <1>2, <2>1, <3>1
  <2>2. CASE packs # {}
    <3>1. PICK p \in packs : b = block[p]
      BY <1>0, <1>1, <2>2, StrictestIs
    <3>2. PICK q \in packs : r = review[q]
      BY <1>0, <1>1, <2>2, StrictestIs
    <3>3. more # {} /\ p \in more /\ q \in more
      BY <2>2
    <3>4. bb <= block[p]
      BY <1>2, <3>3, StrictestIs
    <3>5. rr <= review[q]
      BY <1>2, <3>3, StrictestIs
    <3> QED BY <3>1, <3>2, <3>4, <3>5
  <2> QED BY <2>1, <2>2
<1> QED BY <1>1, <1>2, <1>3, <1>4

\* One confirmed signal is worth 80 at least.
LEMMA OneSignalBlocks ==
  ASSUME NEW c, Context(c), c.sanctioned \/ c.mule \/ c.flag = 100,
         NEW packs \in SUBSET Fraud!PACK_CODES, "UNIVERSAL" \in packs
  PROVE  CompositeOf(Fraud!listActiveRulesForParticipant(packs), c) >= 80
<1>1. PICK codes : codes = Fraud!listActiveRulesForParticipant(packs)
  OBVIOUS
<1>2. codes \subseteq Fraud!RULE_CODES /\ "R011" \in codes /\ "R012" \in codes /\ "R014" \in codes
  BY <1>1, PacksAre
<1>3. PICK code \in codes : Fraud!Fires(code, c) /\ PointsOf(c)[code] \in Nat /\ PointsOf(c)[code] >= 8100
  <2>1. CASE c.sanctioned
    <3>1. Fraud!Fires("R012", c)
      BY <2>1 DEF Fraud!Fires
    <3> QED BY <1>2, <3>1, PointsAre
  <2>2. CASE c.mule
    <3>1. Fraud!Fires("R014", c)
      BY <2>2 DEF Fraud!Fires
    <3> QED BY <1>2, <3>1, PointsAre
  <2>3. CASE c.flag = 100
    <3>1. Fraud!Fires("R011", c)
      BY <2>3 DEF Fraud!Fires
    <3> QED BY <1>2, <2>3, <3>1, PointsAre
  <2> QED BY <2>1, <2>2, <2>3
<1>4. /\ IsFiniteSet(Firing(codes, c)) /\ Firing(codes, c) \subseteq Fraud!RULE_CODES
      /\ TotalPoints(codes, c) \in Nat /\ code \in Firing(codes, c)
  BY <1>2, <1>3, TotalIsNat DEF Firing
<1>5. \A x \in Firing(codes, c) : PointsOf(c)[x] \in Nat
  BY <1>4, PointsAre
<1>6. TotalPoints(codes, c) = PointsOf(c)[code] + SumFunctionOnSet(PointsOf(c), Firing(codes, c) \ {code})
  BY <1>4, <1>5, SumRemove DEF TotalPoints
<1>7. SumFunctionOnSet(PointsOf(c), Firing(codes, c) \ {code}) \in Nat
  <2>1. IsFiniteSet(Firing(codes, c) \ {code})
    BY <1>4, FS_Subset
  <2> QED BY <1>5, <2>1, SumNat
<1>8. 8100 <= TotalPoints(codes, c)
  BY <1>3, <1>6, <1>7
<1>9. CompositeOf(codes, c) >= 100 \/ CompositeOf(codes, c) >= (8100 + 50) \div 100
  BY <1>2, <1>8, CompositeIs
<1>10. CompositeOf(codes, c) \in Nat
  BY <1>2, CompositeIs
<1> QED BY <1>1, <1>9, <1>10

ContextRecord ==
  [lastHour : Nat, lastDay : Nat, beneficiaries : Nat, first : BOOLEAN, amount : Nat, max : Nat,
   young : BOOLEAN, age : Nat, officeHours : Nat, hour : Nat, agent : BOOLEAN,
   simSwapped : BOOLEAN, flag : Nat, sanctioned : BOOLEAN, watched : BOOLEAN, mule : BOOLEAN]

LEMMA ContextIs == ASSUME NEW c \in ContextRecord PROVE Context(c)
BY DEF ContextRecord, Context

LEMMA WorseIsAtLeast ==
  ASSUME NEW c \in ContextRecord, NEW d \in Fraud!Worse(c), d.lastHour >= c.lastHour, d.flag >= c.flag
  PROVE  Context(d) /\ AtLeast(d, c)
<1>0. Context(c) /\ c.lastHour >= c.lastHour /\ c.flag >= c.flag
  BY ContextIs DEF Context
<1>1. \/ \E n \in {3, 8} : d = [c EXCEPT !.lastHour = n]
      \/ \E n \in {70, 100} : d = [c EXCEPT !.flag = n]
      \/ d = [c EXCEPT !.beneficiaries = 3] \/ d = [c EXCEPT !.lastDay = 8]
      \/ d = [c EXCEPT !.sanctioned = TRUE] \/ d = [c EXCEPT !.mule = TRUE] \/ d = [c EXCEPT !.watched = TRUE]
      \/ d = [c EXCEPT !.first = TRUE] \/ d = [c EXCEPT !.simSwapped = TRUE] \/ d = [c EXCEPT !.agent = TRUE]
  BY DEF Fraud!Worse
<1>2. CASE \E n \in {3, 8} : d = [c EXCEPT !.lastHour = n]
  BY <1>0, <1>2 DEF ContextRecord, Context, AtLeast
<1>3. CASE \E n \in {70, 100} : d = [c EXCEPT !.flag = n]
  BY <1>0, <1>3 DEF ContextRecord, Context, AtLeast
<1>4. CASE d = [c EXCEPT !.beneficiaries = 3]
  BY <1>0, <1>4 DEF ContextRecord, Context, AtLeast
<1>5. CASE d = [c EXCEPT !.lastDay = 8]
  BY <1>0, <1>5 DEF ContextRecord, Context, AtLeast
<1>6. CASE d = [c EXCEPT !.sanctioned = TRUE]
  BY <1>0, <1>6 DEF ContextRecord, Context, AtLeast
<1>7. CASE d = [c EXCEPT !.mule = TRUE]
  BY <1>0, <1>7 DEF ContextRecord, Context, AtLeast
<1>8. CASE d = [c EXCEPT !.watched = TRUE]
  BY <1>0, <1>8 DEF ContextRecord, Context, AtLeast
<1>9. CASE d = [c EXCEPT !.first = TRUE]
  BY <1>0, <1>9 DEF ContextRecord, Context, AtLeast
<1>10. CASE d = [c EXCEPT !.simSwapped = TRUE]
  BY <1>0, <1>10 DEF ContextRecord, Context, AtLeast
<1>11. CASE d = [c EXCEPT !.agent = TRUE]
  BY <1>0, <1>11 DEF ContextRecord, Context, AtLeast
<1> QED BY <1>1, <1>2, <1>3, <1>4, <1>5, <1>6, <1>7, <1>8, <1>9, <1>10, <1>11

\* More evidence against a payment or one more pack of rules gives no milder
\* verdict, and a listed party, a mule ring or a full flag blocks where the
\* threshold is 80 or less: for every context and every pair of thresholds.
THEOREM VerdictsInGeneral ==
  ASSUME NEW contexts, \A c \in contexts : c \in ContextRecord,
         NEW thresholds, \A t \in thresholds : ThresholdsOf(t)
  PROVE  Fraud!VerdictsGetNoMilder(contexts, thresholds)
<1> SUFFICES ASSUME NEW c \in contexts, NEW packs \in SUBSET Fraud!PACK_CODES, NEW block \in thresholds
             PROVE  LET review == [p \in Fraud!PACK_CODES |-> block[p] - 30]
                        Of(ps, d) == Fraud!Severity[Fraud!computeComposite(ps, block, review, Fraud!DEFAULT_RULE_WEIGHTS, d)] IN
                    /\ \A d \in Fraud!Worse(c) :
                         d.lastHour >= c.lastHour /\ d.flag >= c.flag => Of(packs, d) >= Of(packs, c)
                    /\ \A p \in Fraud!PACK_CODES : Of(packs \cup {p}, c) >= Of(packs, c) \/ packs = {}
                    /\ "UNIVERSAL" \in packs /\ (c.sanctioned \/ c.mule \/ c.flag = 100)
                         /\ block["UNIVERSAL"] <= 80 => Of(packs, c) = 2
  BY Zenon DEF Fraud!VerdictsGetNoMilder
<1>1. PICK review : review = [p \in Fraud!PACK_CODES |-> block[p] - 30]
  OBVIOUS
<1>2. ThresholdsOf(block) /\ c \in ContextRecord
  OBVIOUS
<1>3. ThresholdsOf(review)
  BY <1>1, <1>2, PacksAre DEF ThresholdsOf
<1>4. Context(c) /\ AtLeast(c, c)
  <2>1. Context(c)
    BY <1>2, ContextIs
  <2> QED BY <2>1 DEF Context, AtLeast
<1>5. ASSUME NEW d \in Fraud!Worse(c), d.lastHour >= c.lastHour, d.flag >= c.flag
      PROVE  VerdictOf(packs, block, review, d) >= VerdictOf(packs, block, review, c)
  <2>1. Context(d) /\ AtLeast(d, c)
    BY <1>2, <1>5, WorseIsAtLeast
  <2> QED BY <1>2, <1>3, <1>4, <2>1, VerdictGrows
<1>6. ASSUME NEW p \in Fraud!PACK_CODES, packs # {}
      PROVE  VerdictOf(packs \cup {p}, block, review, c) >= VerdictOf(packs, block, review, c)
  <2>1. packs \cup {p} \in SUBSET Fraud!PACK_CODES /\ packs \in SUBSET (packs \cup {p})
    OBVIOUS
  <2> QED BY <1>2, <1>3, <1>4, <1>6, <2>1, VerdictGrows
<1>7. ASSUME "UNIVERSAL" \in packs, c.sanctioned \/ c.mule \/ c.flag = 100, block["UNIVERSAL"] <= 80
      PROVE  VerdictOf(packs, block, review, c) = 2
  <2>1. PICK b \in Int, v \in Nat :
          /\ b = Fraud!Strictest(packs, block, 80)
          /\ v = CompositeOf(Fraud!listActiveRulesForParticipant(packs), c)
          /\ v >= b => VerdictOf(packs, block, review, c) = 2
    BY <1>2, <1>3, <1>4, VerdictIs
  <2>2. v >= 80
    BY <1>4, <1>7, <2>1, OneSignalBlocks
  <2>3. b <= block["UNIVERSAL"] /\ block["UNIVERSAL"] \in Int
    BY <1>2, <1>7, <2>1, StrictestIs DEF ThresholdsOf
  <2> QED BY <1>7, <2>1, <2>2, <2>3
<1> QED BY <1>1, <1>5, <1>6, <1>7, Zenon DEF VerdictOf

LEMMA FraudVerdicts == Fraud!VerdictsGetNoMilder(Contexts, Thresholds)
<1>3. ASSUME NEW n \in Nat, NEW b \in Nat, NEW f \in BOOLEAN, NEW a \in Nat, NEW m \in Nat, NEW g \in Nat, NEW h \in Nat
      PROVE  Known(n, b, f, a, m, g, h) \in ContextRecord
  <2>0. 5 * n \in Nat /\ (m = 0) \in BOOLEAN
    OBVIOUS
  <2>1. PICK k \in Nat, y \in BOOLEAN : k = 5 * n /\ y = (m = 0)
    BY <2>0
  <2>2. [lastHour |-> n, lastDay |-> k, beneficiaries |-> b, first |-> f, amount |-> a, max |-> m,
         young |-> y, age |-> g, officeHours |-> 90, hour |-> h, agent |-> FALSE,
         simSwapped |-> FALSE, flag |-> 0, sanctioned |-> FALSE, watched |-> FALSE, mule |-> FALSE]
           \in ContextRecord
    BY DEF ContextRecord
  <2> QED BY <2>1, <2>2 DEF Known
<1>4. ASSUME NEW c \in Contexts
      PROVE  c \in ContextRecord
  <2>1. PICK n \in {0, 3}, b \in {0, 3}, f \in BOOLEAN, a \in {1000, 500000, 1000000}, m \in {0, 100000},
             g \in {10, 100}, h \in {2, 23} : c = Known(n, b, f, a, m, g, h)
    BY <1>4, SMTT(20) DEF Contexts
  <2>2. n \in Nat /\ b \in Nat /\ a \in Nat /\ m \in Nat /\ g \in Nat /\ h \in Nat
    OBVIOUS
  <2> QED BY <1>3, <2>1, <2>2
<1>5. \A t \in Thresholds : ThresholdsOf(t)
  BY DEF Thresholds, ThresholdsOf
<1> QED BY <1>4, <1>5, VerdictsInGeneral

-----------------------------------------------------------------------------
(* Mule rings.                                                             *)

Accs == Things \cup Codes

\* Of a pair of naturals the larger.
LEMMA LargerIs ==
  ASSUME NEW x \in Nat, NEW y \in Nat
  PROVE  Graph!Max({x, y}) = IF x <= y THEN y ELSE x
<1>1. CASE x <= y
  <2>1. \A z \in {x, y} : (\A w \in {x, y} : z >= w) <=> z = y
    BY <1>1
  <2> QED BY <1>1, <2>1 DEF Graph!Max
<1>2. CASE ~(x <= y)
  <2>1. \A z \in {x, y} : (\A w \in {x, y} : z >= w) <=> z = x
    BY <1>2
  <2> QED BY <1>2, <2>1 DEF Graph!Max
<1> QED BY <1>1, <1>2

\* Two totals within 5 % of a third are within 10 % of each other.
LEMMA Within10 ==
  ASSUME NEW t \in Nat, NEW x \in Nat, NEW y \in Nat,
         x = t \/ Graph!within5Pct(t, x), y = t \/ Graph!within5Pct(t, y)
  PROVE  Graph!Difference(x, y) * 10 <= Graph!Max({x, y})
<1>1. \A a, b \in Nat : Graph!within5Pct(a, b) =>
        (IF a > b THEN (a - b) * 20 <= a ELSE (b - a) * 20 <= b)
  BY LargerIs DEF Graph!within5Pct, Graph!Difference
<1>2. (IF t > x THEN (t - x) * 20 <= t ELSE (x - t) * 20 <= x)
  BY <1>1
<1>3. (IF t > y THEN (t - y) * 20 <= t ELSE (y - t) * 20 <= y)
  BY <1>1
<1>4. IF x > y THEN (x - y) * 10 <= x ELSE (y - x) * 10 <= y
  BY <1>2, <1>3
<1>5. Graph!Max({x, y}) = IF x <= y THEN y ELSE x
  BY LargerIs
<1> QED BY <1>4, <1>5 DEF Graph!Difference

\* A path of n accounts from s.
IsPath(p, n, s) ==
  /\ n \in Nat /\ n >= 3 /\ p \in [1 .. n -> Accs] /\ Len(p) = n /\ DOMAIN p = 1 .. n /\ p[1] = s
  /\ \A i \in 1 .. n : Graph!After(p, i) = p[IF i = n THEN 1 ELSE i + 1] /\ Graph!After(p, i) \in Accs
                       /\ <<p[i], Graph!After(p, i)>> \in Graph!Pairs

LEMMA PathIs ==
  ASSUME NEW s, NEW p \in Graph!Paths(s)
  PROVE  \E n : IsPath(p, n, s)
<1>1. Cardinality(Accs) \in Nat
  <2>1. IsFiniteSet(Accs)
    BY GraphAssumption, ReconciliationAssumption, FS_Union DEF Accs
  <2> QED BY <2>1, FS_CardinalityType
<1>2. Graph!Cardinality(Accs) = Cardinality(Accs)
  BY DEF Cardinality, Graph!Cardinality, IsFiniteSet, Graph!IsFiniteSet
<1>3. PICK k \in Nat : k = Graph!Cardinality(Accs)
  BY <1>1, <1>2
<1>4. Graph!Min({6, k}) \in {6, k}
  <2>1. \E x \in {6, k} : \A y \in {6, k} : x =< y
    OBVIOUS
  <2> QED BY <2>1 DEF Graph!Min
<1>5. PICK m \in Nat : m = Graph!Min({6, k})
  BY <1>4
<1>6. PICK n \in 3 .. m : p \in [1 .. n -> Accs] /\ p[1] = s
  BY <1>3, <1>5 DEF Graph!Paths, Accs
<1>7. n \in Nat /\ n >= 3 /\ Len(p) = n /\ DOMAIN p = 1 .. n
  BY <1>6
<1>8. \A i \in 1 .. n : Graph!After(p, i) = p[IF i = n THEN 1 ELSE i + 1]
  BY <1>7 DEF Graph!After
<1>9. \A i \in 1 .. n : (IF i = n THEN 1 ELSE i + 1) \in 1 .. n
  BY <1>7
<1>10. \A i \in 1 .. n : Graph!After(p, i) \in Accs /\ p[i] \in Accs
  BY <1>6, <1>8, <1>9
<1>11. \A i \in 1 .. n : <<p[i], Graph!After(p, i)>> \in Graph!Pairs
  BY <1>10 DEF Graph!Pairs, Accs
<1> QED BY <1>6, <1>7, <1>8, <1>10, <1>11 DEF IsPath

\* What the scan has read is so.
Current(e) == scan.rows[e].recent => scan.rows[e] = edge[e]
Followed(e) == e[1] \in scan.seen /\ edge[e].recent => e[2] \in scan.seen \cup scan.stack /\ scan.rows[e] = edge[e]

QuietInv ==
  /\ \A p \in scan.rings : \E s \in Accs : p \in Graph!findCyclesFrom(edge, s)
  /\ \A s \in Graph!hotInboundAccounts :
       s \in scan.left \/ s = scan.at \/ Graph!findCyclesFrom(edge, s) \subseteq scan.rings
  /\ scan.at # None => /\ scan.at \in scan.seen \cup scan.stack
                       /\ \A e \in Graph!Pairs : Current(e) /\ Followed(e)

GraphInv ==
  /\ Graph!MTypeOK
  /\ scan.at = None => scan.stack = {}
  /\ scan.step # "collecting" => scan.at = None
  /\ scan.step = "found" => scan.left = {}
  /\ scan.step # "idle" /\ scan.quiet => QuietInv


LEMMA GraphTypes ==
  ASSUME GraphInv
  PROVE  /\ Graph!Pairs = Accs \X Accs /\ edge \in [Graph!Pairs -> Graph!Edge] /\ scan \in Graph!Scan
         /\ scan.rows \in [Graph!Pairs -> Graph!Edge] /\ scan.left \subseteq Accs /\ scan.seen \subseteq Accs
         /\ scan.stack \subseteq Accs /\ scan.rings \subseteq Graph!AllPaths /\ scan.at \in Accs \cup {None}
         /\ scan.quiet \in BOOLEAN /\ scan.step \in {"idle", "collecting", "found"}
         /\ \A e \in Graph!Pairs : /\ edge[e].total \in Nat /\ edge[e].recent \in BOOLEAN
                                   /\ scan.rows[e].total \in Nat /\ scan.rows[e].recent \in BOOLEAN
         /\ None \notin Accs
<1>1. Graph!Pairs = Accs \X Accs
  BY DEF Graph!Pairs, Accs
<1>2. edge \in [Graph!Pairs -> Graph!Edge] /\ scan \in Graph!Scan
  BY DEF GraphInv, Graph!MTypeOK, Graph!Graph
<1>3. /\ scan.rows \in [Graph!Pairs -> Graph!Edge] /\ scan.left \subseteq Accs /\ scan.seen \subseteq Accs
      /\ scan.stack \subseteq Accs /\ scan.rings \subseteq Graph!AllPaths /\ scan.at \in Accs \cup {None}
      /\ scan.quiet \in BOOLEAN /\ scan.step \in {"idle", "collecting", "found"}
  BY <1>2 DEF Graph!Scan, Graph!Graph, Accs
<1>4. \A e \in Graph!Pairs : /\ edge[e].total \in Nat /\ edge[e].recent \in BOOLEAN
                             /\ scan.rows[e].total \in Nat /\ scan.rows[e].recent \in BOOLEAN
  BY <1>2, <1>3 DEF Graph!Edge
<1>5. None \notin Accs
  BY GraphAssumption, OwnersAssumption DEF Accs
<1> QED BY <1>1, <1>2, <1>3, <1>4, <1>5

LEMMA CycleIs ==
  ASSUME NEW s, NEW p \in Graph!Paths(s), NEW n, IsPath(p, n, s), NEW rows
  PROVE  p \in Graph!findCyclesFrom(rows, s)
           <=> /\ \A i \in 1 .. n : rows[<<p[i], Graph!After(p, i)>>].recent
               /\ \A i \in 2 .. n : Graph!within5Pct(rows[<<p[1], Graph!After(p, 1)>>].total, rows[<<p[i], Graph!After(p, i)>>].total)
BY DEF Graph!findCyclesFrom, Graph!IsRing, Graph!TotalOf, IsPath

\* A search over what a quiet scan has read finds what is there.
LEMMA SearchFinds ==
  ASSUME GraphInv, QuietInv, NEW s \in Accs, s = scan.at, scan.stack = {}
  PROVE  Graph!findCyclesFrom(scan.rows, s) = Graph!findCyclesFrom(edge, s)
<1> USE GraphTypes
<1>1. /\ s \in scan.seen
      /\ \A e \in Graph!Pairs : scan.rows[e].recent => scan.rows[e] = edge[e]
      /\ \A e \in Graph!Pairs : e[1] \in scan.seen /\ edge[e].recent =>
           e[2] \in scan.seen /\ scan.rows[e] = edge[e]
  BY DEF QuietInv, Current, Followed
<1>2. ASSUME NEW p \in Graph!Paths(s), NEW n, IsPath(p, n, s), \A i \in 1 .. n : edge[<<p[i], Graph!After(p, i)>>].recent
      PROVE  \A i \in 1 .. n : p[i] \in scan.seen
  <2> DEFINE T == {i \in 1 .. n : p[i] \notin scan.seen}
  <2>1. SUFFICES ASSUME T # {} PROVE FALSE
    OBVIOUS
  <2>2. PICK i \in T : \A j \in T : i <= j
    <3>1. T \subseteq Nat
      OBVIOUS
    <3> HIDE DEF T
    <3> QED BY <2>1, <3>1, LeastOf
  <2>3. i \in 1 .. n /\ p[i] \notin scan.seen
    OBVIOUS
  <2>4. i # 1 /\ n \in Nat
    BY <1>1, <1>2, <2>3 DEF IsPath
  <2>5. i - 1 \in 1 .. n /\ i - 1 # n /\ (i - 1) + 1 = i /\ i - 1 < i /\ i \in Nat
    BY <2>3, <2>4
  <2>6. p[i - 1] \in scan.seen
    <3>1. i - 1 \notin T
      BY <2>2, <2>5
    <3> QED BY <2>5, <3>1
  <2> HIDE DEF T
  <2>7. Graph!After(p, i - 1) = p[i] /\ <<p[i - 1], Graph!After(p, i - 1)>> \in Graph!Pairs
    BY <1>2, <2>5 DEF IsPath
  <2>8. edge[<<p[i - 1], p[i]>>].recent
    BY <1>2, <2>5, <2>7
  <2> QED BY <1>1, <2>3, <2>6, <2>7, <2>8
<1>3. ASSUME NEW p \in Graph!Paths(s), p \in Graph!findCyclesFrom(edge, s) \/ p \in Graph!findCyclesFrom(scan.rows, s)
      PROVE  p \in Graph!findCyclesFrom(edge, s) /\ p \in Graph!findCyclesFrom(scan.rows, s)
  <2>1. PICK n : IsPath(p, n, s)
    BY PathIs
  <2>2. \A i \in 1 .. n : <<p[i], Graph!After(p, i)>> \in Graph!Pairs
    BY <2>1 DEF IsPath
  <2>3. \A i \in 1 .. n : scan.rows[<<p[i], Graph!After(p, i)>>] = edge[<<p[i], Graph!After(p, i)>>]
    <3>1. CASE p \in Graph!findCyclesFrom(edge, s)
      <4>1. \A i \in 1 .. n : edge[<<p[i], Graph!After(p, i)>>].recent
        BY <2>1, <3>1, CycleIs
      <4>2. \A i \in 1 .. n : p[i] \in scan.seen
        BY <1>2, <2>1, <4>1
      <4> QED BY <1>1, <2>2, <4>1, <4>2
    <3>2. CASE p \in Graph!findCyclesFrom(scan.rows, s)
      <4>1. \A i \in 1 .. n : scan.rows[<<p[i], Graph!After(p, i)>>].recent
        BY <2>1, <3>2, CycleIs
      <4> QED BY <1>1, <2>2, <4>1
    <3> QED BY <1>3, <3>1, <3>2
  <2>4. 1 \in 1 .. n /\ \A i \in 2 .. n : i \in 1 .. n
    BY <2>1 DEF IsPath
  <2>5. p \in Graph!findCyclesFrom(edge, s) <=> p \in Graph!findCyclesFrom(scan.rows, s)
    <3>1. p \in Graph!findCyclesFrom(edge, s)
           <=> /\ \A i \in 1 .. n : edge[<<p[i], Graph!After(p, i)>>].recent
               /\ \A i \in 2 .. n : Graph!within5Pct(edge[<<p[1], Graph!After(p, 1)>>].total, edge[<<p[i], Graph!After(p, i)>>].total)
      BY <2>1, CycleIs
    <3>2. p \in Graph!findCyclesFrom(scan.rows, s)
           <=> /\ \A i \in 1 .. n : scan.rows[<<p[i], Graph!After(p, i)>>].recent
               /\ \A i \in 2 .. n : Graph!within5Pct(scan.rows[<<p[1], Graph!After(p, 1)>>].total, scan.rows[<<p[i], Graph!After(p, i)>>].total)
      BY <2>1, CycleIs
    <3> QED BY <2>3, <2>4, <3>1, <3>2
  <2> QED BY <1>3, <2>5
<1>4. \A rows, p : p \in Graph!findCyclesFrom(rows, s) => p \in Graph!Paths(s)
  BY DEF Graph!findCyclesFrom
<1>5. \A p : p \in Graph!findCyclesFrom(edge, s) => p \in Graph!findCyclesFrom(scan.rows, s)
  BY <1>3, <1>4
<1>6. \A p : p \in Graph!findCyclesFrom(scan.rows, s) => p \in Graph!findCyclesFrom(edge, s)
  BY <1>3, <1>4
<1> DEFINE A == Graph!findCyclesFrom(scan.rows, s)
           B == Graph!findCyclesFrom(edge, s)
<1> HIDE DEF A, B
<1>7. A = B
  <2>1. \A p : p \in A <=> p \in B
    BY <1>5, <1>6 DEF A, B
  <2>2. A \subseteq Graph!Paths(s) /\ B \subseteq Graph!Paths(s)
    BY <1>4 DEF A, B
  <2> QED BY <2>1, <2>2
<1> QED BY <1>7 DEF A, B

\* What a quiet scan says.
LEMMA GraphImplies ==
  ASSUME GraphInv
  PROVE  Graph!QuietScanFindsTheRings
<1> USE GraphTypes
<1> SUFFICES ASSUME scan.step # "idle", scan.quiet
             PROVE  /\ \A p \in Graph!AllPaths :
                         /\ p[1] \notin scan.left \cup {scan.at}
                         /\ Graph!IsRing(edge, p)
                         /\ \A x, y \in Graph!Along(p) : Graph!within5Pct(x, y)
                         => p \in scan.rings
                    /\ \A p \in scan.rings :
                         Graph!IsRing(edge, p)
                           /\ \A x, y \in Graph!Along(p) : Graph!Difference(x, y) * 10 <= Graph!Max({x, y})
  BY DEF Graph!QuietScanFindsTheRings
<1>1. /\ \A p \in scan.rings : \E s \in Accs : p \in Graph!findCyclesFrom(edge, s)
      /\ \A s \in Graph!hotInboundAccounts \ (scan.left \cup {scan.at}) :
           Graph!findCyclesFrom(edge, s) \subseteq scan.rings
  <2>1. QuietInv
    BY DEF GraphInv
  <2> QED BY <2>1 DEF QuietInv
<1>2. \A p, n, s : IsPath(p, n, s) =>
        Graph!Along(p) = {edge[<<p[i], Graph!After(p, i)>>].total : i \in 1 .. n}
  BY DEF IsPath, Graph!Along, Graph!TotalOf
<1>3. ASSUME NEW p \in Graph!AllPaths, p[1] \notin scan.left \cup {scan.at}, Graph!IsRing(edge, p),
             \A x, y \in Graph!Along(p) : Graph!within5Pct(x, y)
      PROVE  p \in scan.rings
  <2>1. PICK s \in Accs : p \in Graph!Paths(s)
    BY DEF Graph!AllPaths, Accs
  <2>2. PICK n : IsPath(p, n, s)
    BY <2>1, PathIs
  <2>3. \A i \in 1 .. n : edge[<<p[i], Graph!After(p, i)>>].recent
    BY <1>3, <2>2 DEF IsPath, Graph!IsRing
  <2>4. n \in 1 .. n /\ 1 \in 1 .. n /\ \A i \in 2 .. n : i \in 1 .. n
    BY <2>2 DEF IsPath
  <2>5. ASSUME NEW i \in 2 .. n
        PROVE  Graph!within5Pct(edge[<<p[1], Graph!After(p, 1)>>].total, edge[<<p[i], Graph!After(p, i)>>].total)
    <3> DEFINE along == {edge[<<p[j], Graph!After(p, j)>>].total : j \in 1 .. n}
    <3>1. Graph!Along(p) = along
      BY <1>2, <2>2
    <3>2. /\ edge[<<p[1], Graph!After(p, 1)>>].total \in along
          /\ edge[<<p[i], Graph!After(p, i)>>].total \in along
      BY <2>4
    <3> QED BY <1>3, <3>1, <3>2
  <2>6. p \in Graph!findCyclesFrom(edge, s)
    BY <2>1, <2>2, <2>3, <2>5, CycleIs
  <2>7. Graph!After(p, n) = s /\ p[n] \in Accs
    BY <2>2, <2>4 DEF IsPath
  <2>8. s \in Graph!hotInboundAccounts
    BY <2>3, <2>4, <2>7 DEF Graph!hotInboundAccounts, Accs
  <2>9. s \notin scan.left \cup {scan.at}
    BY <1>3, <2>2 DEF IsPath
  <2> QED BY <1>1, <2>6, <2>8, <2>9
<1>4. ASSUME NEW p \in scan.rings
      PROVE  Graph!IsRing(edge, p)
             /\ \A x, y \in Graph!Along(p) : Graph!Difference(x, y) * 10 <= Graph!Max({x, y})
  <2>1. PICK s \in Accs : p \in Graph!findCyclesFrom(edge, s)
    BY <1>1
  <2>2. p \in Graph!Paths(s)
    BY <2>1 DEF Graph!findCyclesFrom
  <2>3. PICK n : IsPath(p, n, s)
    BY <2>2, PathIs
  <2>4. /\ \A i \in 1 .. n : edge[<<p[i], Graph!After(p, i)>>].recent
        /\ \A i \in 2 .. n : Graph!within5Pct(edge[<<p[1], Graph!After(p, 1)>>].total, edge[<<p[i], Graph!After(p, i)>>].total)
    BY <2>1, <2>2, <2>3, CycleIs
  <2>5. Graph!IsRing(edge, p)
    BY <2>3, <2>4 DEF IsPath, Graph!IsRing
  <2>6. \A i \in 1 .. n : edge[<<p[i], Graph!After(p, i)>>].total \in Nat
    BY <2>3 DEF IsPath
  <2>7. 1 \in 1 .. n /\ \A i \in 1 .. n : i = 1 \/ i \in 2 .. n
    BY <2>3 DEF IsPath
  <2>8. PICK t \in Nat : t = edge[<<p[1], Graph!After(p, 1)>>].total
    BY <2>6, <2>7
  <2>9. ASSUME NEW x \in Graph!Along(p)
        PROVE  x \in Nat /\ (x = t \/ Graph!within5Pct(t, x))
    <3>1. Graph!Along(p) = {edge[<<p[i], Graph!After(p, i)>>].total : i \in 1 .. n}
      BY <1>2, <2>3
    <3>2. PICK i \in 1 .. n : x = edge[<<p[i], Graph!After(p, i)>>].total
      BY <3>1
    <3>3. CASE i = 1
      BY <2>8, <3>2, <3>3
    <3>4. CASE i \in 2 .. n
      BY <2>4, <2>6, <2>8, <3>2, <3>4
    <3> QED BY <2>7, <3>3, <3>4
  <2> QED BY <2>5, <2>9, Within10
<1> QED BY <1>3, <1>4


\* How an ended or an ordinary step keeps GraphInv.
LEMMA GraphInitInv ==
  ASSUME Graph!MInit
  PROVE  GraphInv
<1>1. payments = 0 /\ edge = Graph!NoEdges /\ alert = {}
  BY DEF Graph!MInit
<1>2. /\ scan.step = "idle" /\ scan.left = {} /\ scan.at = None /\ scan.stack = {}
      /\ scan.rings = {} /\ scan.quiet = TRUE
  BY DEF Graph!MInit, Graph!NoScan
<1>3. Graph!NoEdges \in Graph!Graph
  BY DEF Graph!NoEdges, Graph!Graph, Graph!Edge
<1>4. Graph!NoScan \in Graph!Scan
  BY <1>3 DEF Graph!NoScan, Graph!Scan
<1>5. Graph!MTypeOK
  BY <1>1, <1>3, <1>4, GraphAssumption DEF Graph!MTypeOK, Graph!MInit
<1> QED BY <1>2, <1>5 DEF GraphInv

LEMMA GraphStepInv ==
  ASSUME GraphInv, Graph!MNext
  PROVE  GraphInv'
<1> USE GraphTypes
<1>t. payments \in 0 .. MaxPayments /\ edge \in Graph!Graph /\ alert \subseteq Graph!AllPaths
  BY DEF GraphInv, Graph!MTypeOK
<1>f. /\ scan.at = None => scan.stack = {}
      /\ scan.step # "collecting" => scan.at = None
      /\ scan.step = "found" => scan.left = {}
      /\ scan.step # "idle" /\ scan.quiet => QuietInv
  BY DEF GraphInv
<1>n. Graph!NoEdges \in Graph!Graph /\ \A e \in Graph!Pairs : Graph!NoEdges[e].recent = FALSE
  BY DEF Graph!NoEdges, Graph!Graph, Graph!Edge
<1>0. /\ scan = [step |-> scan.step, left |-> scan.left, at |-> scan.at, stack |-> scan.stack,
                seen |-> scan.seen, rows |-> scan.rows, rings |-> scan.rings, quiet |-> scan.quiet]
      /\ scan.rows \in Graph!Graph
  BY DEF Graph!Scan, Graph!Graph
<1>1. ASSUME payments' \in 0 .. MaxPayments, edge' \in Graph!Graph, UNCHANGED alert,
             scan' = [scan EXCEPT !.quiet = (scan.step = "idle")]
      PROVE  GraphInv'
  <2>1. scan' \in Graph!Scan
    BY <1>1 DEF Graph!Scan
  <2>2. Graph!MTypeOK'
    BY <1>t, <1>1, <2>1 DEF Graph!MTypeOK
  <2>3. /\ scan'.at = scan.at /\ scan'.stack = scan.stack /\ scan'.step = scan.step
        /\ scan'.left = scan.left /\ scan'.quiet = (scan.step = "idle")
    BY <1>0, <1>1
  <2>4. scan'.step # "idle" => ~ scan'.quiet
    BY <2>3
  <2> QED BY <1>f, <2>2, <2>3, <2>4 DEF GraphInv
<1>2. ASSUME NEW from \in Accs, NEW to \in Accs, NEW amount \in {20, 21}, Graph!upsertEdge(from, to, amount)
      PROVE  GraphInv'
  <2>1. /\ payments' = payments + 1 /\ payments < MaxPayments /\ alert' = alert
        /\ edge' = [edge EXCEPT ![<<from, to>>] = [total |-> edge[<<from, to>>].total + amount, recent |-> TRUE]]
        /\ scan' = [scan EXCEPT !.quiet = (scan.step = "idle")]
    BY <1>2 DEF Graph!upsertEdge
  <2>2. payments' \in 0 .. MaxPayments
    BY <1>t, <2>1, GraphAssumption
  <2>3. [total |-> edge[<<from, to>>].total + amount, recent |-> TRUE] \in Graph!Edge
    BY DEF Graph!Edge
  <2>4. edge' \in Graph!Graph
    BY <1>t, <2>1, <2>3 DEF Graph!Graph
  <2> QED BY <1>1, <2>1, <2>2, <2>4
<1>3. ASSUME NEW e \in Graph!Pairs, Graph!Ages(e) PROVE GraphInv'
  <2>1. /\ payments' = payments /\ alert' = alert
        /\ edge' = [edge EXCEPT ![e] = [edge[e] EXCEPT !.recent = FALSE]]
        /\ scan' = [scan EXCEPT !.quiet = (scan.step = "idle")]
    BY <1>3 DEF Graph!Ages
  <2>2. [edge[e] EXCEPT !.recent = FALSE] \in Graph!Edge
    BY DEF Graph!Edge
  <2>3. edge' \in Graph!Graph
    BY <1>t, <2>1, <2>2 DEF Graph!Graph
  <2> QED BY <1>1, <1>t, <2>1, <2>3
<1>4. ASSUME NEW s \in Accs, Graph!StartsAt(s) PROVE GraphInv'
  <2>1. /\ scan.step = "collecting" /\ scan.at = None /\ s \in scan.left
        /\ payments' = payments /\ edge' = edge /\ alert' = alert
        /\ scan' = [scan EXCEPT !.left = scan.left \ {s}, !.at = s, !.stack = {s}, !.seen = {}, !.rows = Graph!NoEdges]
    BY <1>4 DEF Graph!StartsAt
  <2>2. /\ scan'.at = s /\ scan'.stack = {s} /\ scan'.seen = {} /\ scan'.rows = Graph!NoEdges
        /\ scan'.left = scan.left \ {s} /\ scan'.step = scan.step /\ scan'.quiet = scan.quiet /\ scan'.rings = scan.rings
    BY <1>0, <2>1
  <2>3. scan' \in Graph!Scan
    BY <1>n, <2>1 DEF Graph!Scan, Accs
  <2>4. Graph!MTypeOK'
    BY <1>t, <2>1, <2>3 DEF Graph!MTypeOK
  <2>5. s # None
    OBVIOUS
  <2>6. ASSUME scan.quiet PROVE QuietInv'
    <3>1. /\ \A p \in scan.rings : \E a \in Accs : p \in Graph!findCyclesFrom(edge, a)
          /\ \A a \in Graph!hotInboundAccounts :
               a \in scan.left \/ a = scan.at \/ Graph!findCyclesFrom(edge, a) \subseteq scan.rings
      BY <1>f, <2>1, <2>6 DEF QuietInv
    <3>2. Graph!hotInboundAccounts' = Graph!hotInboundAccounts
      BY <2>1 DEF Graph!hotInboundAccounts
    <3>3. \A a \in Graph!hotInboundAccounts : a \in Accs
      BY DEF Graph!hotInboundAccounts, Accs
    <3>4. \A e \in Graph!Pairs : Current(e)' /\ Followed(e)'
      BY <1>n, <2>2 DEF Current, Followed
    <3>5. \A a \in Graph!hotInboundAccounts :
               a \in scan'.left \/ a = scan'.at \/ Graph!findCyclesFrom(edge', a) \subseteq scan'.rings
      BY <2>1, <2>2, <2>5, <3>1, <3>3
    <3>6. \A p \in scan'.rings : \E a \in Accs : p \in Graph!findCyclesFrom(edge', a)
      BY <2>1, <2>2, <3>1
    <3>7. s \in scan'.seen \cup scan'.stack
      BY <2>2
    <3> HIDE DEF Current, Followed
    <3> QED BY <2>2, <3>2, <3>4, <3>5, <3>6, <3>7 DEF QuietInv
  <2> QED BY <2>1, <2>2, <2>4, <2>5, <2>6 DEF GraphInv
<1>5. ASSUME NEW k \in Accs, Graph!outgoingFrom(k) PROVE GraphInv'
  <2> DEFINE out == {b \in Accs : edge[<<k, b>>].recent}
             read == [e \in Graph!Pairs |-> IF e[1] = k /\ e[2] \in out THEN edge[e] ELSE scan.rows[e]]
  <2>1. /\ k \in scan.stack
        /\ payments' = payments /\ edge' = edge /\ alert' = alert
        /\ scan' = [scan EXCEPT !.seen = scan.seen \cup {k}, !.stack = (scan.stack \cup out) \ (scan.seen \cup {k}),
                                !.rows = read]
    BY <1>5 DEF Graph!outgoingFrom, Accs
  <2>2. read \in Graph!Graph /\ out \subseteq Accs
    BY <1>t, <1>0 DEF Graph!Graph
  <2>r. \A e \in Graph!Pairs : read[e] = IF e[1] = k /\ e[2] \in out THEN edge[e] ELSE scan.rows[e]
    OBVIOUS
  <2>o. \A b \in Accs : b \in out <=> edge[<<k, b>>].recent
    OBVIOUS
  <2> HIDE DEF out, read
  <2>3. /\ scan'.at = scan.at /\ scan'.stack = (scan.stack \cup out) \ (scan.seen \cup {k})
        /\ scan'.seen = scan.seen \cup {k} /\ scan'.rows = read
        /\ scan'.left = scan.left /\ scan'.step = scan.step /\ scan'.quiet = scan.quiet /\ scan'.rings = scan.rings
    BY <1>0, <2>1
  <2>4. scan' \in Graph!Scan
    BY <2>1, <2>2 DEF Graph!Scan, Accs
  <2>5. Graph!MTypeOK'
    BY <1>t, <2>1, <2>4 DEF Graph!MTypeOK
  <2>6. scan.at # None /\ scan.step = "collecting"
    BY <1>f, <2>1
  <2>7. ASSUME scan.quiet PROVE QuietInv'
    <3>1. /\ \A p \in scan.rings : \E a \in Accs : p \in Graph!findCyclesFrom(edge, a)
          /\ \A a \in Graph!hotInboundAccounts :
               a \in scan.left \/ a = scan.at \/ Graph!findCyclesFrom(edge, a) \subseteq scan.rings
          /\ scan.at \in scan.seen \cup scan.stack
          /\ \A e \in Graph!Pairs : Current(e) /\ Followed(e)
      BY <1>f, <2>6, <2>7 DEF QuietInv
    <3>2. Graph!hotInboundAccounts' = Graph!hotInboundAccounts
      BY <2>1 DEF Graph!hotInboundAccounts
    <3>3. ASSUME NEW e \in Graph!Pairs PROVE Current(e)' /\ Followed(e)'
      <4>1. e[1] \in Accs /\ e[2] \in Accs /\ e = <<e[1], e[2]>>
        OBVIOUS
      <4>2. e[1] = k => (e[2] \in out <=> edge[e].recent)
        BY <2>o, <4>1
      <4>3. (scan.rows[e].recent => scan.rows[e] = edge[e])
            /\ (e[1] \in scan.seen /\ edge[e].recent => e[2] \in scan.seen \cup scan.stack /\ scan.rows[e] = edge[e])
        BY <3>1 DEF Current, Followed
      <4>4. read[e].recent => read[e] = edge[e]
        BY <2>r, <4>3
      <4>5. e[1] \in scan.seen \cup {k} /\ edge[e].recent =>
              e[2] \in (scan.seen \cup {k}) \cup ((scan.stack \cup out) \ (scan.seen \cup {k})) /\ read[e] = edge[e]
        BY <2>r, <4>2, <4>3
      <4> QED BY <2>1, <2>3, <4>4, <4>5 DEF Current, Followed
    <3>4. scan'.at \in scan'.seen \cup scan'.stack
      BY <2>3, <3>1
    <3> HIDE DEF Current, Followed
    <3>5. \A a \in Graph!hotInboundAccounts :
               a \in scan'.left \/ a = scan'.at \/ Graph!findCyclesFrom(edge', a) \subseteq scan'.rings
      BY <2>1, <2>3, <3>1
    <3>6. \A p \in scan'.rings : \E a \in Accs : p \in Graph!findCyclesFrom(edge', a)
      BY <2>1, <2>3, <3>1
    <3> QED BY <3>2, <3>3, <3>4, <3>5, <3>6 DEF QuietInv
  <2> QED BY <1>f, <2>3, <2>5, <2>6, <2>7 DEF GraphInv
<1>6. ASSUME Graph!scanMuleRings PROVE GraphInv'
  <2>1. /\ payments' = payments /\ edge' = edge /\ alert' = alert
        /\ scan' = [Graph!NoScan EXCEPT !.step = "collecting", !.left = Graph!hotInboundAccounts]
    BY <1>6 DEF Graph!scanMuleRings
  <2>2. /\ scan'.at = None /\ scan'.stack = {} /\ scan'.step = "collecting"
        /\ scan'.left = Graph!hotInboundAccounts /\ scan'.rings = {}
    BY <2>1 DEF Graph!NoScan
  <2>3. Graph!hotInboundAccounts \subseteq Accs
    BY DEF Graph!hotInboundAccounts, Accs
  <2>4. scan' \in Graph!Scan
    BY <1>n, <2>1, <2>3 DEF Graph!Scan, Graph!NoScan, Accs
  <2>5. Graph!MTypeOK'
    BY <1>t, <2>1, <2>4 DEF Graph!MTypeOK
  <2>6. Graph!hotInboundAccounts' = Graph!hotInboundAccounts
    BY <2>1 DEF Graph!hotInboundAccounts
  <2>7. QuietInv'
    BY <2>2, <2>6 DEF QuietInv
  <2> QED BY <2>2, <2>5, <2>7 DEF GraphInv
<1>7. ASSUME Graph!Searches PROVE GraphInv'
  <2> DEFINE found == Graph!findCyclesFrom(scan.rows, scan.at)
  <2>1. /\ scan.at # None /\ scan.stack = {}
        /\ payments' = payments /\ edge' = edge /\ alert' = alert
        /\ scan' = [scan EXCEPT !.rings = scan.rings \cup found, !.at = None, !.seen = {}, !.rows = Graph!NoEdges]
    BY <1>7 DEF Graph!Searches
  <2>2. scan.step = "collecting" /\ scan.at \in Accs
    BY <1>f, <2>1
  <2>3. found \subseteq Graph!AllPaths
    <3>1. found \subseteq Graph!Paths(scan.at)
      BY DEF Graph!findCyclesFrom
    <3> HIDE DEF found
    <3> QED BY <2>2, <3>1 DEF Graph!AllPaths, Accs
  <2>e. scan.quiet => found = Graph!findCyclesFrom(edge, scan.at)
    BY <1>f, <2>1, <2>2, SearchFinds
  <2> HIDE DEF found
  <2>4. /\ scan'.at = None /\ scan'.stack = {} /\ scan'.rings = scan.rings \cup found
        /\ scan'.left = scan.left /\ scan'.step = scan.step /\ scan'.quiet = scan.quiet
    BY <1>0, <2>1
  <2>5. scan' \in Graph!Scan
    BY <1>n, <2>1, <2>3 DEF Graph!Scan, Accs
  <2>6. Graph!MTypeOK'
    BY <1>t, <2>1, <2>5 DEF Graph!MTypeOK
  <2>7. ASSUME scan.quiet PROVE QuietInv'
    <3>1. /\ \A p \in scan.rings : \E a \in Accs : p \in Graph!findCyclesFrom(edge, a)
          /\ \A a \in Graph!hotInboundAccounts :
               a \in scan.left \/ a = scan.at \/ Graph!findCyclesFrom(edge, a) \subseteq scan.rings
      BY <1>f, <2>2, <2>7 DEF QuietInv
    <3>2. Graph!hotInboundAccounts' = Graph!hotInboundAccounts
      BY <2>1 DEF Graph!hotInboundAccounts
    <3>3. ASSUME NEW p \in scan'.rings PROVE \E a \in Accs : p \in Graph!findCyclesFrom(edge', a)
      <4>1. CASE p \in scan.rings
        BY <2>1, <3>1, <4>1
      <4>2. CASE p \in found
        BY <2>1, <2>2, <2>7, <2>e, <4>2
      <4> QED BY <2>4, <3>3, <4>1, <4>2
    <3>4. ASSUME NEW a \in Graph!hotInboundAccounts
          PROVE  a \in scan'.left \/ a = scan'.at \/ Graph!findCyclesFrom(edge', a) \subseteq scan'.rings
      <4>1. CASE a = scan.at
        BY <2>1, <2>4, <2>7, <2>e, <4>1
      <4>2. CASE a # scan.at
        BY <2>1, <2>4, <3>1, <4>2
      <4> QED BY <4>1, <4>2
    <3> QED BY <2>4, <3>2, <3>3, <3>4 DEF QuietInv
  <2> QED BY <2>2, <2>4, <2>6, <2>7 DEF GraphInv
<1>8. ASSUME Graph!Ends PROVE GraphInv'
  <2>1. /\ scan.step = "collecting" /\ scan.left = {} /\ scan.at = None
        /\ payments' = payments /\ edge' = edge /\ alert' = alert
        /\ scan' = [scan EXCEPT !.step = "found"]
    BY <1>8 DEF Graph!Ends
  <2>2. /\ scan'.at = None /\ scan'.stack = scan.stack /\ scan'.rings = scan.rings
        /\ scan'.left = scan.left /\ scan'.step = "found" /\ scan'.quiet = scan.quiet
    BY <1>0, <2>1
  <2>3. scan' \in Graph!Scan
    BY <2>1 DEF Graph!Scan
  <2>4. Graph!MTypeOK'
    BY <1>t, <2>1, <2>3 DEF Graph!MTypeOK
  <2>5. Graph!hotInboundAccounts' = Graph!hotInboundAccounts
    BY <2>1 DEF Graph!hotInboundAccounts
  <2>6. ASSUME scan.quiet PROVE QuietInv'
    <3>1. QuietInv
      BY <1>f, <2>1, <2>6
    <3> QED BY <2>1, <2>2, <2>5, <3>1 DEF QuietInv
  <2> QED BY <1>f, <2>1, <2>2, <2>4, <2>6 DEF GraphInv
<1>9. ASSUME alert' \subseteq Graph!AllPaths, scan' = Graph!NoScan, payments' = payments, edge' = edge
      PROVE  GraphInv'
  <2>1. Graph!NoScan \in Graph!Scan
    BY <1>n DEF Graph!Scan, Graph!NoScan
  <2>2. Graph!MTypeOK'
    BY <1>t, <1>9, <2>1 DEF Graph!MTypeOK
  <2>3. scan'.step = "idle" /\ scan'.at = None /\ scan'.stack = {}
    BY <1>9 DEF Graph!NoScan
  <2> QED BY <2>2, <2>3 DEF GraphInv
<1>10. ASSUME Graph!persistAlerts PROVE GraphInv'
  BY <1>9, <1>10 DEF Graph!persistAlerts
<1>11. ASSUME Graph!Fails PROVE GraphInv'
  BY <1>9, <1>11, <1>t DEF Graph!Fails
<1> QED BY <1>2, <1>3, <1>4, <1>5, <1>6, <1>7, <1>8, <1>10, <1>11 DEF Graph!MNext, Accs

-----------------------------------------------------------------------------
(* Hash chains.                                                            *)

\* Every row of S names the one of S before it.
Walk(rows, S) == \A n \in S : rows[n].prev = Chain!Max({0} \cup {m \in S : m < n})

\* A transaction sees chains that verify; the number it holds is free, and
\* what it has read is still the last row, unless the chain is overlapped.
WriterOK(w) ==
  /\ writer[w].last # None \/ writer[w].at # 0 => writer[w].todo # << >>
  /\ writer[w].at # 0 =>
       /\ row[writer[w].at] = Chain!NoRow
       /\ Chain!Own(w) = {}
       /\ \A v \in Callers \ {w} : writer[v].at # writer[w].at
  /\ \A ch \in Chain!Chains \ overlapped :
       /\ Walk(row, Chain!Visible(w, ch))
       /\ Head(writer[w].todo) = ch =>
            /\ writer[w].at # 0 => \A m \in Chain!Visible(w, ch) : m < writer[w].at
            /\ writer[w].last # None => writer[w].last = Chain!LastOf(w, ch)

ChainsInv ==
  /\ Chain!HTypeOK
  /\ \A n \in Chain!Numbers : row[n].status = "open" => row[n].chain \in Chain!Chains
  /\ \A w \in Callers : WriterOK(w)
  /\ \A ch \in Chain!Chains \ overlapped : Walk(row, Chain!Committed(ch))

LEMMA MaxIsLast ==
  ASSUME NEW S, S \subseteq 0 .. MaxRows, S # {}
  PROVE  Chain!Max(S) \in S /\ \A m \in S : m <= Chain!Max(S)
<1> DEFINE T == {MaxRows - x : x \in S}
<1>1. T \subseteq Nat /\ T # {}
  <2>1. \A x \in S : MaxRows - x \in Nat
    BY BoundsAssumption
  <2> QED BY <2>1
<1>2. IsWellFoundedOn(OpToRel(<, Nat), Nat)
  BY NatLessThanWellFounded
<1>3. PICK x \in T : \A y \in T : ~ (<<y, x>> \in OpToRel(<, Nat))
  BY <1>1, <1>2, WFMin
<1>4. ASSUME NEW y \in T PROVE x <= y
  <2>1. x \in Nat /\ y \in Nat
    BY <1>1
  <2>2. y < x => <<y, x>> \in OpToRel(<, Nat)
    BY <2>1 DEF OpToRel
  <2>3. ~ (y < x)
    BY <1>3, <2>2, Zenon
  <2> QED BY <2>1, <2>3
<1>5. PICK m \in S : x = MaxRows - m
  OBVIOUS
<1>6. ASSUME NEW y \in S PROVE m >= y
  <2>1. x <= MaxRows - y
    BY <1>4
  <2> QED BY <1>5, <2>1, BoundsAssumption
<1>7. Chain!Max(S) \in S /\ \A y \in S : Chain!Max(S) >= y
  BY <1>6 DEF Chain!Max
<1> QED BY <1>7, BoundsAssumption

LEMMA WalkStays ==
  ASSUME NEW f, NEW g, NEW S, Walk(f, S), \A n \in S : g[n].prev = f[n].prev
  PROVE  Walk(g, S)
  BY DEF Walk

LEMMA WalkGrows ==
  ASSUME NEW f, NEW g, NEW S, S \subseteq Nat, NEW n \in Nat, Walk(f, S),
         \A m \in S : m < n /\ g[m].prev = f[m].prev,
         g[n].prev = Chain!Max({0} \cup S)
  PROVE  Walk(g, S \cup {n})
<1>1. {m \in S \cup {n} : m < n} = S
  <2>1. ~ (n < n)
    OBVIOUS
  <2>2. \A m \in S : m < n
    OBVIOUS
  <2> QED BY <2>1, <2>2
<1>2. ASSUME NEW k \in S PROVE {m \in S \cup {n} : m < k} = {m \in S : m < k}
  <2>1. k \in Nat /\ k < n
    OBVIOUS
  <2>2. ~ (n < k)
    BY <2>1
  <2> QED BY <2>2
<1> QED BY <1>1, <1>2 DEF Walk

\* A number not yet taken is free, and beyond those in use.
LEMMA NextIsFree ==
  ASSUME ChainsInv
  PROVE  /\ Chain!NextNumber \in Nat \ {0}
         /\ \A m \in Chain!Numbers : row[m] # Chain!NoRow => m < Chain!NextNumber
         /\ \A v \in Callers : writer[v].at < Chain!NextNumber
<1>1. Chain!Taken \cup {0} \subseteq 0 .. MaxRows
  BY BoundsAssumption DEF ChainsInv, Chain!HTypeOK, Chain!Taken, Chain!Numbers, Chain!Writer
<1> DEFINE last == Chain!Max(Chain!Taken \cup {0})
<1>2. last \in 0 .. MaxRows /\ \A m \in Chain!Taken : m <= last
  BY <1>1, MaxIsLast
<1>3. Chain!NextNumber = last + 1
  BY DEF Chain!NextNumber
<1> HIDE DEF last
<1>4. /\ \A m \in Chain!Numbers : row[m] # Chain!NoRow => m \in Chain!Taken
      /\ \A v \in Callers : writer[v].at \in Chain!Taken
  BY DEF Chain!Taken
<1>5. \A m \in Chain!Taken : m < Chain!NextNumber
  BY <1>1, <1>2, <1>3, BoundsAssumption
<1> QED BY <1>2, <1>3, <1>4, <1>5, BoundsAssumption

\* Rows that are seen are there.
LEMMA SeenAreThere ==
  ASSUME NEW w \in Callers, NEW ch
  PROVE  /\ Chain!Visible(w, ch) \subseteq Chain!Numbers
         /\ Chain!Own(w) \subseteq Chain!Numbers
         /\ \A m \in Chain!Visible(w, ch) : row[m] # Chain!NoRow
         /\ \A m \in Chain!Own(w) : row[m] # Chain!NoRow
  BY DEF Chain!Visible, Chain!Own, Chain!NoRow

LEMMA ChainsTell == ChainsInv => Chain!ChainsVerifyUnlessOverlapped
  BY DEF ChainsInv, Walk, Chain!ChainsVerifyUnlessOverlapped, Chain!verifyDayChain, Chain!verifyDay,
     Chain!verifyChain, Chain!Verifies, Chain!GENESIS, Chain!Chains

\* What a transaction has to write is a sequence of chains.
LEMMA WhatIsToDo ==
  ASSUME NEW s
  PROVE  s \in UNION {[1 .. n -> Chain!Chains] : n \in 0 .. 2 * MaxJournals}
           <=> s \in Seq(Chain!Chains) /\ Len(s) <= 2 * MaxJournals
<1>1. ASSUME NEW n \in 0 .. 2 * MaxJournals, s \in [1 .. n -> Chain!Chains]
      PROVE  s \in Seq(Chain!Chains) /\ Len(s) <= 2 * MaxJournals
  <2>1. n \in Nat /\ n <= 2 * MaxJournals
    BY BoundsAssumption
  <2>2. s \in Seq(Chain!Chains)
    BY <1>1, <2>1, SeqDef
  <2>3. DOMAIN s = 1 .. n /\ DOMAIN s = 1 .. Len(s) /\ Len(s) \in Nat
    BY <1>1, <2>2, LenProperties
  <2>4. Len(s) = n
    BY <2>1, <2>3
  <2> QED BY <2>1, <2>2, <2>4
<1>2. ASSUME s \in Seq(Chain!Chains), Len(s) <= 2 * MaxJournals
      PROVE  \E n \in 0 .. 2 * MaxJournals : s \in [1 .. n -> Chain!Chains]
  BY <1>2, LenProperties, BoundsAssumption
<1> QED BY <1>1, <1>2

LEMMA IdleIsWriter == Chain!Idle \in Chain!Writer
<1>1. << >> \in Seq(Chain!Chains) /\ Len(<< >>) = 0
  BY EmptySeq
<1>2. Chain!Idle.todo \in UNION {[1 .. n -> Chain!Chains] : n \in 0 .. 2 * MaxJournals}
  BY <1>1, WhatIsToDo, BoundsAssumption DEF Chain!Idle
<1> QED BY <1>2, BoundsAssumption DEF Chain!Idle, Chain!Writer

LEMMA ChainsInitInv == Chain!HInit => ChainsInv
<1> SUFFICES ASSUME Chain!HInit PROVE ChainsInv
  OBVIOUS
<1>1. /\ row = [n \in Chain!Numbers |-> Chain!NoRow]
      /\ writer = [w \in Callers |-> Chain!Idle]
      /\ overlapped = {}
  BY DEF Chain!HInit
<1>2. /\ Chain!Idle.todo = << >> /\ Chain!Idle.last = None /\ Chain!Idle.at = 0
      /\ Chain!NoRow.status = "absent"
  BY DEF Chain!Idle, Chain!NoRow
<1>3. Chain!HTypeOK
  <2>1. Chain!NoRow \in Chain!Row
    BY BoundsAssumption DEF Chain!NoRow, Chain!Row
  <2>2. Chain!Idle \in Chain!Writer
    BY IdleIsWriter
  <2> QED BY <1>1, <2>1, <2>2 DEF Chain!HTypeOK
<1>4. \A w \in Callers : \A ch : Chain!Visible(w, ch) = {} /\ Chain!Own(w) = {} /\ Chain!Committed(ch) = {}
  BY <1>1, <1>2 DEF Chain!Visible, Chain!Own, Chain!Committed
<1>5. \A ch : Chain!Committed(ch) = {}
  BY <1>1, <1>2 DEF Chain!Committed
<1>6. \A n \in Chain!Numbers : row[n].status # "open"
  BY <1>1, <1>2
<1> QED BY <1>1, <1>2, <1>3, <1>4, <1>5, <1>6 DEF ChainsInv, WriterOK, Walk

\* A step of one transaction that writes no row.
LEMMA QuietStepInv ==
  ASSUME ChainsInv, NEW w \in Callers, NEW h \in Chain!Writer,
         writer' = [writer EXCEPT ![w] = h], UNCHANGED <<row, overlapped>>,
         h.last # None \/ h.at # 0 => h.todo # << >>,
         h.at # 0 => /\ row[h.at] = Chain!NoRow
                     /\ Chain!Own(w) = {}
                     /\ \A v \in Callers \ {w} : writer[v].at # h.at,
         \A ch \in Chain!Chains \ overlapped :
           Head(h.todo) = ch =>
             /\ h.at # 0 => \A m \in Chain!Visible(w, ch) : m < h.at
             /\ h.last # None => h.last = Chain!LastOf(w, ch)
  PROVE  ChainsInv'
<1>1. /\ writer'[w] = h /\ \A v \in Callers \ {w} : writer'[v] = writer[v]
      /\ row' = row /\ overlapped' = overlapped
  BY DEF ChainsInv, Chain!HTypeOK
<1>2. /\ \A v \in Callers : \A ch : Chain!Visible(v, ch)' = Chain!Visible(v, ch)
      /\ \A v \in Callers : \A ch : Chain!LastOf(v, ch)' = Chain!LastOf(v, ch)
      /\ \A v \in Callers : Chain!Own(v)' = Chain!Own(v)
      /\ \A ch : Chain!Committed(ch)' = Chain!Committed(ch)
  BY <1>1 DEF Chain!Visible, Chain!LastOf, Chain!Own, Chain!Committed
<1>3. (Chain!HTypeOK)'
  BY <1>1 DEF ChainsInv, Chain!HTypeOK
<1>4. WriterOK(w)'
  <2>1. \A ch \in Chain!Chains \ overlapped : Walk(row, Chain!Visible(w, ch))
    BY DEF ChainsInv, WriterOK
  <2> QED BY <1>1, <1>2, <2>1 DEF WriterOK
<1>5. ASSUME NEW v \in Callers \ {w} PROVE WriterOK(v)'
  <2>1. WriterOK(v)
    BY DEF ChainsInv
  <2>2. writer[v].at # 0 => \A u \in Callers \ {v} : writer'[u].at # writer[v].at
    BY <1>1, <2>1 DEF WriterOK
  <2> QED BY <1>1, <1>2, <2>1, <2>2 DEF WriterOK
<1>6. \A ch \in Chain!Chains \ overlapped' : Walk(row, Chain!Committed(ch))'
  BY <1>1, <1>2 DEF ChainsInv
<1> QED BY <1>1, <1>3, <1>4, <1>5, <1>6 DEF ChainsInv

LEMMA BeginsInv ==
  ASSUME ChainsInv, NEW w \in Callers, NEW chains \in Seq(Chain!Chains), chains # << >>,
         Len(chains) <= 2 * MaxJournals, NEW at \in 0 .. MaxRows,
         at # 0 => at = Chain!NextNumber, Chain!Begins(w, chains, at)
  PROVE  ChainsInv'
<1> DEFINE h == [todo |-> chains, last |-> None, at |-> at]
<1>1. writer' = [writer EXCEPT ![w] = h] /\ UNCHANGED <<row, overlapped>> /\ Chain!Own(w) = {}
  BY DEF Chain!Begins
<1>2. h \in Chain!Writer /\ h.todo = chains /\ h.last = None /\ h.at = at
  BY WhatIsToDo DEF Chain!Writer
<1> HIDE DEF h
<1>3. at # 0 => /\ row[at] = Chain!NoRow
                /\ \A v \in Callers : writer[v].at # at
                /\ \A ch : \A m \in Chain!Visible(w, ch) : m < at
  <2> SUFFICES ASSUME at # 0
               PROVE  /\ row[at] = Chain!NoRow
                      /\ \A v \in Callers : writer[v].at # at
                      /\ \A ch : \A m \in Chain!Visible(w, ch) : m < at
    OBVIOUS
  <2>1. at = Chain!NextNumber /\ at \in Chain!Numbers /\ at \in Nat
    BY BoundsAssumption DEF Chain!Numbers
  <2>2. row[at] = Chain!NoRow
    BY <2>1, NextIsFree
  <2>3. \A v \in Callers : writer[v].at # at
    BY <2>1, NextIsFree
  <2>4. ASSUME NEW ch, NEW m \in Chain!Visible(w, ch) PROVE m < at
    BY <2>1, SeenAreThere, NextIsFree
  <2> QED BY <2>2, <2>3, <2>4
<1> QED BY <1>1, <1>2, <1>3, QuietStepInv

LEMMA ReadsLastInv ==
  ASSUME ChainsInv, NEW w \in Callers, Chain!ReadsLast(w)
  PROVE  ChainsInv'
<1> DEFINE last == Chain!LastOf(w, Head(writer[w].todo))
           h == [writer[w] EXCEPT !.last = last]
<1>1. /\ writer' = [writer EXCEPT ![w] = h] /\ UNCHANGED <<row, overlapped>>
      /\ writer[w].todo # << >> /\ writer[w] \in Chain!Writer /\ WriterOK(w)
  BY DEF Chain!ReadsLast, ChainsInv, Chain!HTypeOK
<1>2. last \in 0 .. MaxRows
  <2>1. {0} \cup Chain!Visible(w, Head(writer[w].todo)) \subseteq 0 .. MaxRows
    BY SeenAreThere, BoundsAssumption DEF Chain!Numbers
  <2> QED BY <2>1, MaxIsLast DEF Chain!LastOf, Chain!GENESIS
<1>3. /\ h \in Chain!Writer /\ h.todo = writer[w].todo /\ h.at = writer[w].at
      /\ h.last = Chain!LastOf(w, Head(writer[w].todo))
  BY <1>1, <1>2 DEF Chain!Writer
<1> HIDE DEF h, last
<1> QED BY <1>1, <1>3, QuietStepInv DEF WriterOK

\* A row is linked to the last one that its transaction sees.
LEMMA LinksInv ==
  ASSUME ChainsInv, NEW w \in Callers, Chain!Links(w)
  PROVE  ChainsInv'
<1>1. PICK n : n = IF writer[w].at # 0 THEN writer[w].at ELSE Chain!NextNumber
  OBVIOUS
<1>2. PICK ch : ch = Head(writer[w].todo)
  OBVIOUS
<1>3. PICK last : last = writer[w].last
  OBVIOUS
<1> DEFINE r == [chain |-> ch, prev |-> last, by |-> w, status |-> "open"]
           h == [todo |-> Tail(writer[w].todo), last |-> None, at |-> 0]
<1>4. /\ last # None /\ n \in Chain!Numbers
      /\ row' = [row EXCEPT ![n] = r]
      /\ writer' = [writer EXCEPT ![w] = h]
      /\ overlapped' = overlapped
  BY <1>1, <1>2, <1>3 DEF Chain!Links
<1>5. /\ row \in [Chain!Numbers -> Chain!Row] /\ writer \in [Callers -> Chain!Writer]
      /\ overlapped \subseteq Chain!Chains
      /\ \A v \in Callers : WriterOK(v)
  BY DEF ChainsInv, Chain!HTypeOK
<1>6. /\ writer[w].todo \in Seq(Chain!Chains) /\ Len(writer[w].todo) <= 2 * MaxJournals
      /\ writer[w].todo # << >> /\ last \in 0 .. MaxRows
  BY <1>3, <1>4, <1>5, WhatIsToDo DEF WriterOK, Chain!Writer
<1>7. ch \in Chain!Chains
  BY <1>2, <1>6, HeadTailProperties
<1>8. /\ h \in Chain!Writer /\ h.last = None /\ h.at = 0
  <2>1. Tail(writer[w].todo) \in Seq(Chain!Chains) /\ Len(Tail(writer[w].todo)) <= 2 * MaxJournals
    <3>1. /\ Tail(writer[w].todo) \in Seq(Chain!Chains)
          /\ Len(Tail(writer[w].todo)) = Len(writer[w].todo) - 1
          /\ Len(writer[w].todo) \in Nat
      BY <1>6, HeadTailProperties, LenProperties
    <3> QED BY <1>6, <3>1, BoundsAssumption
  <2>2. Tail(writer[w].todo) \in UNION {[1 .. k -> Chain!Chains] : k \in 0 .. 2 * MaxJournals}
    BY <2>1, WhatIsToDo
  <2> QED BY <2>2, BoundsAssumption DEF Chain!Writer
<1>9. r \in Chain!Row /\ r.chain = ch /\ r.prev = last /\ r.by = w /\ r.status = "open"
  BY <1>6, <1>7 DEF Chain!Row
<1> HIDE DEF r, h
<1>10. /\ row'[n] = r /\ \A m \in Chain!Numbers \ {n} : row'[m] = row[m]
       /\ writer'[w] = h /\ \A v \in Callers \ {w} : writer'[v] = writer[v]
  BY <1>4, <1>5
\* The number is free, and beyond the rows of the chain.
<1>11. /\ row[n] = Chain!NoRow
       /\ \A v \in Callers \ {w} : writer[v].at # 0 => writer[v].at # n
  BY <1>1, <1>4, <1>5, NextIsFree DEF WriterOK
<1>12. ASSUME ch \notin overlapped, NEW m \in Chain!Visible(w, ch) PROVE m < n
  <2>1. CASE writer[w].at # 0
    BY <1>1, <1>2, <1>5, <1>7, <1>12, <2>1 DEF WriterOK
  <2>2. CASE writer[w].at = 0
    BY <1>1, <1>12, <2>2, SeenAreThere, NextIsFree
  <2> QED BY <2>1, <2>2
<1>13. /\ \A v \in Callers : \A d : n \notin Chain!Visible(v, d)
       /\ \A d : n \notin Chain!Committed(d)
       /\ \A v \in Callers : n \notin Chain!Own(v)
  BY <1>11 DEF Chain!Visible, Chain!Committed, Chain!Own, Chain!NoRow
<1>14. ASSUME NEW v \in Callers \ {w} PROVE Chain!Own(v)' = Chain!Own(v)
  BY <1>9, <1>10, <1>13 DEF Chain!Own
<1>15. Chain!Own(w)' = Chain!Own(w) \cup {n}
  BY <1>4, <1>9, <1>10 DEF Chain!Own
<1>16. ASSUME NEW d PROVE Chain!Committed(d)' = Chain!Committed(d)
  BY <1>9, <1>10, <1>13 DEF Chain!Committed
<1>17. ASSUME NEW v \in Callers \ {w}, NEW d PROVE Chain!Visible(v, d)' = Chain!Visible(v, d)
  BY <1>9, <1>10, <1>13, <1>14 DEF Chain!Visible
<1>18. ASSUME NEW d, d # ch PROVE Chain!Visible(w, d)' = Chain!Visible(w, d)
  BY <1>9, <1>10, <1>13, <1>15, <1>18 DEF Chain!Visible
<1>19. Chain!Visible(w, ch)' = Chain!Visible(w, ch) \cup {n}
  BY <1>4, <1>9, <1>10, <1>13, <1>15 DEF Chain!Visible
<1>20. ASSUME NEW v \in Callers, NEW d
       PROVE  \A m \in Chain!Visible(v, d) \cup Chain!Committed(d) : row'[m] = row[m]
  <2>1. Chain!Visible(v, d) \cup Chain!Committed(d) \subseteq Chain!Numbers
    BY DEF Chain!Visible, Chain!Committed
  <2> QED BY <1>10, <1>13, <2>1
<1>21. (Chain!HTypeOK)'
  BY <1>4, <1>5, <1>8, <1>9 DEF Chain!HTypeOK
<1>22. ASSUME NEW d \in Chain!Chains \ overlapped PROVE Walk(row', Chain!Committed(d)')
  BY <1>16, <1>20, WalkStays DEF ChainsInv
<1>23. ASSUME NEW v \in Callers \ {w} PROVE WriterOK(v)'
  <2>1. /\ WriterOK(v) /\ writer'[v] = writer[v]
    BY <1>5, <1>10
  <2>2. \A d \in Chain!Chains \ overlapped : Walk(row', Chain!Visible(v, d)')
    BY <1>17, <1>20, <2>1, WalkStays DEF WriterOK
  <2>3. ASSUME writer[v].at # 0
        PROVE  /\ row'[writer[v].at] = Chain!NoRow
               /\ \A u \in Callers \ {v} : writer'[u].at # writer[v].at
    <3>1. writer[v].at \in Chain!Numbers \ {n}
      BY <1>5, <1>11, <2>3, BoundsAssumption DEF Chain!Writer, Chain!Numbers
    <3>2. row'[writer[v].at] = row[writer[v].at]
      BY <1>10, <3>1
    <3> QED BY <1>8, <1>10, <2>1, <2>3, <3>2 DEF WriterOK
  <2>4. \A d : Chain!LastOf(v, d)' = Chain!LastOf(v, d)
    BY <1>17 DEF Chain!LastOf
  <2> QED BY <1>4, <1>14, <1>17, <2>1, <2>2, <2>3, <2>4 DEF WriterOK
<1>24. WriterOK(w)'
  <2>1. ASSUME NEW d \in Chain!Chains \ overlapped, d # ch PROVE Walk(row', Chain!Visible(w, d)')
    BY <1>5, <1>18, <1>20, <2>1, WalkStays DEF WriterOK
  <2>2. ASSUME ch \notin overlapped PROVE Walk(row', Chain!Visible(w, ch)')
    <3>1. Walk(row, Chain!Visible(w, ch)) /\ last = Chain!LastOf(w, ch)
      BY <1>2, <1>3, <1>4, <1>5, <1>7, <2>2 DEF WriterOK
    <3>2. last = Chain!Max({0} \cup Chain!Visible(w, ch))
      BY <3>1 DEF Chain!LastOf, Chain!GENESIS
    <3>3. Chain!Visible(w, ch) \subseteq Nat /\ n \in Nat
      BY <1>4, SeenAreThere DEF Chain!Numbers
    <3>4. \A m \in Chain!Visible(w, ch) : m < n /\ row'[m].prev = row[m].prev
      BY <1>12, <1>20, <2>2
    <3>5. row'[n].prev = last
      BY <1>9, <1>10
    <3> QED BY <1>19, <3>1, <3>2, <3>3, <3>4, <3>5, WalkGrows
  <2> QED BY <1>4, <1>8, <1>10, <2>1, <2>2 DEF WriterOK
<1>25. \A m \in Chain!Numbers : row'[m].status = "open" => row'[m].chain \in Chain!Chains
  BY <1>7, <1>9, <1>10 DEF ChainsInv
<1> QED BY <1>4, <1>21, <1>22, <1>23, <1>24, <1>25 DEF ChainsInv

\* Where two transactions do not overlap the rows of the one that commits
\* extend what the others see.
LEMMA CommitsInv ==
  ASSUME ChainsInv, NEW w \in Callers, Chain!Commits(w)
  PROVE  ChainsInv'
<1>1. /\ row' = [n \in Chain!Numbers |-> IF n \in Chain!Own(w)
                                          THEN [row[n] EXCEPT !.status = "committed", !.by = None]
                                          ELSE row[n]]
      /\ overlapped' = overlapped \cup
           ({row[n].chain : n \in Chain!Own(w)} \cap UNION {Chain!BoundBy(v) : v \in Callers \ {w}})
      /\ writer' = writer /\ writer[w].todo = << >>
  BY DEF Chain!Commits
<1>2. /\ row \in [Chain!Numbers -> Chain!Row] /\ writer \in [Callers -> Chain!Writer]
      /\ overlapped \subseteq Chain!Chains
      /\ \A v \in Callers : WriterOK(v)
      /\ \A n \in Chain!Numbers : row[n] \in Chain!Row
  BY DEF ChainsInv, Chain!HTypeOK
<1>3. \A n \in Chain!Own(w) : n \in Chain!Numbers /\ row[n].by = w /\ row[n].status = "open"
  BY DEF Chain!Own
<1>4. /\ \A n \in Chain!Own(w) : /\ row'[n].status = "committed" /\ row'[n] \in Chain!Row
                                 /\ row'[n].chain = row[n].chain /\ row'[n].prev = row[n].prev
      /\ \A n \in Chain!Numbers \ Chain!Own(w) : row'[n] = row[n]
  BY <1>1, <1>2, <1>3 DEF Chain!Row
<1>5. \A v \in Callers \ {w} : Chain!Own(v)' = Chain!Own(v) /\ Chain!Own(v) \cap Chain!Own(w) = {}
  <2>1. ASSUME NEW v \in Callers \ {w} PROVE Chain!Own(v) \cap Chain!Own(w) = {}
    BY DEF Chain!Own
  <2>2. ASSUME NEW v \in Callers \ {w} PROVE Chain!Own(v)' = Chain!Own(v)
    BY <1>3, <1>4 DEF Chain!Own
  <2> QED BY <2>1, <2>2
<1>6. Chain!Own(w)' = {}
  BY <1>4 DEF Chain!Own
<1>7. ASSUME NEW d PROVE Chain!Committed(d)' = Chain!Visible(w, d)
  BY <1>3, <1>4 DEF Chain!Committed, Chain!Visible
<1>8. ASSUME NEW v \in Callers, NEW d
      PROVE  Chain!Visible(v, d) \subseteq Chain!Visible(v, d)' /\ Chain!Committed(d) \subseteq Chain!Committed(d)'
  BY <1>3, <1>4, <1>5 DEF Chain!Committed, Chain!Visible
<1>9. ASSUME NEW d, NEW n \in Chain!Numbers PROVE row'[n].prev = row[n].prev
  BY <1>4, <1>9
<1>10. overlapped' \subseteq Chain!Chains /\ overlapped \subseteq overlapped'
  BY <1>1, <1>2, <1>3 DEF ChainsInv
<1>11. (Chain!HTypeOK)'
  BY <1>1, <1>2, <1>4, <1>10 DEF Chain!HTypeOK
<1>12. ASSUME NEW d \in Chain!Chains \ overlapped'
       PROVE  Walk(row', Chain!Committed(d)')
  <2>1. Walk(row, Chain!Visible(w, d))
    BY <1>2, <1>10 DEF WriterOK
  <2>2. \A n \in Chain!Visible(w, d) : row'[n].prev = row[n].prev
    BY <1>9, SeenAreThere
  <2> QED BY <1>7, <2>1, <2>2, WalkStays
\* What another transaction sees of a chain is as before, or it had no part in it.
<1>13. ASSUME NEW v \in Callers \ {w}, NEW d \in Chain!Chains \ overlapped'
       PROVE  \/ Chain!Visible(v, d)' = Chain!Visible(v, d)
              \/ d \notin Chain!BoundBy(v) /\ Chain!Visible(v, d)' = Chain!Committed(d)'
  <2>1. CASE \E n \in Chain!Own(w) : row[n].chain = d
    <3>1. d \notin Chain!BoundBy(v)
      BY <1>1, <1>13, <2>1
    <3>2. \A n \in Chain!Own(v) : row[n].chain # d
      BY <3>1 DEF Chain!BoundBy
    <3>3. \A n \in Chain!Own(v)' : row'[n].chain # d
      BY <1>4, <1>5, <3>2, SeenAreThere
    <3> QED BY <3>1, <3>3 DEF Chain!Visible, Chain!Committed
  <2>2. CASE \A n \in Chain!Own(w) : row[n].chain # d
    BY <1>4, <1>5, <2>2 DEF Chain!Visible
  <2> QED BY <2>1, <2>2
<1>14. ASSUME NEW v \in Callers \ {w} PROVE WriterOK(v)'
  <2>1. WriterOK(v) /\ writer'[v] = writer[v]
    BY <1>1, <1>2
  <2>2. ASSUME NEW d \in Chain!Chains \ overlapped' PROVE Walk(row', Chain!Visible(v, d)')
    <3>1. CASE Chain!Visible(v, d)' = Chain!Visible(v, d)
      <4>1. Walk(row, Chain!Visible(v, d)) /\ \A n \in Chain!Visible(v, d) : row'[n].prev = row[n].prev
        BY <1>9, <1>10, <2>1, SeenAreThere DEF WriterOK
      <4> QED BY <3>1, <4>1, WalkStays
    <3>2. CASE Chain!Visible(v, d)' = Chain!Committed(d)'
      BY <1>12, <3>2
    <3> QED BY <1>13, <3>1, <3>2
  <2>3. ASSUME writer[v].at # 0
        PROVE  row'[writer[v].at] = Chain!NoRow
    <3>1. writer[v].at \in Chain!Numbers /\ row[writer[v].at] = Chain!NoRow
      BY <1>2, <2>1, <2>3, BoundsAssumption DEF WriterOK, Chain!Writer, Chain!Numbers
    <3> QED BY <1>3, <1>4, <3>1 DEF Chain!NoRow
  <2>4. ASSUME NEW d \in Chain!Chains \ overlapped', Head(writer[v].todo) = d,
               writer[v].last # None \/ writer[v].at # 0
        PROVE  /\ Chain!Visible(v, d)' = Chain!Visible(v, d)
               /\ Chain!LastOf(v, d)' = Chain!LastOf(v, d)
    <3>1. d \in Chain!BoundBy(v)
      BY <2>4 DEF Chain!BoundBy
    <3>2. Chain!Visible(v, d)' = Chain!Visible(v, d)
      BY <1>13, <3>1
    <3> QED BY <3>2 DEF Chain!LastOf
  <2> QED BY <1>1, <1>5, <1>10, <2>1, <2>2, <2>3, <2>4 DEF WriterOK
<1>15. WriterOK(w)'
  <2>1. writer[w].last = None /\ writer[w].at = 0
    BY <1>1, <1>2 DEF WriterOK
  <2>2. \A d : Chain!Visible(w, d)' = Chain!Committed(d)'
    BY <1>6 DEF Chain!Visible, Chain!Committed
  <2> QED BY <1>1, <1>12, <2>1, <2>2 DEF WriterOK
<1>16. \A m \in Chain!Numbers : row'[m].status = "open" => row'[m].chain \in Chain!Chains
  BY <1>4 DEF ChainsInv
<1> QED BY <1>11, <1>12, <1>14, <1>15, <1>16 DEF ChainsInv

LEMMA RollsBackInv ==
  ASSUME ChainsInv, NEW w \in Callers, Chain!RollsBack(w)
  PROVE  ChainsInv'
<1>1. /\ row' = [n \in Chain!Numbers |-> IF n \in Chain!Own(w) THEN Chain!Lost ELSE row[n]]
      /\ writer' = [writer EXCEPT ![w] = Chain!Idle]
      /\ overlapped' = overlapped
  BY DEF Chain!RollsBack
<1>2. /\ row \in [Chain!Numbers -> Chain!Row] /\ writer \in [Callers -> Chain!Writer]
      /\ overlapped \subseteq Chain!Chains
      /\ \A v \in Callers : WriterOK(v)
  BY DEF ChainsInv, Chain!HTypeOK
<1>3. \A n \in Chain!Own(w) : n \in Chain!Numbers /\ row[n].by = w /\ row[n].status = "open"
  BY DEF Chain!Own
<1>4. Chain!Lost \in Chain!Row /\ Chain!Lost.status = "undone"
  BY BoundsAssumption DEF Chain!Lost, Chain!NoRow, Chain!Row
<1>5. /\ \A n \in Chain!Own(w) : row'[n].status = "undone"
      /\ \A n \in Chain!Numbers \ Chain!Own(w) : row'[n] = row[n]
      /\ writer'[w] = Chain!Idle /\ \A v \in Callers \ {w} : writer'[v] = writer[v]
  BY <1>1, <1>2, <1>3, <1>4
<1>6. ASSUME NEW v \in Callers \ {w} PROVE Chain!Own(v)' = Chain!Own(v) /\ Chain!Own(v) \cap Chain!Own(w) = {}
  <2>1. Chain!Own(v) \cap Chain!Own(w) = {}
    BY DEF Chain!Own
  <2> QED BY <1>3, <1>5, <2>1 DEF Chain!Own
<1>7. Chain!Own(w)' = {}
  BY <1>5 DEF Chain!Own
<1>8. ASSUME NEW d PROVE Chain!Committed(d)' = Chain!Committed(d) /\ Chain!Committed(d) \cap Chain!Own(w) = {}
  BY <1>3, <1>5 DEF Chain!Committed
<1>9. ASSUME NEW v \in Callers \ {w}, NEW d
      PROVE  Chain!Visible(v, d)' = Chain!Visible(v, d) /\ Chain!Visible(v, d) \cap Chain!Own(w) = {}
  BY <1>3, <1>5, <1>6 DEF Chain!Visible
<1>10. \A d : Chain!Visible(w, d)' = Chain!Committed(d)'
  BY <1>7 DEF Chain!Visible, Chain!Committed
<1>11. (Chain!HTypeOK)'
  BY <1>1, <1>2, <1>4, IdleIsWriter DEF Chain!HTypeOK
<1>12. ASSUME NEW d \in Chain!Chains \ overlapped
       PROVE  Walk(row', Chain!Committed(d)')
  <2>1. Walk(row, Chain!Committed(d)) /\ \A n \in Chain!Committed(d) : row'[n].prev = row[n].prev
    BY <1>5, <1>8 DEF ChainsInv, Chain!Committed
  <2> QED BY <1>8, <2>1, WalkStays
<1>13. ASSUME NEW v \in Callers \ {w} PROVE WriterOK(v)'
  <2>1. WriterOK(v) /\ writer'[v] = writer[v]
    BY <1>2, <1>5
  <2>2. ASSUME NEW d \in Chain!Chains \ overlapped PROVE Walk(row', Chain!Visible(v, d)')
    <3>1. Walk(row, Chain!Visible(v, d)) /\ \A n \in Chain!Visible(v, d) : row'[n].prev = row[n].prev
      BY <1>5, <1>9, <2>1, SeenAreThere DEF WriterOK
    <3> QED BY <1>9, <3>1, WalkStays
  <2>3. ASSUME writer[v].at # 0
        PROVE  /\ row'[writer[v].at] = Chain!NoRow
               /\ \A u \in Callers \ {v} : writer'[u].at # writer[v].at
    <3>1. writer[v].at \in Chain!Numbers /\ row[writer[v].at] = Chain!NoRow
      BY <1>2, <2>1, <2>3, BoundsAssumption DEF WriterOK, Chain!Writer, Chain!Numbers
    <3>2. row'[writer[v].at] = Chain!NoRow
      BY <1>3, <1>5, <3>1 DEF Chain!NoRow
    <3>3. Chain!Idle.at = 0
      BY DEF Chain!Idle
    <3> QED BY <1>5, <2>1, <2>3, <3>2, <3>3 DEF WriterOK
  <2>4. \A d : Chain!LastOf(v, d)' = Chain!LastOf(v, d)
    BY <1>9 DEF Chain!LastOf
  <2> QED BY <1>1, <1>6, <1>9, <2>1, <2>2, <2>3, <2>4 DEF WriterOK
<1>14. WriterOK(w)'
  <2>1. writer'[w].last = None /\ writer'[w].at = 0
    BY <1>5 DEF Chain!Idle
  <2> QED BY <1>1, <1>10, <1>12, <2>1 DEF WriterOK
<1>15. \A m \in Chain!Numbers : row'[m].status = "open" => row'[m].chain \in Chain!Chains
  BY <1>5 DEF ChainsInv
<1> QED BY <1>1, <1>11, <1>12, <1>13, <1>14, <1>15 DEF ChainsInv

\* What postJournal writes: each journal is followed by its audit event.
LEMMA JournalsToDo ==
  ASSUME NEW k \in 1 .. MaxJournals, NEW dates \in [1 .. k -> Dates]
  PROVE  LET s == [i \in 1 .. 2 * Len(dates) |-> IF i % 2 = 1 THEN dates[(i + 1) \div 2] ELSE Day]
         IN  s \in Seq(Chain!Chains) /\ s # << >> /\ Len(s) <= 2 * MaxJournals
<1>1. k \in Nat \ {0} /\ k <= MaxJournals
  BY BoundsAssumption
<1>2. dates \in Seq(Dates)
  BY <1>1, SeqDef
<1>3. Len(dates) = k
  <2>1. DOMAIN dates = 1 .. k /\ DOMAIN dates = 1 .. Len(dates) /\ Len(dates) \in Nat
    BY <1>2, LenProperties
  <2> QED BY <1>1, <2>1
<1> DEFINE e(i) == IF i % 2 = 1 THEN dates[(i + 1) \div 2] ELSE Day
           s == [i \in 1 .. 2 * k |-> e(i)]
<1>4. ASSUME NEW i \in 1 .. 2 * k PROVE e(i) \in Chain!Chains
  <2>1. CASE i % 2 = 1
    <3>1. (i + 1) \div 2 \in 1 .. k
      BY <1>1, <2>1
    <3> QED BY <2>1, <3>1 DEF Chain!Chains
  <2>2. CASE i % 2 # 1
    BY <2>2 DEF Chain!Chains
  <2> QED BY <2>1, <2>2
<1>5. 2 * k \in Nat \ {0} /\ 2 * k <= 2 * MaxJournals
  BY <1>1, BoundsAssumption
<1>6. s \in [1 .. 2 * k -> Chain!Chains]
  BY <1>4
<1> HIDE DEF s
<1>7. s \in Seq(Chain!Chains)
  BY <1>5, <1>6, SeqDef
<1>8. Len(s) = 2 * k
  <2>1. DOMAIN s = 1 .. 2 * k /\ DOMAIN s = 1 .. Len(s) /\ Len(s) \in Nat
    BY <1>6, <1>7, LenProperties
  <2> QED BY <1>5, <2>1
<1>9. s # << >>
  BY <1>5, <1>8, EmptySeq
<1> QED BY <1>3, <1>5, <1>7, <1>8, <1>9 DEF s

LEMMA ChainsStepInv ==
  ASSUME ChainsInv, Chain!HNext
  PROVE  ChainsInv'
<1>1. PICK w \in Callers :
        \/ \E k \in 1 .. MaxJournals : \E dates \in [1 .. k -> Dates] : Chain!postJournal(w, dates)
        \/ Chain!recordAudit(w)
        \/ \E case \in Cases : Chain!uploadEvidence(w, case)
        \/ Chain!ReadsLast(w) \/ Chain!Links(w) \/ Chain!Commits(w) \/ Chain!RollsBack(w)
  BY DEF Chain!HNext
<1>2. ASSUME NEW k \in 1 .. MaxJournals, NEW dates \in [1 .. k -> Dates], Chain!postJournal(w, dates)
      PROVE  ChainsInv'
  <2>1. PICK s : s = [i \in 1 .. 2 * Len(dates) |-> IF i % 2 = 1 THEN dates[(i + 1) \div 2] ELSE Day]
    OBVIOUS
  <2>2. s \in Seq(Chain!Chains) /\ s # << >> /\ Len(s) <= 2 * MaxJournals
    BY <2>1, JournalsToDo
  <2>3. Chain!Begins(w, s, 0)
    BY <1>2, <2>1 DEF Chain!postJournal
  <2>4. 0 \in 0 .. MaxRows
    BY BoundsAssumption
  <2> QED BY <2>2, <2>3, <2>4, BeginsInv
<1>3. CASE Chain!recordAudit(w)
  <2>1. <<Day>> \in Seq(Chain!Chains) /\ <<Day>> # << >> /\ Len(<<Day>>) <= 2 * MaxJournals
    BY BoundsAssumption DEF Chain!Chains
  <2>2. 0 \in 0 .. MaxRows /\ Chain!Begins(w, <<Day>>, 0)
    BY <1>3, BoundsAssumption DEF Chain!recordAudit
  <2> QED BY <2>1, <2>2, BeginsInv
<1>4. ASSUME NEW case \in Cases, Chain!uploadEvidence(w, case)
      PROVE  ChainsInv'
  <2>1. <<case, Day>> \in Seq(Chain!Chains) /\ <<case, Day>> # << >> /\ Len(<<case, Day>>) <= 2 * MaxJournals
    BY BoundsAssumption DEF Chain!Chains
  <2>2. Chain!NextNumber \in 0 .. MaxRows /\ Chain!Begins(w, <<case, Day>>, Chain!NextNumber)
    BY <1>4, BoundsAssumption DEF Chain!uploadEvidence, Chain!Numbers
  <2> QED BY <2>1, <2>2, BeginsInv
<1> QED BY <1>1, <1>2, <1>3, <1>4, ReadsLastInv, LinksInv, CommitsInv, RollsBackInv

-----------------------------------------------------------------------------
(* Reconciliation.                                                         *)

Seen(r) == {t \in Things : run[r].rail[t] # "none"}
Differ(r) == {t \in Things : Recon!BreakOf(run[r].rail[t], run[r].feed[t]) # None}

\* What a run has read is what there was, but for what moved and what was
\* feigned, and what it has stored is where the sides differ.
RunOK(r) ==
  /\ run[r].step = "running" => \A t \in Things \ moved[r] : run[r].rail[t] = tx[t]
  /\ run[r].step \in {"fetched", "completed"} =>
       /\ feigned[r] \ moved[r] \subseteq Differ(r)
       /\ Differ(r) \subseteq feigned[r] \cup moved[r]
  /\ run[r].step = "completed" =>
       /\ \A t \in Differ(r) : \E b \in breaks : b.run = r /\ b.tx = t
       /\ run[r].compared = Cardinality(Seen(r))
       /\ run[r].matched = Cardinality(Seen(r) \ Differ(r))

BreakOK(b) ==
  /\ run[b.run].step = "completed"
  /\ b.type = Recon!BreakOf(run[b.run].rail[b.tx], run[b.run].feed[b.tx])
  /\ \A c \in breaks : c.run = b.run /\ c.tx = b.tx => c = b

ReconInv ==
  /\ Recon!CTypeOK
  /\ \A r \in Runs : RunOK(r)
  /\ \A b \in breaks : BreakOK(b)

LEMMA ReconCount == ASSUME NEW S PROVE Recon!Cardinality(S) = Cardinality(S)
  BY DEF Recon!Cardinality, Cardinality

LEMMA BreakTypes ==
  ASSUME NEW rail, NEW fed, Recon!BreakOf(rail, fed) # None
  PROVE  /\ Recon!BreakOf(rail, fed) \in Recon!BREAK_TYPES
         /\ Recon!BreakOf(rail, fed) = "MISSING_AT_RAIL" <=> rail = "none"
<1>1. CASE rail = "none"
  BY <1>1 DEF Recon!BreakOf, Recon!BREAK_TYPES
<1>2. CASE rail # "none" /\ fed = Recon!NoEntry
  BY <1>2 DEF Recon!BreakOf, Recon!BREAK_TYPES
<1>3. CASE rail # "none" /\ fed # Recon!NoEntry /\ fed.amount = "other"
  BY <1>3 DEF Recon!BreakOf, Recon!BREAK_TYPES
<1>4. CASE rail # "none" /\ fed # Recon!NoEntry /\ fed.amount # "other"
  BY <1>4 DEF Recon!BreakOf, Recon!BREAK_TYPES
<1> QED BY <1>1, <1>2, <1>3, <1>4

\* The sides of a transaction that are read in one state match, unless the
\* participant reports it otherwise.
LEMMA ReportedBreaks ==
  ASSUME NEW t \in Things, NEW how \in Deviations \cup {"none"}, tx[t] \in Recon!TxStates,
         Recon!MayReport(t, how)
  PROVE  Recon!BreakOf(tx[t], Recon!Reported(t, how)) = None <=> how = "none"
<1>1. how \in {"missing", "amount", "state", "phantom", "none"}
  BY ReconciliationAssumption
<1>2. how # "none" => (how = "phantom" <=> tx[t] = "none")
  BY DEF Recon!MayReport
<1>3. CASE how = "none"
  <2>1. CASE tx[t] = "none"
    <3>1. Recon!Reported(t, how) = Recon!NoEntry
      BY <1>3, <2>1 DEF Recon!Reported, Recon!Mirror
    <3> QED BY <1>3, <2>1, <3>1 DEF Recon!BreakOf
  <2>2. CASE tx[t] # "none"
    <3>1. Recon!Reported(t, how) = [amount |-> "same", state |-> Recon!Semantic(tx[t])]
      BY <1>3, <2>2 DEF Recon!Reported, Recon!Mirror
    <3>2. Recon!Semantic(tx[t]) # "none"
      BY <2>2 DEF Recon!Semantic
    <3> QED BY <1>3, <2>2, <3>1, <3>2 DEF Recon!BreakOf, Recon!NoEntry
  <2> QED BY <2>1, <2>2
<1>4. CASE how = "phantom"
  BY <1>2, <1>4, ReconciliationAssumption DEF Recon!BreakOf, Recon!Reported, Recon!NoEntry
<1>5. CASE how = "missing"
  BY <1>2, <1>5, ReconciliationAssumption DEF Recon!BreakOf, Recon!Reported, Recon!NoEntry
<1>6. CASE how = "amount"
  <2>1. Recon!Reported(t, how) = [amount |-> "other", state |-> Recon!Semantic(tx[t])]
    BY <1>2, <1>6 DEF Recon!Reported, Recon!Mirror
  <2> QED BY <1>2, <1>6, <2>1, ReconciliationAssumption DEF Recon!BreakOf, Recon!NoEntry
<1>7. CASE how = "state"
  <2>1. Recon!Reported(t, how) = [amount |-> "same", state |-> "else"]
    BY <1>2, <1>7 DEF Recon!Reported, Recon!Mirror
  <2>2. Recon!Semantic(tx[t]) # "else"
    BY DEF Recon!Semantic, Recon!TxStates
  <2> QED BY <1>2, <1>7, <2>1, <2>2, ReconciliationAssumption DEF Recon!BreakOf, Recon!NoEntry
<1> QED BY <1>1, <1>3, <1>4, <1>5, <1>6, <1>7

\* One break per transaction: breaks are counted by their transactions.
LEMMA CountedByTx ==
  ASSUME NEW B, NEW T, IsFiniteSet(T),
         \A b \in B : b.tx \in T,
         \A t \in T : \E b \in B : b.tx = t,
         \A b, c \in B : b.tx = c.tx => b = c
  PROVE  Cardinality(B) = Cardinality(T)
<1> DEFINE f == [t \in T |-> CHOOSE b \in B : b.tx = t]
<1>1. \A t \in T : f[t] \in B /\ f[t].tx = t
  OBVIOUS
<1>2. \A b \in B : f[b.tx] = b
  BY <1>1
<1>3. f \in [T -> B]
  BY <1>1
<1> HIDE DEF f
<1>4. f \in Bijection(T, B)
  BY <1>1, <1>2, <1>3 DEF Bijection, Injection, Surjection, IsInjective
<1>5. ExistsBijection(T, B)
  BY <1>4 DEF ExistsBijection
<1> QED BY <1>5, FS_Bijection

LEMMA ReconTells == ReconInv => Recon!BreaksAreDeviations
<1> SUFFICES ASSUME ReconInv, NEW r \in Runs, run[r].step = "completed"
             PROVE  /\ feigned[r] \ moved[r] \subseteq Recon!BrokenIn(r)
                    /\ Recon!BrokenIn(r) \subseteq feigned[r] \cup moved[r]
                    /\ Cardinality({b \in breaks : b.run = r}) = Cardinality(Recon!BrokenIn(r))
                    /\ run[r].compared - run[r].matched =
                         Cardinality({b \in breaks : b.run = r /\ b.type # "MISSING_AT_RAIL"})
  BY ReconCount DEF Recon!BreaksAreDeviations
<1>1. /\ RunOK(r)
      /\ \A b \in breaks : BreakOK(b) /\ b \in Recon!Break
  BY DEF ReconInv, Recon!CTypeOK
<1>2. \A b \in breaks : b.run = r => b.tx \in Differ(r)
  BY <1>1, ReconciliationAssumption DEF BreakOK, Differ, Recon!Break, Recon!BREAK_TYPES
<1>3. \A t \in Differ(r) : \E b \in breaks : b.run = r /\ b.tx = t
  BY <1>1 DEF RunOK
<1>4. Recon!BrokenIn(r) = Differ(r)
  BY <1>2, <1>3 DEF Recon!BrokenIn
<1>5. \A b, c \in breaks : b.run = r /\ c.run = r /\ b.tx = c.tx => b = c
  BY <1>1 DEF BreakOK
<1>6. /\ IsFiniteSet(Differ(r)) /\ IsFiniteSet(Seen(r))
      /\ IsFiniteSet(Seen(r) \cap Differ(r)) /\ IsFiniteSet(Seen(r) \ Differ(r))
  <2>1. Differ(r) \subseteq Things /\ Seen(r) \subseteq Things
    BY DEF Differ, Seen
  <2> QED BY <2>1, ReconciliationAssumption, FS_Subset, FS_Intersection, FS_Difference
<1>7. Cardinality({b \in breaks : b.run = r}) = Cardinality(Differ(r))
  BY <1>2, <1>3, <1>5, <1>6, CountedByTx
<1>8. Cardinality({b \in breaks : b.run = r /\ b.type # "MISSING_AT_RAIL"}) =
        Cardinality(Seen(r) \cap Differ(r))
  <2>1. \A b \in breaks : b.run = r => (b.type # "MISSING_AT_RAIL" <=> b.tx \in Seen(r))
    <3>1. ASSUME NEW b \in breaks, b.run = r
          PROVE  b.type # "MISSING_AT_RAIL" <=> b.tx \in Seen(r)
      <4>1. /\ b.type = Recon!BreakOf(run[r].rail[b.tx], run[r].feed[b.tx])
            /\ b.type # None /\ b.tx \in Things
        BY <1>1, <3>1, ReconciliationAssumption DEF BreakOK, Recon!Break, Recon!BREAK_TYPES
      <4> QED BY <4>1, BreakTypes DEF Seen
    <3> QED BY <3>1
  <2> DEFINE B == {b \in breaks : b.run = r /\ b.type # "MISSING_AT_RAIL"}
  <2>2. \A b \in B : b.tx \in Seen(r) \cap Differ(r)
    BY <1>2, <2>1
  <2>3. \A t \in Seen(r) \cap Differ(r) : \E b \in B : b.tx = t
    BY <1>3, <2>1
  <2>4. \A b, c \in B : b.tx = c.tx => b = c
    BY <1>5
  <2> QED BY <1>6, <2>2, <2>3, <2>4, CountedByTx
<1>9. Cardinality(Seen(r)) - Cardinality(Seen(r) \ Differ(r)) = Cardinality(Seen(r) \cap Differ(r))
  <2>1. /\ Seen(r) = (Seen(r) \ Differ(r)) \cup (Seen(r) \cap Differ(r))
        /\ (Seen(r) \ Differ(r)) \cap (Seen(r) \cap Differ(r)) = {}
    OBVIOUS
  <2>2. Cardinality(Seen(r)) = Cardinality(Seen(r) \ Differ(r)) + Cardinality(Seen(r) \cap Differ(r)) - 0
    BY <1>6, <2>1, FS_Union, FS_EmptySet
  <2> QED BY <1>6, <2>2, FS_CardinalityType
<1>10. /\ run[r].compared = Cardinality(Seen(r))
       /\ run[r].matched = Cardinality(Seen(r) \ Differ(r))
       /\ feigned[r] \ moved[r] \subseteq Differ(r)
       /\ Differ(r) \subseteq feigned[r] \cup moved[r]
  BY <1>1 DEF RunOK
<1> QED BY <1>4, <1>7, <1>8, <1>9, <1>10

LEMMA NoRunIsRun == Recon!NoRun \in Recon!Run
<1>1. Cardinality(Things) \in Nat
  BY ReconciliationAssumption, FS_CardinalityType
<1>2. /\ [t \in Things |-> "none"] \in [Things -> Recon!TxStates]
      /\ Recon!NoEntry \in Recon!Entry
      /\ 0 \in 0 .. Recon!Cardinality(Things)
  BY <1>1, ReconCount DEF Recon!TxStates, Recon!NoEntry, Recon!Entry
<1> QED BY <1>2 DEF Recon!NoRun, Recon!Run

LEMMA ReconInitInv == Recon!CInit => ReconInv
<1> SUFFICES ASSUME Recon!CInit PROVE ReconInv
  OBVIOUS
<1>3. /\ run = [r \in Runs |-> Recon!NoRun] /\ breaks = {}
      /\ tx = [t \in Things |-> "none"]
      /\ moved = [r \in Runs |-> {}] /\ feigned = [r \in Runs |-> {}]
  BY DEF Recon!CInit
<1>4. Recon!CTypeOK
  BY <1>3, NoRunIsRun DEF Recon!CTypeOK, Recon!TxStates
<1>5. \A r \in Runs : RunOK(r)
  BY <1>3 DEF RunOK, Recon!NoRun
<1> QED BY <1>3, <1>4, <1>5 DEF ReconInv

\* A step of one run that leaves its breaks.
LEMMA RunStepInv ==
  ASSUME ReconInv, NEW r \in Runs, NEW q \in Recon!Run,
         run' = [run EXCEPT ![r] = q], run[r].step # "completed",
         q.step # "completed", UNCHANGED <<tx, breaks>>,
         moved' \in [Runs -> SUBSET Things], feigned' \in [Runs -> SUBSET Things],
         \A s \in Runs \ {r} : moved'[s] = moved[s] /\ feigned'[s] = feigned[s],
         RunOK(r)'
  PROVE  ReconInv'
<1>1. \A s \in Runs \ {r} : run'[s] = run[s]
  BY DEF ReconInv, Recon!CTypeOK
<1>2. (Recon!CTypeOK)'
  BY DEF ReconInv, Recon!CTypeOK
<1>3. ASSUME NEW s \in Runs \ {r} PROVE RunOK(s)'
  <2>1. Differ(s)' = Differ(s) /\ Seen(s)' = Seen(s)
    BY <1>1 DEF Differ, Seen
  <2> QED BY <1>1, <2>1 DEF ReconInv, RunOK
<1>4. ASSUME NEW b \in breaks PROVE BreakOK(b)'
  <2>1. b.run \in Runs \ {r} /\ BreakOK(b)
    BY DEF ReconInv, BreakOK, Recon!CTypeOK, Recon!Break
  <2> QED BY <1>1, <2>1 DEF BreakOK
<1> QED BY <1>2, <1>3, <1>4 DEF ReconInv

LEMMA ReconStepInv ==
  ASSUME ReconInv, Recon!CNext
  PROVE  ReconInv'
<1>0. /\ tx \in [Things -> Recon!TxStates]
      /\ run \in [Runs -> Recon!Run]
      /\ breaks \subseteq Recon!Break
      /\ moved \in [Runs -> SUBSET Things]
      /\ feigned \in [Runs -> SUBSET Things]
      /\ \A r \in Runs : RunOK(r)
      /\ \A b \in breaks : BreakOK(b) /\ b \in Recon!Break
  BY DEF ReconInv, Recon!CTypeOK
<1>1. ASSUME NEW t \in Things, NEW state \in Recon!TxStates, Recon!Becomes(t, state)
      PROVE  ReconInv'
  <2>1. /\ tx' = [tx EXCEPT ![t] = state]
        /\ moved' = [r \in Runs |-> IF run[r].step = "running" THEN moved[r] \cup {t} ELSE moved[r]]
        /\ UNCHANGED <<run, breaks, feigned>>
    BY <1>1 DEF Recon!Becomes
  <2>2. (Recon!CTypeOK)'
    BY <1>0, <2>1 DEF Recon!CTypeOK
  <2>3. ASSUME NEW r \in Runs PROVE RunOK(r)'
    BY <1>0, <2>1 DEF RunOK, Differ, Seen
  <2>4. ASSUME NEW b \in breaks PROVE BreakOK(b)'
    BY <1>0, <2>1 DEF BreakOK
  <2> QED BY <2>1, <2>2, <2>3, <2>4 DEF ReconInv
<1>2. ASSUME NEW r \in Runs, Recon!Starts(r)
      PROVE  ReconInv'
  <2> DEFINE q == [run[r] EXCEPT !.step = "running", !.rail = Recon!railView]
  <2>1. /\ run' = [run EXCEPT ![r] = q] /\ run[r].step = "absent"
        /\ UNCHANGED <<tx, breaks, moved, feigned>>
    BY <1>0, <1>2 DEF Recon!Starts
  <2>2. q \in Recon!Run /\ q.step = "running" /\ q.rail = tx
    BY <1>0 DEF Recon!Run, Recon!railView
  <2> HIDE DEF q
  <2>3. run'[r] = q
    BY <1>0, <2>1
  <2>4. RunOK(r)'
    BY <2>1, <2>2, <2>3 DEF RunOK
  <2> QED BY <1>0, <2>1, <2>2, <2>4, RunStepInv
<1>3. ASSUME NEW r \in Runs, Recon!fetch(r)
      PROVE  ReconInv'
  <2>1. PICK how \in [Things -> Deviations \cup {"none"}] :
          /\ \A t \in Things : Recon!MayReport(t, how[t])
          /\ run' = [run EXCEPT ![r].step = "fetched",
                                ![r].feed = [t \in Things |-> Recon!Reported(t, how[t])]]
          /\ feigned' = [feigned EXCEPT ![r] = {t \in Things : how[t] # "none"}]
    BY <1>3 DEF Recon!fetch
  <2>2. run[r].step = "running" /\ UNCHANGED <<tx, breaks, moved>>
    BY <1>3 DEF Recon!fetch
  <2> DEFINE feed == [t \in Things |-> Recon!Reported(t, how[t])]
             q == [run[r] EXCEPT !.step = "fetched", !.feed = feed]
  <2>3. \A t \in Things : Recon!Reported(t, how[t]) \in Recon!Entry
    <3>1. ASSUME NEW t \in Things PROVE Recon!Mirror(t) \in Recon!Entry
      BY <1>0 DEF Recon!Mirror, Recon!NoEntry, Recon!Semantic, Recon!Entry
    <3>2. ASSUME NEW t \in Things PROVE Recon!Reported(t, how[t]) \in Recon!Entry
      <4>1. /\ Recon!NoEntry \in Recon!Entry
            /\ [Recon!Mirror(t) EXCEPT !.amount = "other"] \in Recon!Entry
            /\ [Recon!Mirror(t) EXCEPT !.state = "else"] \in Recon!Entry
            /\ [amount |-> "same", state |-> "credited"] \in Recon!Entry
        BY <3>1 DEF Recon!NoEntry, Recon!Entry, Recon!TxStates
      <4>2. \/ Recon!Reported(t, how[t]) \in
                {Recon!NoEntry, [Recon!Mirror(t) EXCEPT !.amount = "other"],
                 [Recon!Mirror(t) EXCEPT !.state = "else"], Recon!Mirror(t),
                 [amount |-> "same", state |-> "credited"]}
        BY DEF Recon!Reported
      <4> QED BY <3>1, <4>1, <4>2
    <3> QED BY <3>2
  <2>4. /\ q \in Recon!Run /\ q.step = "fetched" /\ q.rail = run[r].rail
        /\ \A t \in Things : q.feed[t] = Recon!Reported(t, how[t])
    BY <1>0, <2>3 DEF Recon!Run
  <2>5. run' = [run EXCEPT ![r] = q]
    BY <1>0, <2>1
  <2> HIDE DEF q
  <2>6. run'[r] = q
    BY <1>0, <2>5
  <2>7. \A t \in Things \ moved[r] :
          Recon!BreakOf(q.rail[t], q.feed[t]) = None <=> how[t] = "none"
    <3>1. ASSUME NEW t \in Things \ moved[r] PROVE q.rail[t] = tx[t] /\ tx[t] \in Recon!TxStates
      <4>1. \A u \in Things \ moved[r] : run[r].rail[u] = tx[u]
        BY <1>0, <2>2 DEF RunOK
      <4> QED BY <1>0, <2>4, <4>1
    <3> QED BY <2>1, <2>4, <3>1, ReportedBreaks
  <2>8. feigned' \in [Runs -> SUBSET Things]
    BY <1>0, <2>1
  <2>9. feigned'[r] = {t \in Things : how[t] # "none"}
    BY <1>0, <2>1
  <2>10. Differ(r)' = {t \in Things : Recon!BreakOf(q.rail[t], q.feed[t]) # None}
    BY <2>6 DEF Differ
  <2>11. RunOK(r)'
    BY <1>0, <2>2, <2>4, <2>6, <2>7, <2>9, <2>10 DEF RunOK
  <2> QED BY <1>0, <2>1, <2>2, <2>4, <2>5, <2>8, <2>11, RunStepInv
<1>4. ASSUME NEW r \in Runs, Recon!Fails(r)
      PROVE  ReconInv'
  <2>1. /\ run' = [run EXCEPT ![r] = Recon!NoRun] /\ run[r].step # "completed"
        /\ moved' = [moved EXCEPT ![r] = {}] /\ feigned' = [feigned EXCEPT ![r] = {}]
        /\ UNCHANGED <<tx, breaks>>
    BY <1>4 DEF Recon!Fails
  <2>2. Recon!NoRun \in Recon!Run /\ Recon!NoRun.step = "absent"
    BY NoRunIsRun DEF Recon!NoRun
  <2>3. RunOK(r)'
    BY <1>0, <2>1, <2>2 DEF RunOK
  <2>4. moved' \in [Runs -> SUBSET Things] /\ feigned' \in [Runs -> SUBSET Things]
    BY <1>0, <2>1
  <2> QED BY <1>0, <2>1, <2>2, <2>3, <2>4, RunStepInv
<1>5. ASSUME NEW b \in breaks, NEW resolution \in Recon!RESOLUTIONS, Recon!resolveBreak(b, resolution)
      PROVE  ReconInv'
  <2> DEFINE d == [b EXCEPT !.resolution = resolution]
  <2>1. /\ breaks' = (breaks \ {b}) \cup {d}
        /\ UNCHANGED <<tx, run, moved, feigned>>
    BY <1>5 DEF Recon!resolveBreak
  <2>2. d \in Recon!Break /\ d.run = b.run /\ d.tx = b.tx /\ d.type = b.type
    BY <1>0 DEF Recon!Break
  <2> HIDE DEF d
  <2>3. (Recon!CTypeOK)'
    BY <1>0, <2>1, <2>2 DEF Recon!CTypeOK
  <2>4. ASSUME NEW r \in Runs PROVE RunOK(r)'
    <3>1. Differ(r)' = Differ(r) /\ Seen(r)' = Seen(r)
      BY <2>1 DEF Differ, Seen
    <3>2. \A t : (\E c \in breaks : c.run = r /\ c.tx = t) => \E c \in breaks' : c.run = r /\ c.tx = t
      BY <2>1, <2>2
    <3> QED BY <1>0, <2>1, <3>1, <3>2 DEF RunOK
  <2>5. ASSUME NEW c \in breaks' PROVE BreakOK(c)'
    BY <1>0, <2>1, <2>2 DEF BreakOK
  <2> QED BY <2>3, <2>4, <2>5 DEF ReconInv
<1>6. ASSUME NEW r \in Runs, Recon!completeRun(r)
      PROVE  ReconInv'
  <2>1. PICK n, m :
          /\ n = Cardinality(Seen(r))
          /\ m = Cardinality(Seen(r) \ Differ(r))
    OBVIOUS
  <2>2. {b.tx : b \in Recon!Found(r)} = Differ(r)
    <3>1. ASSUME NEW t \in Differ(r)
          PROVE  \E b \in Recon!Found(r) : b.tx = t
      <4> DEFINE b == [run |-> r, tx |-> t, type |-> Recon!BreakOf(run[r].rail[t], run[r].feed[t]),
                       resolution |-> "pending"]
      <4>1. b \in Recon!Found(r) /\ b.tx = t
        BY <3>1, BreakTypes DEF Recon!Found, Differ
      <4> QED BY <4>1
    <3>2. ASSUME NEW b \in Recon!Found(r)
          PROVE  b.tx \in Differ(r)
      BY ReconciliationAssumption DEF Recon!Found, Differ, Recon!BREAK_TYPES
    <3> QED BY <3>1, <3>2
  <2>3. /\ run' = [run EXCEPT ![r].step = "completed", ![r].compared = n, ![r].matched = m]
        /\ run[r].step = "fetched"
        /\ breaks' = breaks \cup Recon!Found(r)
        /\ UNCHANGED <<tx, moved, feigned>>
    BY <1>6, <2>1, <2>2, ReconCount DEF Recon!completeRun, Seen
  <2>4. n \in 0 .. Cardinality(Things) /\ m \in 0 .. Cardinality(Things)
    <3>1. Seen(r) \subseteq Things /\ Seen(r) \ Differ(r) \subseteq Things
      BY DEF Seen
    <3> QED BY <2>1, <3>1, ReconciliationAssumption, FS_Subset, FS_CardinalityType
  <2> DEFINE q == [run[r] EXCEPT !.step = "completed", !.compared = n, !.matched = m]
  <2>5. /\ q \in Recon!Run /\ q.step = "completed" /\ q.compared = n /\ q.matched = m
        /\ q.rail = run[r].rail /\ q.feed = run[r].feed
    BY <1>0, <2>4, ReconCount DEF Recon!Run
  <2>6. run' = [run EXCEPT ![r] = q]
    BY <1>0, <2>3
  <2> HIDE DEF q
  <2>7. /\ run'[r] = q /\ \A s \in Runs \ {r} : run'[s] = run[s]
        /\ \A s \in Runs : Differ(s)' = Differ(s) /\ Seen(s)' = Seen(s)
    BY <1>0, <2>5, <2>6 DEF Differ, Seen
  <2>8. \A b \in Recon!Found(r) :
          /\ b \in Recon!Break /\ b.run = r /\ b.tx \in Things /\ b.resolution = "pending"
          /\ b.type = Recon!BreakOf(run[r].rail[b.tx], run[r].feed[b.tx])
    BY DEF Recon!Found, Recon!Break, Recon!RESOLUTIONS
  <2>9. \A b \in breaks : b.run \in Runs \ {r}
    BY <1>0, <2>3 DEF BreakOK, Recon!Break
  <2>10. \A b, c \in Recon!Found(r) : b.tx = c.tx => b = c
    BY DEF Recon!Found
  <2>11. (Recon!CTypeOK)'
    <3>1. run' \in [Runs -> Recon!Run]
      BY <1>0, <2>5, <2>6
    <3>2. breaks' \subseteq Recon!Break
      BY <1>0, <2>3, <2>8
    <3> QED BY <1>0, <2>3, <3>1, <3>2 DEF Recon!CTypeOK
  <2>12. RunOK(r)'
    <3>1. \A t \in Differ(r) : \E b \in breaks' : b.run = r /\ b.tx = t
      BY <2>2, <2>3, <2>8
    <3>2. feigned[r] \ moved[r] \subseteq Differ(r) /\ Differ(r) \subseteq feigned[r] \cup moved[r]
      BY <1>0, <2>3 DEF RunOK
    <3> QED BY <2>1, <2>3, <2>5, <2>7, <3>1, <3>2 DEF RunOK
  <2>13. ASSUME NEW s \in Runs \ {r} PROVE RunOK(s)'
    <3>1. \A t : (\E c \in breaks : c.run = s /\ c.tx = t) => \E c \in breaks' : c.run = s /\ c.tx = t
      BY <2>3
    <3>2. /\ run'[s] = run[s] /\ Differ(s)' = Differ(s) /\ Seen(s)' = Seen(s)
          /\ moved'[s] = moved[s] /\ feigned'[s] = feigned[s] /\ tx' = tx /\ RunOK(s)
      BY <1>0, <2>3, <2>7
    <3> QED BY <3>1, <3>2 DEF RunOK
  <2>14. ASSUME NEW b \in breaks' PROVE BreakOK(b)'
    <3>1. CASE b \in breaks
      <4>1. \A c \in breaks' : c.run = b.run /\ c.tx = b.tx => c = b
        BY <1>0, <2>3, <2>8, <2>9, <3>1 DEF BreakOK
      <4> QED BY <1>0, <2>7, <2>9, <3>1, <4>1 DEF BreakOK
    <3>2. CASE b \in Recon!Found(r)
      <4>1. \A c \in breaks' : c.run = b.run /\ c.tx = b.tx => c = b
        BY <2>3, <2>8, <2>9, <2>10, <3>2
      <4> QED BY <2>5, <2>7, <2>8, <3>2, <4>1 DEF BreakOK
    <3> QED BY <2>3, <3>1, <3>2
  <2> QED BY <2>11, <2>12, <2>13, <2>14 DEF ReconInv
<1> QED BY <1>1, <1>2, <1>3, <1>4, <1>5, <1>6 DEF Recon!CNext

-----------------------------------------------------------------------------
(* Prices and books.                                                       *)

IsList(s) == s \in Seq({s[q] : q \in DOMAIN s})

QuoteStates == {"OPEN", "CONSUMED", "EXPIRED", "REJECTED_SLIPPAGE"}

\* Next to the properties: of what there is a quote, and what a row of a
\* transfer may be.
FxInv ==
  /\ Fx!FTypeOK
  /\ Fx!BooksTellTheTransfers
  /\ IsList(quote) /\ IsList(market)
  /\ \A q \in DOMAIN quote :
       quote[q] \in [state : QuoteStates, pay : {quote[q].pay}, receive : {quote[q].receive},
                     by : Things \cup {None}, answer : {quote[q].answer}]
  /\ transfer \in [Things -> [state : {"ABSENT", "REJECTED", "CREDIT_LEG_PENDING", "CONFIRMED"},
                              quote : {None} \cup 1 .. MaxQuotes, pay : Nat, receive : Nat,
                              xb : {"ABSENT", "FOREIGN_INSTRUCTING", "CONFIRMED", "REJECTED", "FAILED"},
                              legs : 0 .. 2]]

TransferRow == [state : {"ABSENT", "REJECTED", "CREDIT_LEG_PENDING", "CONFIRMED"},
                quote : {None} \cup 1 .. MaxQuotes, pay : Nat, receive : Nat,
                xb : {"ABSENT", "FOREIGN_INSTRUCTING", "CONFIRMED", "REJECTED", "FAILED"},
                legs : 0 .. 2]

Pays(f) == [t \in Things |-> f[t].pay]
Receives(f) == [t \in Things |-> f[t].receive]
Live(f) == {t \in Things : f[t].xb \notin {"ABSENT", "REJECTED"}}
Half(f) == {t \in Things : f[t].xb = "ABSENT" /\ f[t].legs = 1}
Debt(f) == SumFunctionOnSet(Pays(f), Live(f) \cup Half(f))
Owed(f) == SumFunctionOnSet(Receives(f), Live(f))
Books(debt, owed) ==
  [PARTICIPANT_SETTLEMENT |-> -debt, FX_NOSTRO_PAY |-> debt, FX_NOSTRO_RECEIVE |-> -owed,
   FOREIGN_RAIL_NOSTRO |-> owed]

LEMMA BooksAre ==
  /\ Fx!BooksTellTheTransfers <=> balance = Books(Debt(transfer), Owed(transfer))
  /\ Fx!BooksTellTheTransfers' <=> balance' = Books(Debt(transfer'), Owed(transfer'))
  BY DEF Fx!BooksTellTheTransfers, Books, Debt, Owed, Live, Half, Pays, Receives,
     Fx!SumFunctionOnSet, SumFunctionOnSet, Fx!FoldFunctionOnSet, FoldFunctionOnSet,
     Fx!MapThenFoldSet, MapThenFoldSet

LEMMA LiveAreFinite ==
  ASSUME NEW f
  PROVE  IsFiniteSet(Live(f)) /\ IsFiniteSet(Live(f) \cup Half(f))
  BY FxAssumption, FS_Subset DEF Live, Half

LEMMA DebtType ==
  ASSUME NEW f \in [Things -> TransferRow]
  PROVE  Debt(f) \in Int /\ Owed(f) \in Int
<1>1. \A t \in Things : Pays(f)[t] \in Int /\ Receives(f)[t] \in Int
  BY DEF Pays, Receives, TransferRow
<1>2. Live(f) \subseteq Things /\ Half(f) \subseteq Things
  BY DEF Live, Half
<1> QED BY <1>1, <1>2, LiveAreFinite, SumType DEF Debt, Owed

\* What t leaves and what it adds when its row, and no other, changes.
LEMMA SumsChange ==
  ASSUME NEW f \in [Things -> TransferRow], NEW g \in [Things -> TransferRow], NEW t \in Things,
         \A u \in Things \ {t} : g[u] = f[u]
  PROVE  /\ t \notin Live(f) \cup Half(f) /\ t \in Live(g) =>
              Debt(g) = Debt(f) + g[t].pay /\ Owed(g) = Owed(f) + g[t].receive
         /\ t \notin Live(f) \cup Half(f) /\ t \in Half(g) =>
              Debt(g) = Debt(f) + g[t].pay /\ Owed(g) = Owed(f)
         /\ t \notin Live(f) \cup Half(f) /\ t \notin Live(g) \cup Half(g) =>
              Debt(g) = Debt(f) /\ Owed(g) = Owed(f)
         /\ t \in Live(f) /\ t \notin Live(g) \cup Half(g) =>
              Debt(f) = Debt(g) + f[t].pay /\ Owed(f) = Owed(g) + f[t].receive
         /\ t \in Live(f) /\ t \in Live(g) /\ g[t].pay = f[t].pay /\ g[t].receive = f[t].receive =>
              Debt(g) = Debt(f) /\ Owed(g) = Owed(f)
<1> DEFINE S == (Live(f) \cup Half(f)) \ {t}
           R == Live(f) \ {t}
<1>1. /\ S \subseteq Things /\ R \subseteq Things /\ IsFiniteSet(S) /\ IsFiniteSet(R)
      /\ t \notin S /\ t \notin R
  BY FxAssumption, FS_Subset DEF Live, Half
<1>2. /\ (Live(g) \cup Half(g)) \ {t} = S
      /\ Live(g) \ {t} = R
  BY DEF Live, Half
<1>3. /\ \A u \in Things : Pays(f)[u] = f[u].pay /\ Pays(g)[u] = g[u].pay
      /\ \A u \in Things : Receives(f)[u] = f[u].receive /\ Receives(g)[u] = g[u].receive
      /\ \A u \in Things : f[u].pay \in Int /\ g[u].pay \in Int /\ f[u].receive \in Int /\ g[u].receive \in Int
  BY DEF Pays, Receives, TransferRow
<1> DEFINE D == SumFunctionOnSet(Pays(f), S)
           O == SumFunctionOnSet(Receives(f), R)
<1>4. /\ D = SumFunctionOnSet(Pays(g), S)
      /\ O = SumFunctionOnSet(Receives(g), R)
      /\ D \in Int /\ O \in Int
  <2>1. /\ \A x \in S : Pays(f)[x] \in Int /\ Pays(g)[x] = Pays(f)[x]
        /\ \A x \in R : Receives(f)[x] \in Int /\ Receives(g)[x] = Receives(f)[x]
    BY <1>1, <1>3
  <2> HIDE DEF S, R
  <2>2. D = SumFunctionOnSet(Pays(g), S)
    BY <1>1, <2>1, SumAgrees
  <2>3. O = SumFunctionOnSet(Receives(g), R)
    BY <1>1, <2>1, SumAgrees
  <2>4. D \in Int /\ O \in Int
    BY <1>1, <2>1, SumType
  <2> QED BY <2>2, <2>3, <2>4
<1>5. /\ SumFunctionOnSet(Pays(f), S \cup {t}) = D + f[t].pay
      /\ SumFunctionOnSet(Pays(g), S \cup {t}) = D + g[t].pay
      /\ SumFunctionOnSet(Receives(f), R \cup {t}) = O + f[t].receive
      /\ SumFunctionOnSet(Receives(g), R \cup {t}) = O + g[t].receive
  <2>1. (\A x \in S : Pays(f)[x] \in Int /\ Pays(g)[x] = Pays(f)[x])
        /\ (\A x \in R : Receives(f)[x] \in Int /\ Receives(g)[x] = Receives(f)[x])
    BY <1>1, <1>3
  <2>2. /\ Pays(f)[t] = f[t].pay /\ Pays(g)[t] = g[t].pay /\ f[t].pay \in Int /\ g[t].pay \in Int
        /\ Receives(f)[t] = f[t].receive /\ Receives(g)[t] = g[t].receive
        /\ f[t].receive \in Int /\ g[t].receive \in Int
    BY <1>3
  <2> HIDE DEF S, R
  <2>3. SumFunctionOnSet(Pays(f), S \cup {t}) = SumFunctionOnSet(Pays(f), S) + f[t].pay
    BY <1>1, <2>1, <2>2, SumAdd
  <2>4. SumFunctionOnSet(Pays(g), S \cup {t}) = SumFunctionOnSet(Pays(f), S) + g[t].pay
    BY <1>1, <2>1, <2>2, SumAdd
  <2>5. SumFunctionOnSet(Receives(f), R \cup {t}) = SumFunctionOnSet(Receives(f), R) + f[t].receive
    BY <1>1, <2>1, <2>2, SumAdd
  <2>6. SumFunctionOnSet(Receives(g), R \cup {t}) = SumFunctionOnSet(Receives(f), R) + g[t].receive
    BY <1>1, <2>1, <2>2, SumAdd
  <2> QED BY <2>3, <2>4, <2>5, <2>6
<1>6. /\ Live(f) \cap Half(f) = {} /\ Live(g) \cap Half(g) = {}
  BY DEF Live, Half
<1>7. \A h \in {f, g} :
        /\ t \in Live(h) => Live(h) \cup Half(h) = S \cup {t} /\ Live(h) = R \cup {t}
        /\ t \in Half(h) => Live(h) \cup Half(h) = S \cup {t} /\ Live(h) = R
        /\ t \notin Live(h) \cup Half(h) => Live(h) \cup Half(h) = S /\ Live(h) = R
  BY <1>2, <1>6
<1>8. \A h \in {f, g} :
        /\ t \in Live(h) => Debt(h) = D + h[t].pay /\ Owed(h) = O + h[t].receive
        /\ t \in Half(h) => Debt(h) = D + h[t].pay /\ Owed(h) = O
        /\ t \notin Live(h) \cup Half(h) => Debt(h) = D /\ Owed(h) = O
  <2> HIDE DEF S, R
  <2> QED BY <1>4, <1>5, <1>7 DEF Debt, Owed
<1>9. /\ f \in {f, g} /\ g \in {f, g} /\ (t \in Live(f) => t \notin Half(f))
  BY <1>6
<1> HIDE DEF D, O, S, R
<1> QED BY <1>3, <1>4, <1>8, <1>9

LEMMA FxInitInv == Fx!FInit => FxInv
<1> SUFFICES ASSUME Fx!FInit PROVE FxInv
  OBVIOUS
<1>1. /\ maker \in Answers /\ quote = << >> /\ market = << >>
      /\ transfer = [t \in Things |-> Fx!NoTransfer]
      /\ balance = [a \in Fx!Accounts |-> 0]
  BY DEF Fx!FInit
<1>2. Fx!FTypeOK /\ DOMAIN quote = {} /\ IsList(quote)
      /\ IsList(market)
  BY <1>1, FxAssumption DEF Fx!FTypeOK, IsList
<1>3. transfer \in [Things -> TransferRow]
  BY <1>1 DEF Fx!NoTransfer, TransferRow
<1>4. Live(transfer) = {} /\ Half(transfer) = {}
  BY <1>1 DEF Live, Half, Fx!NoTransfer
<1>5. Debt(transfer) = 0 /\ Owed(transfer) = 0
  BY <1>4, SumEmpty DEF Debt, Owed
<1>6. balance = Books(0, 0)
  BY <1>1 DEF Books, Fx!Accounts
<1> QED BY <1>2, <1>3, <1>5, <1>6, BooksAre DEF FxInv, TransferRow

\* A row of a transfer changes, and a journal is posted that says how.
LEMMA BooksFollow ==
  ASSUME FxInv, NEW t \in Things, NEW r \in TransferRow, transfer' = [transfer EXCEPT ![t] = r],
         NEW d \in Int, NEW o \in Int,
         balance' = balance \/ Fx!PostsJournal([PARTICIPANT_SETTLEMENT |-> -d, FX_NOSTRO_PAY |-> d,
                                                FX_NOSTRO_RECEIVE |-> -o, FOREIGN_RAIL_NOSTRO |-> o]),
         balance' = balance => d = 0 /\ o = 0,
         Debt(transfer') = Debt(transfer) + d, Owed(transfer') = Owed(transfer) + o
  PROVE  Fx!BooksTellTheTransfers' /\ balance' \in [Fx!Accounts -> Int]
<1>1. balance = Books(Debt(transfer), Owed(transfer)) /\ balance \in [Fx!Accounts -> Int]
  BY BooksAre DEF FxInv, Fx!FTypeOK
<1>2. Debt(transfer) \in Int /\ Owed(transfer) \in Int
  BY DebtType DEF FxInv, TransferRow
<1>3. balance' = Books(Debt(transfer) + d, Owed(transfer) + o)
  <2> DEFINE x == Debt(transfer)
             y == Owed(transfer)
  <2>1. x \in Int /\ y \in Int /\ balance = Books(x, y)
    BY <1>1, <1>2
  <2> HIDE DEF x, y
  <2>2. CASE balance' = balance
    <3>1. d = 0 /\ o = 0
      BY <2>2
    <3>2. x + d = x /\ y + o = y
      BY <2>1, <3>1
    <3> QED BY <2>1, <2>2, <3>2 DEF x, y
  <2>3. CASE balance' # balance
    <3>1. balance' = [a \in Fx!Accounts |-> balance[a] +
             [PARTICIPANT_SETTLEMENT |-> -d, FX_NOSTRO_PAY |-> d,
              FX_NOSTRO_RECEIVE |-> -o, FOREIGN_RAIL_NOSTRO |-> o][a]]
      BY <2>3 DEF Fx!PostsJournal
    <3>2. -x + -d = -(x + d) /\ -y + -o = -(y + o)
      BY <2>1
    <3>3. balance' = Books(x + d, y + o)
      BY <2>1, <3>1, <3>2 DEF Books, Fx!Accounts
    <3> QED BY <3>3 DEF x, y
  <2> QED BY <2>2, <2>3
<1>4. balance' \in [Fx!Accounts -> Int]
  <2>1. Debt(transfer) + d \in Int /\ Owed(transfer) + o \in Int
    BY <1>2
  <2> QED BY <1>3, <2>1 DEF Books, Fx!Accounts
<1> QED BY <1>3, <1>4, BooksAre

LEMMA QuotesStay ==
  ASSUME FxInv,
         \/ UNCHANGED quote
         \/ \E q \in DOMAIN quote, state \in QuoteStates, by \in Things \cup {None} :
              Fx!SetQuote(q, state, by),
         UNCHANGED market \/ \E q \in DOMAIN quote : market' = [market EXCEPT ![q] = maker.rate]
  PROVE  /\ Len(quote') \in 0 .. MaxQuotes /\ Len(market') = Len(quote')
         /\ IsList(quote')
         /\ IsList(market')
         /\ \A q \in DOMAIN quote' :
              /\ quote'[q] \in [state : QuoteStates, pay : {quote'[q].pay}, receive : {quote'[q].receive},
                                by : Things \cup {None}, answer : {quote'[q].answer}]
              /\ quote'[q].by \in Things \cup {None}
<1>1. /\ IsList(quote) /\ IsList(market)
      /\ Len(quote) \in 0 .. MaxQuotes /\ Len(market) = Len(quote)
      /\ \A q \in DOMAIN quote :
           quote[q] \in [state : QuoteStates, pay : {quote[q].pay}, receive : {quote[q].receive},
                         by : Things \cup {None}, answer : {quote[q].answer}]
  BY DEF FxInv, Fx!FTypeOK
<1>2. /\ Len(quote) \in Nat /\ DOMAIN quote = 1 .. Len(quote) /\ DOMAIN market = 1 .. Len(quote)
      /\ quote = [q \in 1 .. Len(quote) |-> quote[q]] /\ market = [q \in 1 .. Len(quote) |-> market[q]]
  BY <1>1 DEF IsList
<1>3. ASSUME NEW s, NEW n \in Nat, s = [i \in 1 .. n |-> s[i]]
      PROVE  IsList(s) /\ Len(s) = n /\ DOMAIN s = 1 .. n
  BY <1>3 DEF IsList
<1>4. market' = [q \in 1 .. Len(quote) |-> market'[q]]
  BY <1>2
<1>5. /\ quote' = [q \in 1 .. Len(quote) |-> quote'[q]]
      /\ \A q \in 1 .. Len(quote) :
              quote'[q] \in [state : QuoteStates, pay : {quote'[q].pay}, receive : {quote'[q].receive},
                                by : Things \cup {None}, answer : {quote'[q].answer}]
  <2>1. CASE UNCHANGED quote
    BY <1>1, <1>2, <2>1
  <2>2. ASSUME NEW q \in DOMAIN quote, NEW state \in QuoteStates, NEW by \in Things \cup {None},
               Fx!SetQuote(q, state, by)
        PROVE  <1>5
    <3> DEFINE x == [quote[q] EXCEPT !.state = state, !.by = by]
    <3>1. x \in [state : QuoteStates, pay : {x.pay}, receive : {x.receive},
                 by : Things \cup {None}, answer : {x.answer}]
      BY <1>1
    <3>2. quote' = [quote EXCEPT ![q] = x]
      BY <2>2 DEF Fx!SetQuote
    <3> HIDE DEF x
    <3>3. \A p \in 1 .. Len(quote) : quote'[p] = IF p = q THEN x ELSE quote[p]
      BY <1>2, <3>2
    <3> QED BY <1>1, <1>2, <3>1, <3>2, <3>3
  <2> QED BY <2>1, <2>2
<1>6. /\ IsList(quote') /\ Len(quote') = Len(quote)
      /\ IsList(market') /\ Len(market') = Len(quote)
      /\ DOMAIN quote' = 1 .. Len(quote)
  BY <1>2, <1>3, <1>4, <1>5
<1> QED BY <1>1, <1>5, <1>6

LEMMA NegatedZero == ASSUME NEW i \in Int, i = 0 PROVE -i = 0
<1>1. -i = 0 - i
  <2>1. \A j \in Int : -j = 0 - j
    OBVIOUS
  <2> QED BY <2>1, Zenon
<1>2. 0 - i = 0
  OBVIOUS
<1> QED BY <1>1, <1>2, Zenon

LEMMA EndsBooks ==
  ASSUME FxInv, NEW t \in Things, transfer[t] = Fx!NoTransfer, NEW sent \in Sent,
         NEW q \in {None} \cup 1 .. MaxQuotes, NEW state \in {"REJECTED", "CREDIT_LEG_PENDING"},
         NEW xb \in {"ABSENT", "FOREIGN_INSTRUCTING"}, NEW legs \in 0 .. 2,
         legs = 2 <=> xb = "FOREIGN_INSTRUCTING",
         Fx!Ends(t, q, sent, state, xb, legs)
  PROVE  Fx!BooksTellTheTransfers' /\ balance' \in [Fx!Accounts -> Int] /\ transfer' \in [Things -> TransferRow]
<1> DEFINE r == [state |-> state, quote |-> q, pay |-> sent[1], receive |-> sent[2], xb |-> xb, legs |-> legs]
           d == IF legs >= 1 THEN sent[1] ELSE 0
           o == IF legs = 2 THEN sent[2] ELSE 0
<1>0. sent[1] \in Nat /\ sent[2] \in Nat /\ transfer \in [Things -> TransferRow]
  BY FxAssumption DEF FxInv, TransferRow
<1>1. r \in TransferRow /\ r.pay = sent[1] /\ r.receive = sent[2] /\ r.xb = xb /\ r.legs = legs
  BY <1>0 DEF TransferRow
<1>2. transfer' = [transfer EXCEPT ![t] = r]
      /\ Fx!PostsJournal(Fx!Legs(legs, sent[1], sent[2]))
  BY DEF Fx!Ends
<1>3. Fx!Legs(legs, sent[1], sent[2]) =
        [PARTICIPANT_SETTLEMENT |-> -d, FX_NOSTRO_PAY |-> d, FX_NOSTRO_RECEIVE |-> -o, FOREIGN_RAIL_NOSTRO |-> o]
  <2>1. \A i \in Int : i = 0 => -i = 0
    BY NegatedZero
  <2>2. /\ d \in Int /\ o \in Int /\ legs \in Int
        /\ legs >= 1 => d = sent[1]
        /\ ~(legs >= 1) => d = 0
        /\ legs = 2 => o = sent[2]
        /\ legs # 2 => o = 0
    BY <1>0
  <2> HIDE DEF d, o
  <2> QED BY <2>1, <2>2 DEF Fx!Legs
<1>4. d \in Int /\ o \in Int
  BY <1>0
<1> HIDE DEF r
<1>5. transfer' \in [Things -> TransferRow] /\ transfer'[t] = r /\ \A u \in Things \ {t} : transfer'[u] = transfer[u]
  BY <1>0, <1>1, <1>2
<1>6. t \notin Live(transfer) \cup Half(transfer)
  BY DEF Live, Half, Fx!NoTransfer
<1>7. Debt(transfer') = Debt(transfer) + d /\ Owed(transfer') = Owed(transfer) + o
  <2>0. Debt(transfer) \in Int /\ Owed(transfer) \in Int
    BY <1>0, DebtType
  <2>1. CASE legs = 2
    <3>1. t \in Live(transfer')
      BY <1>1, <1>5, <2>1 DEF Live
    <3> QED BY <1>0, <1>1, <1>5, <1>6, <2>1, <3>1, SumsChange
  <2>2. CASE legs = 1
    <3>1. t \in Half(transfer')
      BY <1>1, <1>5, <2>2 DEF Half
    <3> QED BY <1>0, <1>1, <1>5, <1>6, <2>0, <2>2, <3>1, SumsChange
  <2>3. CASE legs = 0
    <3>1. t \notin Live(transfer') \cup Half(transfer')
      BY <1>1, <1>5, <2>3 DEF Live, Half
    <3> QED BY <1>0, <1>5, <1>6, <2>0, <2>3, <3>1, SumsChange
  <2> QED BY <2>1, <2>2, <2>3
<1>8. balance' = balance => d = 0 /\ o = 0
  <2> SUFFICES ASSUME balance' = balance PROVE d = 0 /\ o = 0
    OBVIOUS
  <2>1. balance \in [Fx!Accounts -> Int]
    BY DEF FxInv, Fx!FTypeOK
  <2>2. \A a \in Fx!Accounts : balance[a] = balance[a] +
          [PARTICIPANT_SETTLEMENT |-> -d, FX_NOSTRO_PAY |-> d, FX_NOSTRO_RECEIVE |-> -o, FOREIGN_RAIL_NOSTRO |-> o][a]
    BY <1>2, <1>3 DEF Fx!PostsJournal
  <2> HIDE DEF d, o
  <2>3. balance["FX_NOSTRO_PAY"] = balance["FX_NOSTRO_PAY"] + d
        /\ balance["FOREIGN_RAIL_NOSTRO"] = balance["FOREIGN_RAIL_NOSTRO"] + o
    BY <2>2 DEF Fx!Accounts
  <2> QED BY <1>4, <2>1, <2>3 DEF Fx!Accounts
<1> HIDE DEF d, o
<1>9. Fx!BooksTellTheTransfers' /\ balance' \in [Fx!Accounts -> Int]
  BY <1>1, <1>2, <1>3, <1>4, <1>7, <1>8, BooksFollow
<1> QED BY <1>5, <1>9

LEMMA FxStepInv == FxInv /\ Fx!FNext => FxInv'
<1> SUFFICES ASSUME FxInv, Fx!FNext PROVE FxInv'
  OBVIOUS
<1>0. /\ maker \in Answers /\ transfer \in [Things -> TransferRow] /\ balance \in [Fx!Accounts -> Int]
      /\ DOMAIN quote \subseteq 1 .. MaxQuotes
      /\ Debt(transfer) \in Int /\ Owed(transfer) \in Int
  <2>1. transfer \in [Things -> TransferRow]
    BY DEF FxInv, TransferRow
  <2>2. IsList(quote) /\ Len(quote) \in 0 .. MaxQuotes
    BY DEF FxInv, Fx!FTypeOK
  <2>3. DOMAIN quote \subseteq 1 .. MaxQuotes
    BY <2>2, FxAssumption DEF IsList
  <2> QED BY <2>1, <2>3, DebtType DEF FxInv, Fx!FTypeOK
<1>1. CASE Fx!MakerMoves
  <2>1. maker' \in Answers /\ UNCHANGED <<quote, transfer, balance, market>>
    BY <1>1 DEF Fx!MakerMoves
  <2>2. Fx!BooksTellTheTransfers'
    BY <2>1, BooksAre DEF FxInv
  <2> QED BY <2>1, <2>2 DEF FxInv, Fx!FTypeOK
<1>2. ASSUME NEW pay \in Asked, Fx!asksQuote(pay) PROVE FxInv'
  <2> DEFINE x == [state |-> "OPEN", pay |-> pay, receive |-> Fx!Receives(pay, maker), by |-> None,
                   answer |-> maker]
  <2>1. /\ Len(quote) < MaxQuotes /\ quote' = Append(quote, x) /\ market' = Append(market, None)
        /\ UNCHANGED <<maker, transfer, balance>>
    BY <1>2 DEF Fx!asksQuote
  <2>2. x \in [state : QuoteStates, pay : {x.pay}, receive : {x.receive},
               by : Things \cup {None}, answer : {x.answer}] /\ x.by = None
    BY DEF QuoteStates
  <2> HIDE DEF x
  <2>3. /\ IsList(quote) /\ IsList(market)
        /\ Len(quote) \in 0 .. MaxQuotes /\ Len(market) = Len(quote)
    BY DEF FxInv, Fx!FTypeOK
  <2>4. ASSUME NEW s, IsList(s), NEW y
        PROVE  /\ IsList(Append(s, y))
               /\ Len(Append(s, y)) = Len(s) + 1 /\ DOMAIN Append(s, y) = 1 .. Len(s) + 1
               /\ \A q \in 1 .. Len(s) : Append(s, y)[q] = s[q] /\ q \in DOMAIN s
               /\ Append(s, y)[Len(s) + 1] = y
    <3> DEFINE S == {s[q] : q \in DOMAIN s} \cup {y}
               z == Append(s, y)
    <3>1. s \in Seq(S) /\ y \in S
      BY <2>4 DEF IsList
    <3>2. /\ z \in Seq(S) /\ Len(z) = Len(s) + 1 /\ DOMAIN z = 1 .. Len(s) + 1
          /\ \A q \in 1 .. Len(s) : z[q] = s[q] /\ q \in DOMAIN s
          /\ z[Len(s) + 1] = y
      <4> HIDE DEF S
      <4> QED BY <3>1, AppendProperties
    <3>3. z = [q \in 1 .. Len(s) + 1 |-> z[q]] /\ Len(s) + 1 \in Nat
      <4> HIDE DEF S, z
      <4> QED BY <3>1, <3>2
    <3> HIDE DEF z
    <3>4. IsList(z)
      BY <3>2, <3>3 DEF IsList
    <3> QED BY <3>2, <3>4 DEF z
  <2>5. /\ IsList(quote') /\ Len(quote') = Len(quote) + 1
        /\ DOMAIN quote' = 1 .. Len(quote) + 1 /\ quote'[Len(quote) + 1] = x
        /\ \A q \in 1 .. Len(quote) : quote'[q] = quote[q] /\ q \in DOMAIN quote
    BY <2>1, <2>3, <2>4
  <2>6. IsList(market') /\ Len(market') = Len(market) + 1
    BY <2>1, <2>3, <2>4
  <2>7. \A q \in DOMAIN quote' : q = Len(quote) + 1 \/ q \in 1 .. Len(quote)
    BY <2>3, <2>5
  <2>8. \A q \in DOMAIN quote' :
              /\ quote'[q] \in [state : QuoteStates, pay : {quote'[q].pay}, receive : {quote'[q].receive},
                                by : Things \cup {None}, answer : {quote'[q].answer}]
              /\ quote'[q].by \in Things \cup {None}
    BY <2>2, <2>5, <2>7 DEF FxInv, Fx!FTypeOK
  <2>9. Len(quote') \in 0 .. MaxQuotes /\ Len(market') = Len(quote')
    BY <2>1, <2>3, <2>5, <2>6, FxAssumption
  <2>10. Fx!BooksTellTheTransfers'
    BY <2>1, BooksAre DEF FxInv
  <2> QED BY <1>0, <2>1, <2>5, <2>6, <2>8, <2>9, <2>10 DEF FxInv, Fx!FTypeOK, TransferRow
<1>3. ASSUME UNCHANGED maker,
             \/ UNCHANGED quote
             \/ \E q \in DOMAIN quote, state \in QuoteStates, by \in Things \cup {None} :
                  Fx!SetQuote(q, state, by),
             UNCHANGED market \/ \E q \in DOMAIN quote : market' = [market EXCEPT ![q] = maker.rate],
             Fx!BooksTellTheTransfers', balance' \in [Fx!Accounts -> Int], transfer' \in [Things -> TransferRow]
      PROVE  FxInv'
  BY <1>0, <1>3, QuotesStay DEF FxInv, Fx!FTypeOK, TransferRow
<1>4. ASSUME NEW t \in Things, NEW sent \in Sent, NEW q \in DOMAIN quote, Fx!QuoteRefused(t, q, sent)
      PROVE  FxInv'
  <2>1. Fx!BooksTellTheTransfers' /\ balance' \in [Fx!Accounts -> Int] /\ transfer' \in [Things -> TransferRow]
    BY <1>4, EndsBooks DEF Fx!QuoteRefused
  <2>2. \/ UNCHANGED quote
        \/ \E state \in QuoteStates, by \in Things \cup {None} : Fx!SetQuote(q, state, by)
    BY <1>4 DEF Fx!QuoteRefused, QuoteStates
  <2> QED BY <1>3, <1>4, <2>1, <2>2 DEF Fx!QuoteRefused
<1>5. ASSUME NEW t \in Things, NEW sent \in Sent, NEW q \in DOMAIN quote,
             Fx!TravelRuleRefuses(t, q, sent) \/ Fx!LegThrows(t, q, sent) \/ Fx!coordinate(t, q, sent)
      PROVE  FxInv'
  <2>1. Fx!verifyAndConsume(t, q) /\ q \in 1 .. MaxQuotes
    BY <1>0, <1>5 DEF Fx!TravelRuleRefuses, Fx!LegThrows, Fx!coordinate
  <2>2. Fx!BooksTellTheTransfers' /\ balance' \in [Fx!Accounts -> Int] /\ transfer' \in [Things -> TransferRow]
    <3>1. CASE Fx!TravelRuleRefuses(t, q, sent)
      BY <2>1, <3>1, EndsBooks DEF Fx!TravelRuleRefuses, Fx!verifyAndConsume
    <3>2. CASE Fx!LegThrows(t, q, sent)
      BY <2>1, <3>2, EndsBooks DEF Fx!LegThrows, Fx!verifyAndConsume
    <3>3. CASE Fx!coordinate(t, q, sent)
      BY <2>1, <3>3, EndsBooks DEF Fx!coordinate, Fx!verifyAndConsume
    <3> QED BY <1>5, <3>1, <3>2, <3>3
  <2>3. Fx!SetQuote(q, "CONSUMED", t) /\ "CONSUMED" \in QuoteStates /\ t \in Things \cup {None}
        /\ market' = [market EXCEPT ![q] = maker.rate] /\ UNCHANGED maker
    BY <2>1 DEF Fx!verifyAndConsume, QuoteStates
  <2> QED BY <1>3, <2>2, <2>3
<1>6. ASSUME NEW t \in Things, NEW r \in TransferRow, transfer' = [transfer EXCEPT ![t] = r],
             transfer[t].xb = "FOREIGN_INSTRUCTING", r.xb \in {"CONFIRMED", "FAILED"},
             r.pay = transfer[t].pay, r.receive = transfer[t].receive,
             UNCHANGED <<maker, quote, balance, market>>
      PROVE  FxInv'
  <2>1. transfer' \in [Things -> TransferRow] /\ transfer'[t] = r /\ \A u \in Things \ {t} : transfer'[u] = transfer[u]
    BY <1>0, <1>6
  <2>2. t \in Live(transfer) /\ t \in Live(transfer')
    BY <1>6, <2>1 DEF Live
  <2>3. Debt(transfer') = Debt(transfer) /\ Owed(transfer') = Owed(transfer)
    BY <1>0, <1>6, <2>1, <2>2, SumsChange
  <2>4. Fx!BooksTellTheTransfers'
    BY <1>6, <2>3, BooksAre DEF FxInv
  <2> QED BY <1>0, <1>3, <1>6, <2>1, <2>4
<1>7. ASSUME NEW t \in Things, Fx!HandleAccepted(t) \/ Fx!HandleExhausted(t) PROVE FxInv'
  <2>1. PICK xb \in {"CONFIRMED", "FAILED"}, state \in {transfer[t].state, "CONFIRMED"} :
          transfer' = [transfer EXCEPT ![t] = [transfer[t] EXCEPT !.xb = xb, !.state = state]]
    <3>1. CASE Fx!HandleAccepted(t)
      BY <3>1, <1>0 DEF Fx!HandleAccepted, TransferRow
    <3>2. CASE Fx!HandleExhausted(t)
      <4>1. transfer[t] \in TransferRow
        BY <1>0
      <4>2. [transfer[t] EXCEPT !.xb = "FAILED", !.state = transfer[t].state] = [transfer[t] EXCEPT !.xb = "FAILED"]
        BY <4>1 DEF TransferRow
      <4> QED BY <3>2, <4>2 DEF Fx!HandleExhausted
    <3> QED BY <1>7, <3>1, <3>2
  <2> DEFINE r == [transfer[t] EXCEPT !.xb = xb, !.state = state]
  <2>2. r \in TransferRow /\ r.xb = xb /\ r.pay = transfer[t].pay /\ r.receive = transfer[t].receive
    BY <1>0 DEF TransferRow
  <2>3. transfer[t].xb = "FOREIGN_INSTRUCTING" /\ UNCHANGED <<maker, quote, balance, market>>
    BY <1>7 DEF Fx!HandleAccepted, Fx!HandleExhausted
  <2> HIDE DEF r
  <2>4. transfer' = [transfer EXCEPT ![t] = r]
    BY <2>1 DEF r
  <2> QED BY <1>6, <2>2, <2>3, <2>4
<1>8. ASSUME NEW t \in Things, Fx!HandleRejected(t) PROVE FxInv'
  <2> DEFINE r == [transfer[t] EXCEPT !.xb = "REJECTED", !.state = "REJECTED"]
             p == transfer[t].pay
             s == transfer[t].receive
  <2>1. r \in TransferRow /\ r.xb = "REJECTED" /\ p \in Nat /\ s \in Nat
    BY <1>0 DEF TransferRow
  <2>2. transfer' = [transfer EXCEPT ![t] = r] /\ transfer[t].xb = "FOREIGN_INSTRUCTING"
        /\ UNCHANGED <<maker, quote, market>> /\ Fx!PostsJournal(Fx!Compensation(p, s))
    BY <1>0, <1>8 DEF Fx!HandleRejected, TransferRow
  <2> HIDE DEF r, p, s
  <2>3. Fx!Compensation(p, s) = [PARTICIPANT_SETTLEMENT |-> -(-p), FX_NOSTRO_PAY |-> -p,
                                 FX_NOSTRO_RECEIVE |-> -(-s), FOREIGN_RAIL_NOSTRO |-> -s]
    BY <2>1 DEF Fx!Compensation, Fx!Legs
  <2>4. transfer' \in [Things -> TransferRow] /\ transfer'[t] = r /\ \A u \in Things \ {t} : transfer'[u] = transfer[u]
    BY <1>0, <2>1, <2>2
  <2>5. t \in Live(transfer) /\ t \notin Live(transfer') \cup Half(transfer')
    BY <2>1, <2>2, <2>4 DEF Live, Half
  <2>6. Debt(transfer) = Debt(transfer') + p /\ Owed(transfer) = Owed(transfer') + s
    BY <1>0, <2>4, <2>5, SumsChange DEF p, s
  <2>7. Debt(transfer') \in Int /\ Owed(transfer') \in Int
    BY <2>4, DebtType
  <2>8. Debt(transfer') = Debt(transfer) + -p /\ Owed(transfer') = Owed(transfer) + -s
    BY <1>0, <2>1, <2>6, <2>7
  <2>9. balance' = balance => p = 0 /\ s = 0
    <3> SUFFICES ASSUME balance' = balance PROVE p = 0 /\ s = 0
      OBVIOUS
    <3>1. balance["FX_NOSTRO_PAY"] = balance["FX_NOSTRO_PAY"] + -p
          /\ balance["FOREIGN_RAIL_NOSTRO"] = balance["FOREIGN_RAIL_NOSTRO"] + -s
      BY <2>2, <2>3 DEF Fx!PostsJournal, Fx!Accounts
    <3> QED BY <1>0, <2>1, <3>1 DEF Fx!Accounts
  <2>10. Fx!BooksTellTheTransfers' /\ balance' \in [Fx!Accounts -> Int]
    <3>1. -p \in Int /\ -s \in Int /\ (p = 0 => -p = 0) /\ (s = 0 => -s = 0)
      BY <2>1
    <3> QED BY <2>1, <2>2, <2>3, <2>8, <2>9, <3>1, BooksFollow
  <2> QED BY <1>3, <2>2, <2>4, <2>10
<1> QED BY <1>1, <1>2, <1>4, <1>5, <1>7, <1>8 DEF Fx!FNext

-----------------------------------------------------------------------------
(* The services side by side.                                              *)

ServicesInv ==
  /\ KeyInv /\ JoiningInv /\ ReceiptsInv
  /\ DirectoryInv /\ AliasInv /\ RoutesInv /\ FeesInv
  /\ LimitsInv /\ WatchInv /\ PortalInv /\ FraudInv /\ GraphInv
  /\ ChainsInv /\ ReconInv /\ FxInv

LEMMA KeysStay ==
  ASSUME KeyInv, UNCHANGED ownKeys
  PROVE  KeyInv' /\ OwnersStay
  BY DEF KeyInv, ownKeys, OwnersStay, Joining!KTypeOK, Joining!OneActiveKeyUnlessDoubled,
     Joining!listActive

LEMMA JoiningStays ==
  ASSUME JoiningInv, OwnersStay, UNCHANGED ownJoining
  PROVE  JoiningInv'
<1>1. UNCHANGED <<participant, kyb, cert, call, overwritten, reviewed, passed>> /\ Grows
  BY DEF ownJoining, Grows
<1>2. (Joining!OTypeOK)'
  BY <1>1 DEF JoiningInv, Joining!OTypeOK
<1>3. Remembered'
  BY <1>1, RememberedStays DEF JoiningInv
<1> QED BY <1>1, <1>2, <1>3, JoiningStepInv

LEMMA ChainsStay ==
  ASSUME ChainsInv, UNCHANGED ownChains
  PROVE  ChainsInv'
<1>1. UNCHANGED <<row, writer, overlapped>>
  BY DEF ownChains
<1>2. /\ \A v \in Callers : \A ch : Chain!Visible(v, ch)' = Chain!Visible(v, ch)
      /\ \A v \in Callers : \A ch : Chain!LastOf(v, ch)' = Chain!LastOf(v, ch)
      /\ \A v \in Callers : Chain!Own(v)' = Chain!Own(v)
      /\ \A ch : Chain!Committed(ch)' = Chain!Committed(ch)
  BY <1>1 DEF Chain!Visible, Chain!LastOf, Chain!Own, Chain!Committed
<1>3. (Chain!HTypeOK)'
  BY <1>1 DEF ChainsInv, Chain!HTypeOK
<1>4. ASSUME NEW w \in Callers PROVE WriterOK(w)'
  BY <1>1, <1>2 DEF ChainsInv, WriterOK
<1> QED BY <1>1, <1>2, <1>3, <1>4 DEF ChainsInv

LEMMA ReconStays ==
  ASSUME ReconInv, UNCHANGED ownRecon
  PROVE  ReconInv'
<1>1. UNCHANGED <<tx, run, breaks, moved, feigned>>
  BY DEF ownRecon
<1>2. \A r \in Runs : Differ(r)' = Differ(r) /\ Seen(r)' = Seen(r)
  BY <1>1 DEF Differ, Seen
<1>3. (Recon!CTypeOK)'
  BY <1>1 DEF ReconInv, Recon!CTypeOK
<1>4. ASSUME NEW r \in Runs PROVE RunOK(r)'
  BY <1>1, <1>2 DEF ReconInv, RunOK
<1>5. ASSUME NEW b \in breaks PROVE BreakOK(b)'
  BY <1>1 DEF ReconInv, BreakOK
<1> QED BY <1>1, <1>3, <1>4, <1>5 DEF ReconInv

LEMMA JoiningTells ==
  JoiningInv => Joining!OTypeOK /\ Joining!CertifiedHasAKey /\ Joining!ActiveWasExamined
  BY KeyNames DEF JoiningInv, Deserved, HasKey, Joining!CertifiedHasAKey,
     Joining!ActiveWasExamined

LEMMA JoiningKeepsKeys ==
  ASSUME KeyInv, JoiningInv, Joining!Next
  PROVE  KeyInv' /\ OwnersStay
<1>1. CASE Joining!KNext
  BY <1>1, KeysStepInv
<1>2. CASE UNCHANGED Joining!kvars
  BY <1>2, KeysStay DEF Joining!kvars, ownKeys
<1>3. ASSUME NEW c \in Callers, NEW k \in Kids, Joining!Provisions(c, k)
      PROVE  KeyInv' /\ OwnersStay
  <2>1. PICK p \in Codes : p = call[c].on
    BY <1>3 DEF JoiningInv, Relies, Joining!Provisions
  <2>2. Joining!generateForOwner(p, k)
    BY <1>3, <2>1 DEF Joining!Provisions
  <2> QED BY <2>1, <2>2, NewKeyInv DEF Joining!generateForOwner, Owners
<1> QED
  BY <1>1, <1>2, <1>3, KeyNames
  DEF Joining!Next, Joining!create, Joining!reviewKyb, Joining!uploadKyb, Joining!runCertSuite,
      Joining!Asks, Joining!upsertKybDoc, Joining!upsertCertResult, Joining!Gate, Joining!Writes,
      Joining!Fails

LEMMA ReceiptsKeepOwners ==
  ASSUME KeyInv, Receipt!RNext
  PROVE  OwnersStay
<1>1. CASE Receipt!KNext
  BY <1>1, ReceiptKeys, KeysStepInv
<1>2. CASE key' = key
  BY <1>2 DEF OwnersStay
<1> QED
  BY <1>1, <1>2
  DEF Receipt!RNext, Receipt!Confirms, Receipt!findRailKid, Receipt!issueReceiptsOnClient,
      Receipt!Commits, Receipt!RollsBack, Receipt!kvars

LEMMA DirectoryStays == DirectoryInv /\ UNCHANGED ownDirectory => DirectoryInv'
  BY DEF DirectoryInv, ownDirectory, Accts!DTypeOK, Accts!ClosedStaysUnlessOverwritten, HandlerReads

LEMMA AliasesStay ==
  ASSUME AliasInv, UNCHANGED ownAliases
  PROVE  AliasInv'
<1>1. UNCHANGED <<alias, challenge, port, aliasCall, cooling, ported, early, overtaken>>
  BY DEF ownAliases
<1>2. (Alias!TypeOK)' /\ (Alias!OnlyEarlyRequestsMoveCooling)'
  BY <1>1 DEF AliasInv, Alias!TypeOK, Alias!OnlyEarlyRequestsMoveCooling
<1>3. \A c \in Callers : HandlerActs(aliasCall[c])'
  BY <1>1 DEF AliasInv, HandlerActs
<1>4. \A n \in Alias!Challenges : InFlight(n)' = InFlight(n)
  BY <1>1 DEF InFlight
<1>5. PortsApart'
  BY <1>1 DEF AliasInv, PortsApart, Opening
<1> QED BY <1>1, <1>2, <1>3, <1>4, <1>5 DEF AliasInv

LEMMA RoutesStay ==
  ASSUME RoutesInv, UNCHANGED ownRouting
  PROVE  RoutesInv'
<1>1. UNCHANGED <<rules, cache, ruleCall, quiet>>
  BY DEF ownRouting
<1>2. (Routes!RTypeOK)'
  BY <1>1 DEF RoutesInv, Routes!RTypeOK
<1>3. \A c \in Callers : Routes!After(c)' = Routes!After(c)
  BY <1>1 DEF Routes!After
<1>4. \A c \in Callers : AloneIsRight(c)'
  BY <1>1, <1>3 DEF RoutesInv, AloneIsRight
<1> QED BY <1>1, <1>2, <1>4 DEF RoutesInv, ActsOn

LEMMA FeesStay ==
  ASSUME FeesInv, UNCHANGED ownFees
  PROVE  FeesInv'
<1>1. UNCHANGED <<schedule, publisher, now, unseen>>
  BY DEF ownFees
<1>2. (Tariff!FTypeOK)'
  BY <1>1 DEF FeesInv, Tariff!FTypeOK
<1> QED
  BY <1>1, <1>2
  DEF FeesInv, NumberedAsTheyCome, ActiveIsOpen, SeesItsPair, SeesTheActive, NewestIsActive

LEMMA LimitsStay ==
  ASSUME LimitsInv, UNCHANGED ownLimits
  PROVE  LimitsInv'
<1>1. UNCHANGED <<stored, status, session, missed>>
  BY DEF ownLimits
<1>2. (Limits!ATypeOK)' /\ (Limits!OneOfEachIdButForOverlapped)'
  BY <1>1 DEF LimitsInv, Limits!ATypeOK, Limits!OneOfEachIdButForOverlapped
<1>3. /\ \A ages : Limits!Counted(ages)' = Limits!Counted(ages)
      /\ \A set : Limits!Volume(set)' = Limits!Volume(set)
      /\ \A t, e : Limits!countRecentByOriginatorAndE2E(t, e)' = Limits!countRecentByOriginatorAndE2E(t, e)
  BY <1>1 DEF Limits!Counted, Limits!Volume, Limits!countRecentByOriginatorAndE2E
<1>4. (Limits!CapsHoldButForOverlapped)'
  BY <1>1, <1>3 DEF LimitsInv, Limits!CapsHoldButForOverlapped
<1>5. \A c \in Callers : SessionKnows(session[c])' /\ Alone(c)'
  BY <1>1, <1>3 DEF LimitsInv, SessionKnows, Alone
<1> QED BY <1>1, <1>2, <1>4, <1>5 DEF LimitsInv

LEMMA WatchStays ==
  ASSUME WatchInv, UNCHANGED ownWatch
  PROVE  WatchInv'
<1>1. UNCHANGED <<minute, entry, memory, payment, screen, screening>>
  BY DEF ownWatch
<1>2. (Watch!STypeOK)'
  BY <1>1 DEF WatchInv, Watch!STypeOK, Watch!Remembered
<1>3. \A k, how : Watch!Listed(k, how)' = Watch!Listed(k, how)
  BY <1>1 DEF Watch!Listed
<1>4. \A q \in Processes : \A k \in DOMAIN memory[q] : Remembers(memory[q][k], k)'
  BY <1>1 DEF WatchInv, Remembers
<1>5. \A t \in Codes, party \in Watch!Parties : ScreenKnows(screen[t][party])'
  BY <1>1, <1>3 DEF WatchInv, ScreenKnows
<1> QED BY <1>1, <1>2, <1>4, <1>5 DEF WatchInv

LEMMA PortalStays == PortalInv /\ UNCHANGED ownPortal => PortalInv'
  BY DEF PortalInv, ownPortal, Portal!TypeOK, Portal!CommentsAreServed, Served

LEMMA FraudStays == FraudInv /\ UNCHANGED ownFraud => FraudInv'
  BY DEF FraudInv, ownFraud, Fraud!RTypeOK, Fraud!CheckedByAnotherUnlessReplaced, TestedAnothers

LEMMA GraphStays ==
  ASSUME GraphInv, UNCHANGED ownGraph
  PROVE  GraphInv'
<1>1. UNCHANGED <<payments, edge, scan, alert>>
  BY DEF ownGraph
<1>2. (Graph!MTypeOK)' /\ Graph!hotInboundAccounts' = Graph!hotInboundAccounts
  BY <1>1 DEF GraphInv, Graph!MTypeOK, Graph!hotInboundAccounts
<1>3. QuietInv => QuietInv'
  BY <1>1, <1>2 DEF QuietInv, Current, Followed
<1> QED BY <1>1, <1>2, <1>3 DEF GraphInv

LEMMA FxStays == FxInv /\ UNCHANGED ownFx => FxInv'
  BY DEF FxInv, ownFx, Fx!FTypeOK, Fx!BooksTellTheTransfers

LEMMA ServicesInitInv == UInit => ServicesInv
<1> SUFFICES ASSUME UInit PROVE ServicesInv
  OBVIOUS
<1>1. /\ Joining!KInit /\ Joining!OInit /\ Receipt!RInit
      /\ Accts!DInit /\ Alias!Init /\ Routes!RInit /\ Tariff!FInit
      /\ Limits!AInit /\ Watch!SInit /\ Portal!Init /\ Fraud!RInit /\ Graph!MInit
      /\ Chain!HInit /\ Recon!CInit /\ Fx!FInit
  BY DEF UInit, Joining!Init
<1>2. KeyInv /\ JoiningInv /\ ReceiptsInv
  BY <1>1, KeysInitInv, JoiningInitInv, ReceiptsInitInv
<1>3. DirectoryInv /\ AliasInv /\ RoutesInv /\ FeesInv
  BY <1>1, DirectoryInitInv, AliasInitInv, RoutesInitInv, FeesInitInv
<1>4. LimitsInv /\ WatchInv /\ PortalInv /\ FraudInv /\ GraphInv
  BY <1>1, LimitsInitInv, WatchInitInv, PortalInitInv, FraudInitInv, GraphInitInv
<1>5. ChainsInv /\ ReconInv /\ FxInv
  BY <1>1, ChainsInitInv, ReconInitInv, FxInitInv
<1> QED BY <1>2, <1>3, <1>4, <1>5 DEF ServicesInv

\* A step is one of a service, and what the others have stays.
LEMMA EachStep ==
  ASSUME [UNext]_allvars
  PROVE  /\ \/ UNCHANGED <<ownKeys, ownJoining, ownReceipts>>
            \/ Joining!KNext /\ UNCHANGED <<ownJoining, ownReceipts>>
            \/ Joining!Next /\ UNCHANGED ownReceipts
            \/ Receipt!RNext /\ UNCHANGED ownJoining
         /\ UNCHANGED ownDirectory \/ Accts!DNext
         /\ UNCHANGED ownAliases \/ Alias!Next
         /\ UNCHANGED ownRouting \/ Routes!RNext
         /\ UNCHANGED ownFees \/ Tariff!FNext
         /\ UNCHANGED ownLimits \/ Limits!ANext
         /\ UNCHANGED ownWatch \/ Watch!SNext
         /\ UNCHANGED ownPortal \/ Portal!Next
         /\ UNCHANGED ownFraud \/ Fraud!RNext
         /\ UNCHANGED ownGraph \/ Graph!MNext
         /\ UNCHANGED ownChains \/ Chain!HNext
         /\ UNCHANGED ownRecon \/ Recon!CNext
         /\ UNCHANGED ownFx \/ Fx!FNext
<1>1. CASE UNCHANGED allvars
  BY <1>1 DEF allvars
<1>2. CASE UNext
  BY <1>2 DEF UNext, Steps, OthersRest
<1> QED BY <1>1, <1>2

\* Keys, those who take part and receipts share the keys.
LEMMA KeyedStepInv ==
  ASSUME KeyInv, JoiningInv, ReceiptsInv, [UNext]_allvars
  PROVE  KeyInv' /\ JoiningInv' /\ ReceiptsInv'
<1>1. CASE UNCHANGED <<ownKeys, ownJoining, ownReceipts>>
  <2>1. KeyInv' /\ OwnersStay
    BY <1>1, KeysStay
  <2> QED BY <1>1, <2>1, JoiningStays, KeysKeepReceipts
<1>2. CASE Joining!KNext /\ UNCHANGED <<ownJoining, ownReceipts>>
  <2>1. KeyInv' /\ OwnersStay
    BY <1>2, KeysStepInv
  <2> QED BY <1>2, <2>1, JoiningStays, KeysKeepReceipts
<1>3. CASE Joining!Next /\ UNCHANGED ownReceipts
  <2>1. KeyInv' /\ OwnersStay
    BY <1>3, JoiningKeepsKeys
  <2>2. JoiningInv'
    BY <1>3, JoiningActionInv
  <2> QED BY <1>3, <2>1, <2>2, KeysKeepReceipts
<1>4. CASE Receipt!RNext /\ UNCHANGED ownJoining
  <2>1. KeyInv' /\ OwnersStay /\ ReceiptsInv'
    BY <1>4, ReceiptsStepInv, ReceiptsKeepOwners
  <2> QED BY <1>4, <2>1, JoiningStays
<1> QED BY <1>1, <1>2, <1>3, <1>4, EachStep

LEMMA ServicesStepInv == ServicesInv /\ [UNext]_allvars => ServicesInv'
<1> SUFFICES ASSUME ServicesInv, [UNext]_allvars PROVE ServicesInv'
  OBVIOUS
<1>1. KeyInv' /\ JoiningInv' /\ ReceiptsInv'
  BY KeyedStepInv DEF ServicesInv
<1>2. DirectoryInv' /\ AliasInv'
  BY EachStep, DirectoryStepInv, DirectoryStays, AliasStepInv, AliasesStay DEF ServicesInv
<1>3. RoutesInv' /\ FeesInv'
  BY EachStep, RoutesStepInv, RoutesStay, FeesStepInv, FeesStay DEF ServicesInv
<1>4. LimitsInv' /\ WatchInv'
  BY EachStep, LimitsStepInv, LimitsStay, WatchStepInv, WatchStays DEF ServicesInv
<1>5. PortalInv' /\ FraudInv' /\ GraphInv'
  BY EachStep, PortalStepInv, PortalStays, FraudStepInv, FraudStays, GraphStepInv, GraphStays
  DEF ServicesInv
<1>6. ChainsInv' /\ ReconInv' /\ FxInv'
  BY EachStep, ChainsStepInv, ChainsStay, ReconStepInv, ReconStays, FxStepInv, FxStays
  DEF ServicesInv
<1> QED BY <1>1, <1>2, <1>3, <1>4, <1>5, <1>6 DEF ServicesInv

\* Of every participant that is certified or active: it has a key, all of its
\* documents were approved at one time and, if it is active, all of its suites
\* passed at one time, however the handlers that look and write overlap; and of
\* the keys of an owner one is active, unless two were made at once.
THEOREM OnlyExamined == USpec => []OnlyExaminedTakePart
<1>1. ServicesInv => OnlyExaminedTakePart
  BY JoiningTells DEF ServicesInv, KeyInv, OnlyExaminedTakePart
<1> QED BY <1>1, ServicesInitInv, ServicesStepInv, PTL DEF USpec

\* An alias belongs to the account of the port completed last, a request that
\* is open for a cooling alias was tested before the alias was ported, and an
\* account that was closed stays closed unless a freeze or an unfreeze had read
\* it before: for any number of aliases, ports, challenges, accounts and callers.
THEOREM RegistersFollow == USpec => []RegistersFollowTheirHistory
<1>1. ServicesInv => RegistersFollowTheirHistory
  BY AliasImplies DEF ServicesInv, AliasInv, DirectoryInv, RegistersFollowTheirHistory
<1> QED BY <1>1, ServicesInitInv, ServicesStepInv, PTL DEF USpec

\* A payment is charged by the schedule published last, and routed by the
\* rules in the table, as far as publications and changes do not overlap: for
\* any number of schedules, rules and processes.  What the schedules and the
\* lookups yield is shown for every amount and every table, and so for those
\* of the property.
THEOREM TablesInUse == USpec => []TablesInUseAreThePublished
<1>1. RoutesInv => Routes!RTypeOK /\ Routes!QuietCacheIsTheTable
  BY DEF RoutesInv, Routes!QuietCacheIsTheTable
<1>2. ServicesInv => TablesInUseAreThePublished
  BY <1>1, FeesImplies, FeesAsScheduled, TablesFirstIsBest
  DEF ServicesInv, FeesInv, TablesInUseAreThePublished
<1> QED BY <1>2, ServicesInitInv, ServicesStepInv, PTL DEF USpec

\* Payments that did not miss one another keep the daily and the monthly cap
\* and go through once for an end-to-end id; the answer of a screening is one
\* of the last minute; and the portal serves no more than its cap and takes a
\* comment from no request that it turned away: for any number of payments,
\* sessions, processes, entries and requests.
THEOREM ChecksKnow == USpec => []ChecksKnowWhatWasCommitted
<1>1. ServicesInv => ChecksKnowWhatWasCommitted
  BY WatchImplies, PortalImplies
  DEF ServicesInv, LimitsInv, WatchInv, ChecksKnowWhatWasCommitted
<1> QED BY <1>1, ServicesInitInv, ServicesStepInv, PTL DEF USpec

\* A fraud rule in force was approved by another user than its proposer,
\* unless the proposal was replaced in between; a verdict gets no milder with
\* more against a payment; and a scan that the graph did not change under
\* finds the rings there are: for any number of users, accounts and payments.
THEOREM FraudIsJudged == USpec => []FraudIsJudgedByTheRules
<1>1. ServicesInv => FraudIsJudgedByTheRules
  BY FraudVerdicts, GraphImplies
  DEF ServicesInv, FraudInv, GraphInv, FraudIsJudgedByTheRules
<1> QED BY <1>1, ServicesInitInv, ServicesStepInv, PTL DEF USpec

\* Hash chains verify unless two transactions that write to one overlap, a
\* completed reconciliation has a break, one, where the sides differ and
\* nowhere else, a payment is confirmed with two receipts of one key that
\* verifies, and the books tell what was promised abroad: for any number of
\* writers, rows, runs, keys and transfers.
THEOREM TrailsTrue == USpec => []TrailsAreTrue
<1>1. ServicesInv => TrailsAreTrue
  BY ChainsTell, ReconTells
  DEF ServicesInv, ChainsInv, ReconInv, ReceiptsInv, FxInv, TrailsAreTrue
<1> QED BY <1>1, ServicesInitInv, ServicesStepInv, PTL DEF USpec

=============================================================================
