---------------------------- MODULE OverlayCalls ----------------------------
(***************************************************************************)
(* How the calls of the overlays work on their rows: one transaction reads *)
(* the row without a lock and tests the copy, the orchestrator pays in a   *)
(* transaction of its own, and the outcome is written by the row's key     *)
(* over whatever the row has come to.  Nothing undoes the payment if the   *)
(* call dies before it writes.                                             *)
(***************************************************************************)
EXTENDS PaymentPort

CONSTANTS Rows, Calls,
          None          \* neither a row nor a key

VARIABLES
  row,          \* rows of the overlay's table
  call,         \* calls that have read a row
  overtaken,    \* history: rows written over another state than the one read
  unheard       \* history: confirmed payments that their row was not told of

ovars == <<tx, row, call, overtaken, unheard>>

Steps == {"idle", "read", "paying", "answered"}

Idle == [op |-> "none", on |-> None, key |-> None, step |-> "idle",
         seen |-> "ABSENT", answer |-> "ERROR"]

Call(operations, states) ==
  [op : operations \cup {"none"}, on : Rows \cup {None}, key : Keys \cup {None},
   step : Steps, seen : states, answer : Answers]

CallsInit(absent) ==
  /\ PortInit
  /\ row = [r \in Rows |-> absent]
  /\ call = [c \in Calls |-> Idle]
  /\ overtaken = {}
  /\ unheard = {}

Ends(c) == call' = [call EXCEPT ![c] = Idle]

\* The copy is read, and will be written at "read", or first paid.
Reads(c, op, r, key, step) ==
  /\ call[c].step = "idle"
  /\ call' = [call EXCEPT ![c] = [op |-> op, on |-> r, key |-> key, step |-> step,
                                  seen |-> row[r].state, answer |-> "ERROR"]]
  /\ UNCHANGED <<tx, row, overtaken, unheard>>

\* An error of the orchestrator ends the call, and the row is not touched.
Pays(c) ==
  /\ call[c].step = "paying"
  /\ \E answer \in Answers :
       /\ process(call[c].key, answer)
       /\ IF answer = "ERROR"
            THEN Ends(c) /\ UNCHANGED unheard
            ELSE /\ call' = [call EXCEPT ![c].step = "answered", ![c].answer = answer]
                 /\ unheard' = IF answer = "CONFIRMED" THEN unheard \cup {call[c].key}
                                                       ELSE unheard
  /\ UNCHANGED <<row, overtaken>>

\* A write by the row's key.
Writes(c, r, written) ==
  /\ row' = [row EXCEPT ![r] = written]
  /\ overtaken' = IF row[r].state = call[c].seen THEN overtaken ELSE overtaken \cup {r}

\* The row is told the answer.
Hears(c) ==
  unheard' = IF call[c].answer = "CONFIRMED" THEN unheard \ {call[c].key} ELSE unheard

\* An error or a crash between two transactions.
Dies(c) ==
  /\ call[c].step # "idle"
  /\ Ends(c)
  /\ UNCHANGED <<tx, row, overtaken, unheard>>

\* A payment that recovery confirms is one its row is not told of.
RecoversUnheard(k) ==
  /\ Recovers(k)
  /\ unheard' = IF tx'[k] = "CONFIRMED" THEN unheard \cup {k} ELSE unheard
  /\ UNCHANGED <<row, call, overtaken>>

CallsTypeOK(rowType, operations, states) ==
  /\ PortTypeOK
  /\ row \in [Rows -> rowType]
  /\ call \in [Calls -> Call(operations, states)]
  /\ overtaken \subseteq Rows
  /\ unheard \subseteq Keys

=============================================================================
