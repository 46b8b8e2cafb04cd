------------------------------ MODULE MuleRings ------------------------------
(***************************************************************************)
(* The network graph (modules/network-graph).  A payment that is confirmed *)
(* at once leaves an edge between its accounts.  A scan looks for rings of *)
(* accounts that pass about the same amount on, and raises an alert for    *)
(* each that it finds.                                                     *)
(*                                                                         *)
(* One currency, and rings only: structuring and bursts are one query of   *)
(* the transactions each.  The caps of a scan (200 accounts to start with, *)
(* 200 edges and 5 rings for each of them) are not reached.                *)
(***************************************************************************)
EXTENDS Integers, Sequences, FiniteSetsExt, Functions

CONSTANTS Accounts, None, Amounts,
          MaxPayments           \* bound

VARIABLES
  payments,     \* payments so far
  edge,         \* rows of graph_edges
  scan,         \* the scan, from its first query to its last
  alert         \* the rings that the last scan raised alerts for

mvars == <<payments, edge, scan, alert>>

Pairs == Accounts \X Accounts
Edge == [total : Nat, recent : BOOLEAN]
Graph == [Pairs -> Edge]
NoEdges == [e \in Pairs |-> [total |-> 0, recent |-> FALSE]]

\* The rings of up to six accounts that start at s, whatever the edges.
Paths(s) ==
  UNION {{p \in [1 .. n -> Accounts] : p[1] = s /\ IsInjective(p)} :
           n \in 3 .. Min({6, Cardinality(Accounts)})}
AllPaths == UNION {Paths(s) : s \in Accounts}

Scan == [step : {"idle", "collecting", "found"},
         left : SUBSET Accounts,        \* to start with
         at : Accounts \cup {None},     \* where it has started
         stack : SUBSET Accounts, seen : SUBSET Accounts, rows : Graph,
         rings : SUBSET AllPaths,
         quiet : BOOLEAN]               \* the graph did not change meanwhile
NoScan == [step |-> "idle", left |-> {}, at |-> None, stack |-> {}, seen |-> {},
           rows |-> NoEdges, rings |-> {}, quiet |-> TRUE]

MInit ==
  /\ payments = 0
  /\ edge = NoEdges
  /\ scan = NoScan
  /\ alert = {}

-----------------------------------------------------------------------------

\* Totals are those of all time.
upsertEdge(from, to, amount) ==
  /\ payments < MaxPayments
  /\ payments' = payments + 1
  /\ edge' = [edge EXCEPT ![<<from, to>>] = [total |-> @.total + amount, recent |-> TRUE]]
  /\ scan' = [scan EXCEPT !.quiet = (scan.step = "idle")]
  /\ UNCHANGED alert

\* The last payment along an edge has left the window.
Ages(e) ==
  /\ edge[e].recent
  /\ edge' = [edge EXCEPT ![e].recent = FALSE]
  /\ scan' = [scan EXCEPT !.quiet = (scan.step = "idle")]
  /\ UNCHANGED <<payments, alert>>

hotInboundAccounts == {a \in Accounts : \E b \in Accounts : edge[<<b, a>>].recent}

scanMuleRings ==
  /\ scan.step = "idle"
  /\ scan' = [NoScan EXCEPT !.step = "collecting", !.left = hotInboundAccounts]
  /\ UNCHANGED <<payments, edge, alert>>

StartsAt(s) ==
  /\ scan.step = "collecting" /\ scan.at = None
  /\ s \in scan.left
  /\ scan' = [scan EXCEPT !.left = @ \ {s}, !.at = s, !.stack = {s}, !.seen = {}, !.rows = NoEdges]
  /\ UNCHANGED <<payments, edge, alert>>

outgoingFrom(k) ==
  LET out == {b \in Accounts : edge[<<k, b>>].recent} IN
  /\ k \in scan.stack
  /\ scan' = [scan EXCEPT !.seen = @ \cup {k},
                          !.stack = (@ \cup out) \ (scan.seen \cup {k}),
                          !.rows = [e \in Pairs |-> IF e[1] = k /\ e[2] \in out THEN edge[e]
                                                    ELSE scan.rows[e]]]
  /\ UNCHANGED <<payments, edge, alert>>

Difference(x, y) == IF x > y THEN x - y ELSE y - x
within5Pct(x, y) == x # 0 /\ y # 0 /\ Difference(x, y) * 20 <= Max({x, y})

After(p, i) == IF i = Len(p) THEN p[1] ELSE p[i + 1]
TotalOf(rows, p, i) == rows[<<p[i], After(p, i)>>].total
IsRing(rows, p) == \A i \in DOMAIN p : rows[<<p[i], After(p, i)>>].recent

\* Mutant: an account that has been passed through is not passed again on
\* another path, and only rings of three are found.
findCyclesOfThree(rows, s) ==
  {p \in Paths(s) : Len(p) = 3 /\ IsRing(rows, p)
                    /\ \A i \in 2 .. Len(p) : TotalOf(rows, p, i) = TotalOf(rows, p, 1)}

\* All the ways from s through other accounts back to s; amounts are
\* compared with the first.
findCyclesFrom(rows, s) ==
  {p \in Paths(s) : IsRing(rows, p)
                    /\ \A i \in 2 .. Len(p) : within5Pct(TotalOf(rows, p, 1), TotalOf(rows, p, i))}

Searches ==
  /\ scan.at # None /\ scan.stack = {}
  /\ scan' = [scan EXCEPT !.rings = @ \cup findCyclesFrom(scan.rows, scan.at),
                          !.at = None, !.seen = {}, !.rows = NoEdges]
  /\ UNCHANGED <<payments, edge, alert>>

Ends ==
  /\ scan.step = "collecting" /\ scan.left = {} /\ scan.at = None
  /\ scan' = [scan EXCEPT !.step = "found"]
  /\ UNCHANGED <<payments, edge, alert>>

\* Each ring is raised as often as it has accounts, and again by every scan.
persistAlerts ==
  /\ scan.step = "found"
  /\ alert' = scan.rings
  /\ scan' = NoScan
  /\ UNCHANGED <<payments, edge>>

Fails ==
  /\ scan.step # "idle"
  /\ scan' = NoScan
  /\ UNCHANGED <<payments, edge, alert>>

MNext ==
  \/ \E from, to \in Accounts, amount \in Amounts : upsertEdge(from, to, amount)
  \/ \E e \in Pairs : Ages(e)
  \/ \E a \in Accounts : StartsAt(a) \/ outgoingFrom(a)
  \/ scanMuleRings \/ Searches \/ Ends \/ persistAlerts \/ Fails

-----------------------------------------------------------------------------

MTypeOK ==
  /\ payments \in 0 .. MaxPayments
  /\ edge \in Graph
  /\ scan \in Scan
  /\ alert \subseteq AllPaths

\* The totals along a ring, as a set.
Along(p) == {TotalOf(edge, p, i) : i \in DOMAIN p}

\* A scan that nothing interrupts has found, of the accounts that it is
\* through with, every ring whose totals are within 5 % of each other; and what
\* it has found are rings whose totals differ by 10 % at most.
QuietScanFindsTheRings ==
  scan.step # "idle" /\ scan.quiet =>
    /\ \A p \in AllPaths :
         /\ p[1] \notin scan.left \cup {scan.at}
         /\ IsRing(edge, p)
         /\ \A x, y \in Along(p) : within5Pct(x, y)
         => p \in scan.rings
    /\ \A p \in scan.rings :
         IsRing(edge, p) /\ \A x, y \in Along(p) : Difference(x, y) * 10 <= Max({x, y})

=============================================================================
