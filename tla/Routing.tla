------------------------------- MODULE Routing -------------------------------
(***************************************************************************)
(* Routing (modules/routing): rules that give the participant of a BIC, of *)
(* an account number or of a phone number.  They are kept in a table, and  *)
(* in every server process in a cache that is replaced when a rule is      *)
(* added or removed there, inside the transaction that does it.            *)
(*                                                                         *)
(* A rule is a record [type, pattern, code, priority] with a pattern of    *)
(* digits; of a type, a pattern and a code there is one.                   *)
(***************************************************************************)
EXTENDS Integers, Sequences, SequencesExt

CONSTANTS Rules, Processes, Calls, None

VARIABLES
  rules,        \* rows of routing_rules, committed and active
  cache,        \* of every process: the rules, in their order
  call,         \* handlers, each in its process
  quiet         \* history: processes whose cache was replaced by a handler
                \* that overlapped with none, and after which none changed a rule

rvars == <<rules, cache, call, quiet>>

Same(r, s) == r.type = s.type /\ r.pattern = s.pattern /\ r.code = s.code

Ops == {"add", "remove", "reload"}

Handler == [op : Ops \cup {"none"}, rule : Rules \cup {None}, in : Processes \cup {None},
            step : {"start", "wrote", "loaded", "replaced"}, loaded : SUBSET Rules,
            alone : BOOLEAN]

Idle == [op |-> "none", rule |-> None, in |-> None, step |-> "start", loaded |-> {},
         alone |-> FALSE]

RInit ==
  /\ rules = {}
  /\ cache = [p \in Processes |-> <<>>]
  /\ call = [c \in Calls |-> Idle]
  /\ quiet = {}

-----------------------------------------------------------------------------
(* The cache.                                                              *)

\* Mutant: the longest pattern comes first whatever the priorities.
BeforeByLength(r, s) ==
  \/ Len(r.pattern) > Len(s.pattern)
  \/ Len(r.pattern) = Len(s.pattern) /\ r.priority < s.priority

Before(r, s) ==
  \/ r.priority < s.priority
  \/ r.priority = s.priority /\ Len(r.pattern) > Len(s.pattern)

\* The sort is stable: rules that tie stay as the table returned them, in any
\* order; one is taken.
Sorted(set) ==
  CHOOSE order \in SetToSeqs(set) :
    \A i, j \in DOMAIN order : i < j => ~Before(order[j], order[i])

replaceWith(p, set) == cache' = [cache EXCEPT ![p] = Sorted(set)]

FirstOf(order, places) == IF places = {} THEN None ELSE order[Min(places)]

lookupExact(order, type, value) ==
  FirstOf(order, {i \in DOMAIN order : order[i].type = type /\ order[i].pattern = value})

lookupLongestPrefix(order, type, value) ==
  FirstOf(order, {i \in DOMAIN order : order[i].type = type /\ IsPrefix(order[i].pattern, value)})

\* resolve, for an input [bic, account, msisdn] of which any may be None.
resolve(order, input) ==
  LET byBic == IF input.bic = None THEN None ELSE lookupExact(order, "BIC", input.bic)
      byBin == IF input.account = None THEN None
               ELSE lookupLongestPrefix(order, "BIN", input.account)
      byMsisdn == IF input.msisdn = None THEN None
                  ELSE lookupLongestPrefix(order, "MSISDN_PREFIX", input.msisdn)
  IN  IF byBic # None THEN byBic ELSE IF byBin # None THEN byBin ELSE byMsisdn

-----------------------------------------------------------------------------
(* The handlers.                                                           *)

\* Every handler that is under way loses its quiet.
Begins(c, p, op, rule) ==
  /\ call[c] = Idle
  /\ call' = [d \in Calls |->
       IF d = c THEN [Idle EXCEPT !.op = op, !.rule = rule, !.in = p,
                                  !.alone = \A e \in Calls \ {c} : call[e] = Idle]
       ELSE IF call[d] = Idle THEN Idle ELSE [call[d] EXCEPT !.alone = FALSE]]
  /\ UNCHANGED <<rules, cache, quiet>>

addRule(c, p, rule) == Begins(c, p, "add", rule)

removeRule(c, p, rule) == rule \in rules /\ Begins(c, p, "remove", rule)

\* Asked for, or by the first resolve of a process.
reload(c, p) == Begins(c, p, "reload", None)

\* insertRule and removeRule of the model: what others read changes at the
\* commit, for which another writer of the row waits.  A rule that is gone is
\* not found.
WritesRule(c) ==
  /\ call[c].op \in {"add", "remove"} /\ call[c].step = "start"
  /\ call[c].op = "remove" => call[c].rule \in rules
  /\ \A d \in Calls : call[d].step # "start" /\ call[d].rule # None =>
       ~Same(call[d].rule, call[c].rule)
  /\ call' = [call EXCEPT ![c].step = "wrote"]
  /\ UNCHANGED <<rules, cache, quiet>>

After(c) ==
  LET r == call[c].rule IN
  CASE call[c].op = "add" -> {s \in rules : ~Same(r, s)} \cup {r}
    [] call[c].op = "remove" -> rules \ {r}
    [] OTHER -> rules

\* Mutant: the rules are loaded on another connection.
VisibleToOthers(c) == rules

Visible(c) == After(c)

loadAllActive(c) ==
  /\ call[c] # Idle
  /\ call[c].step = IF call[c].op = "reload" THEN "start" ELSE "wrote"
  /\ call' = [call EXCEPT ![c].step = "loaded", ![c].loaded = Visible(c)]
  /\ UNCHANGED <<rules, cache, quiet>>

Replaces(c) ==
  /\ call[c].step = "loaded"
  /\ replaceWith(call[c].in, call[c].loaded)
  /\ IF call[c].op = "reload"
       THEN /\ call' = [call EXCEPT ![c] = Idle]
            /\ quiet' = IF call[c].alone THEN quiet \cup {call[c].in} ELSE quiet \ {call[c].in}
       ELSE /\ call' = [call EXCEPT ![c].step = "replaced", ![c].loaded = {}]
            /\ quiet' = quiet \ {call[c].in}
  /\ UNCHANGED rules

Commits(c) ==
  /\ call[c].step = "replaced"
  /\ rules' = After(c)
  /\ quiet' = IF call[c].alone THEN {call[c].in} ELSE {}
  /\ call' = [call EXCEPT ![c] = Idle]
  /\ UNCHANGED cache

\* The audit event, or the commit, fails: the cache stays as it was replaced.
RollsBack(c) ==
  /\ call[c] # Idle
  /\ call' = [call EXCEPT ![c] = Idle]
  /\ UNCHANGED <<rules, cache, quiet>>

RNext ==
  \E c \in Calls :
    \/ \E p \in Processes :
         \/ \E r \in Rules : addRule(c, p, r) \/ removeRule(c, p, r)
         \/ reload(c, p)
    \/ WritesRule(c) \/ loadAllActive(c) \/ Replaces(c) \/ Commits(c) \/ RollsBack(c)

-----------------------------------------------------------------------------

RTypeOK ==
  /\ rules \subseteq Rules
  /\ \A p \in Processes : cache[p] \in Seq(Rules)
  /\ call \in [Calls -> Handler]
  /\ quiet \subseteq Processes

\* After a handler that overlapped with no other, the process that ran it
\* routes by the table, until a rule is changed elsewhere: what others had put
\* into its cache, overtaken or rolled back, is gone.
QuietCacheIsTheTable == \A p \in quiet : ToSet(cache[p]) = rules

\* The rule found first in a table is one that fits, of the least priority, and
\* of those one with the longest pattern.
Matching(r, type, value) == r.type = type /\ IsPrefix(r.pattern, value)

FirstIsBest(tables, values) ==
  \A set \in tables, type \in {"BIN", "MSISDN_PREFIX"}, v \in values :
    LET found == lookupLongestPrefix(Sorted(set), type, v)
        fits == {r \in set : Matching(r, type, v)}
    IN  IF fits = {} THEN found = None
        ELSE /\ found \in fits
             /\ \A r \in fits :
                  \/ found.priority < r.priority
                  \/ found.priority = r.priority /\ Len(found.pattern) >= Len(r.pattern)

=============================================================================
