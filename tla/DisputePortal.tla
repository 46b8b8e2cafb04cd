---------------------------- MODULE DisputePortal ----------------------------
(***************************************************************************)
(* The customers' window on their disputes (modules/disputes/              *)
(* customer-portal-service.js): no login, a case number with its           *)
(* fingerprint, and a limit on the requests of an address within a minute. *)
(*                                                                         *)
(* A request records its hit on a connection of its own, counts the hits   *)
(* of the last minute, itself among them, and is served or turned away.    *)
(***************************************************************************)
EXTENDS Naturals, FiniteSets

CONSTANTS Hits,      \* the requests of one address on one endpoint
          Cap,       \* disputesPortalRateLimitPerMin
          Knowing    \* a subset: the requests that carry the right fingerprint

VARIABLES
  recent,      \* hits of the last minute
  past,        \* older ones, still in dispute_portal_hits
  request,     \* where each request is
  comments     \* requests that have left a row in dispute_comments

vars == <<recent, past, request, comments>>

Stages == {"new", "recorded", "served", "limited", "notFound"}

Init ==
  /\ recent = {}
  /\ past = {}
  /\ request = [h \in Hits |-> "new"]
  /\ comments = {}

recordHit(h) ==
  /\ request[h] = "new"
  /\ recent' = recent \cup {h}
  /\ request' = [request EXCEPT ![h] = "recorded"]
  /\ UNCHANGED <<past, comments>>

\* Mutant: one more than the cap.
AboveCap == Cardinality(recent) <= Cap + 1

WithinCap == Cardinality(recent) <= Cap

enforceRateLimit(h) ==
  /\ request[h] = "recorded" /\ ~WithinCap
  /\ request' = [request EXCEPT ![h] = "limited"]
  /\ UNCHANGED <<recent, past, comments>>

\* A wrong fingerprint and an unknown case are answered alike.
lookup(h) ==
  /\ request[h] = "recorded" /\ WithinCap
  /\ request' = [request EXCEPT ![h] = IF h \in Knowing THEN "served" ELSE "notFound"]
  /\ UNCHANGED <<recent, past, comments>>

comment(h) ==
  /\ request[h] = "recorded" /\ WithinCap /\ h \in Knowing
  /\ comments' = comments \cup {h}
  /\ request' = [request EXCEPT ![h] = "served"]
  /\ UNCHANGED <<recent, past>>

\* The minute slides on, and a request on its way may grow old with it.
Ages(h) ==
  /\ h \in recent
  /\ recent' = recent \ {h}
  /\ past' = past \cup {h}
  /\ UNCHANGED <<request, comments>>

\* Only rows older than a day go, which no request on its way is.
pruneOldHits ==
  /\ past # {}
  /\ \A h \in past : request[h] # "recorded"
  /\ past' = {}
  /\ UNCHANGED <<recent, request, comments>>

Next ==
  \/ \E h \in Hits : recordHit(h) \/ enforceRateLimit(h) \/ lookup(h) \/ comment(h) \/ Ages(h)
  \/ pruneOldHits

-----------------------------------------------------------------------------

TypeOK ==
  /\ recent \subseteq Hits /\ past \subseteq Hits
  /\ request \in [Hits -> Stages]
  /\ comments \subseteq Hits

\* However requests overlap, no more than the cap are served out of one
\* minute: each counts after it has recorded.  (A filing counts before it
\* inserts, and its limit can be overtaken.)
ServedWithinCap == Cardinality({h \in recent : request[h] \in {"served", "notFound"}}) <= Cap

\* A comment is left by who knows the fingerprint, and by no request that was
\* turned away.
CommentsAreServed == \A h \in comments : h \in Knowing /\ request[h] = "served"

=============================================================================
