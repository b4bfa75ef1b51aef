---------------------------- MODULE UrlDelivery -----------------------------
(***************************************************************************)
(* What the Frontier trait promises its callers, without shards, hosts,    *)
(* wake-times or a clock: a URL is accepted once, delivered under a lease, *)
(* delivered again when the lease lapses, and gone once acknowledged.      *)
(* Frontier implements this specification (FrontierRefinement); Pipeline   *)
(* builds the workers on it.                                               *)
(***************************************************************************)
CONSTANT Urls

VARIABLES
  known,         \* URLs the seen-set answers "duplicate" for
  accepted,      \* URLs a submit ever queued
  queued,        \* waiting for a claim
  leased,        \* delivered, lease running
  payload,       \* entries a claim can still return
  acked          \* URLs some caller acknowledged

delivery == <<known, accepted, queued, leased, payload, acked>>

DeliveryInit ==
  /\ known = {} /\ accepted = {} /\ queued = {}
  /\ leased = {} /\ payload = {} /\ acked = {}

\* A submit of a URL the seen-set does not know.
Accept(u) ==
  /\ u \notin known
  /\ known' = known \cup {u} /\ accepted' = accepted \cup {u}
  /\ queued' = queued \cup {u} /\ payload' = payload \cup {u}
  /\ UNCHANGED <<leased, acked>>

\* A submit the seen-set answers as a duplicate, rightly or not.
Suppress(u) ==
  /\ known' = known \cup {u}
  /\ UNCHANGED <<accepted, queued, leased, payload, acked>>

\* A claim takes a queued URL under a lease.
Deliver(u) ==
  /\ u \in queued
  /\ queued' = queued \ {u} /\ leased' = leased \cup {u}
  /\ UNCHANGED <<known, accepted, payload, acked>>

\* The lease lapsed: the URL is queued again, whoever still works on it.
Redeliver(u) ==
  /\ u \in leased
  /\ leased' = leased \ {u} /\ queued' = queued \cup {u}
  /\ UNCHANGED <<known, accepted, payload, acked>>

\* The two commands of an acknowledgement.
Release(u) ==
  /\ leased' = leased \ {u} /\ acked' = acked \cup {u}
  /\ UNCHANGED <<known, accepted, queued, payload>>

Forget(u) ==
  /\ u \in acked
  /\ payload' = payload \ {u}
  /\ UNCHANGED <<known, accepted, queued, leased, acked>>

DeliveryNext ==
  \E u \in Urls :
    \/ Accept(u) \/ Suppress(u) \/ Deliver(u) \/ Redeliver(u)
    \/ Release(u) \/ Forget(u)

DeliverySpec == DeliveryInit /\ [][DeliveryNext]_delivery
=============================================================================
