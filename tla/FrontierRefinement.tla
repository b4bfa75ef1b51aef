------------------------- MODULE FrontierRefinement -------------------------
(***************************************************************************)
(* The Redis frontier implements UrlDelivery: per-host lists, the lease    *)
(* ZSET and the payload HASH are the sets of the abstract specification.   *)
(***************************************************************************)
EXTENDS Frontier

QueuedUrls == {u \in Urls : Queued(u)}
LeasedUrls == {u \in Urls : Leased(u)}

Delivery == INSTANCE UrlDelivery
              WITH known <- seen, accepted <- admitted, queued <- QueuedUrls,
                   leased <- LeasedUrls, payload <- urls, acked <- acked

\* Every script and command of the frontier is one abstract step or none: a
\* URL is accepted once, a claim moves it from queued to leased, a reclaim
\* moves it back, and an ack removes it without touching any other URL.
ImplementsDelivery == Delivery!DeliverySpec
=============================================================================
