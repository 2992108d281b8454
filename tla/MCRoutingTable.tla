--------------------------- MODULE MCRoutingTable ---------------------------
(* Two bootstrap hosts queried one per batch, one node that sends datagrams,  *)
(* a queue of two sends and three transaction IDs, so that batches span timer *)
(* expiries, the queue fills and the transaction counter wraps.               *)
EXTENDS RoutingTable

CONSTANTS h1, h2, r1, p1

MCBootstrapHosts == <<h1, h2>>
=============================================================================
