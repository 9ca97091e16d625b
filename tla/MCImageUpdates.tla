--------------------------- MODULE MCImageUpdates ---------------------------
(* Instances of ImageUpdates for TLC. *)
EXTENDS ImageUpdates, TLC

CONSTANTS acme, beta, management, relay, manual, poller

OneCustomer == {acme}
TwoCustomers == {acme, beta}
TwoServices == {management, relay}
OneService == {management}
TwoJobs == {poller, manual}

\* Nothing tells the services of a customer apart.
ServiceSymmetry == Permutations(Services)
=============================================================================
