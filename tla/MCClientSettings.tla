-------------------------- MODULE MCClientSettings --------------------------
(* Instances of ClientSettings for TLC. *)
EXTENDS ClientSettings, TLC

CONSTANTS acme, beta, r1, disabled, latest

TwoCustomers == {acme, beta}
OneRequest == {r1}
TwoPairs == {disabled, latest}

CustomerSymmetry == Permutations(Customers)
=============================================================================
