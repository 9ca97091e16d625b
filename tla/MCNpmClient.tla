---------------------------- MODULE MCNpmClient ----------------------------
(* Instances of NpmClient for TLC. *)
EXTENDS NpmClient, TLC

CONSTANTS acme, beta, c1, c2

OneDomain == {acme}
TwoDomains == {acme, beta}
OneCall == {c1}
TwoCalls == {c1, c2}
=============================================================================
