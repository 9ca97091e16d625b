------------------------- MODULE MCDeployLifecycle -------------------------
(* Instances of DeployLifecycle for TLC. *)
EXTENDS DeployLifecycle, TLC

CONSTANTS acme, beta, city, t1, t2, k1, k2

OneCustomer == {acme}
TwoCustomers == {acme, beta}
ThreeCustomers == {acme, beta, city}
OneTask == {t1}
TwoTasks == {t1, t2}
TwoKeys == {k1, k2}

\* No customer's name is part of another's.
OwnContainers == [c \in Customers |-> {c}]
\* acme's filter also matches beta's containers (say acme and acme2).
SharedPrefix == [c \in Customers |-> IF c = acme THEN Customers ELSE {c}]

TaskSymmetry == Permutations(Tasks) \cup Permutations(Keys)
AllSymmetry == Permutations(Tasks) \cup Permutations(Keys) \cup Permutations(Customers)
=============================================================================
