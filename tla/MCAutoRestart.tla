--------------------------- MODULE MCAutoRestart ---------------------------
(* Instances of AutoRestart for TLC. *)
EXTENDS AutoRestart, TLC

CONSTANTS acme, beta, t1, k1, k2

OneCustomer == {acme}
TwoCustomers == {acme, beta}
OneOperator == {t1, Poller}
TwoKeys == {k1, k2}
OneKey == {k1}

\* No customer's name is part of another's.
OwnContainers == [c \in Customers |-> {c}]

\* A state in which a crash has left half a deployment or half a removal is
\* checked and not explored further.
Idle(c) == \A t \in Tasks : task[t] # NULL => Cust(t) # c
NothingHalfDone ==
    \A c \in Customers : Idle(c) =>
        /\ customer[c] # "deploying"
        /\ row[c] = NULL => Nothing(c)
        /\ row[c] # NULL => Present(c) /\ stack[c] # NULL

CustomerSymmetry == Permutations(Customers)
=============================================================================
