--------------------------- MODULE MCSecretStore ---------------------------
(* Commands on host o; the other hosts are its peers.                        *)
EXTENDS SecretStoreRefines, TLC

CONSTANTS o, p1, p2, p3, q, c1, c2

MCCert == [h \in Host |-> <<h>>]
MCOwnName == [h \in Host |-> <<h>>]
MCCommonName == {<<h>> : h \in Host}
MCName == {"s"}

\* Every command runs on o.
MCHostOf == [c \in Client |-> o]

\* q, where there is one, is a host nobody trusts any more.
MCHostStatus == [h \in Host |-> [p \in Host |->
    IF p = h THEN "local" ELSE IF p = q THEN "compromised" ELSE "default"]]

Symmetry == Permutations(Host \ {o, q}) \cup Permutations(UUID)
            \cup Permutations(Client)
=============================================================================
