----------------------------- MODULE MCKey1Boot -----------------------------
(* The smallest network setup accepts: four hosts, each with its own KEY1.  *)
EXTENDS Key1Boot, TLC

CONSTANTS a, b, c, d, distrusted, net

MCCert == [h \in Host |-> <<h>>]
MCCommonName == {<<h>> : h \in Host}

\* The names the operators type: bare or domain-qualified.
MCOwnName == [h \in Host |-> <<h>>]
MCQualifiedName == [h \in Host |-> <<h, net>>]
MCOwnerName == MCCommonName \cup {<<h, net>> : h \in Host}
MCKeyUuid == [h \in Host |-> h]

\* Nobody trusts `distrusted` any more, where there is such a host.
MCHostStatus == [h \in Host |-> [p \in Host |->
    IF p = h THEN "local" ELSE IF p = distrusted THEN "compromised" ELSE "default"]]

Symmetry == Permutations(Host \ {distrusted})
=============================================================================
