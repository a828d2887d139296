------------------------- MODULE SecretStoreRefines -------------------------
(***************************************************************************)
(* The commands and servers of SecretStore implement SecretRegister.        *)
(***************************************************************************)
EXTENDS SecretStore

\* The version a record names, if there is a record.
VersionOf(record) == IF record = None THEN None ELSE record.uuid

Recoverable ==
    {u \in UUID : split[u] # None /\ Cardinality(Holders(u)) >= split[u].treshold}

Register == INSTANCE SecretRegister WITH
    Version <- UUID,
    Absent <- None,
    recoverable <- Recoverable,
    current <- [h \in Host |-> [n \in Name |-> VersionOf(secrets[h][n])]],
    durable <- [h \in Host |-> [n \in Name |-> VersionOf(secretsDta[h][n])]],
    told <- acked

\* store-secret records a version at its own server only after treshold peers
\* confirmed their shares, and prints OK only for a record that is in
\* secrets.dta (secretweb_client.store_secret_cmd, server.store_secret_metadata).
ImplementsRegister == Register!Spec

=============================================================================
