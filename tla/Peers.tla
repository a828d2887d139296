------------------------------- MODULE Peers -------------------------------
(***************************************************************************)
(* What everything that calls other hosts' servers has in common: whom it   *)
(* trusts (hosts_data.py over hosts.json), the shares a split hands out     *)
(* (shamir.py) and how it reads an answer (peer_client.py).                 *)
(***************************************************************************)
EXTENDS Server

CONSTANTS
    Cert,       \* the CN of a machine's certificate
    HostStatus  \* HostStatus[h][p]: the status of p in h's hosts.json

UntrustedStatuses == {"compromised", "deleted", "disappeared"}

\* hosts_data.trusted_peers()
TrustedPeers(h) ==
    {p \in Host \ {h} : HostStatus[h][p] \notin UntrustedStatuses}

\* The share meant for peer p when host h splits something under uuid u:
\* iterate_participants() yields one column per peer, all with different
\* x-coordinates.
Column(h, n, u, p, treshold, shareCount) ==
    [uuid |-> u, owner |-> OwnName[h], name |-> n,
     treshold |-> treshold, shares |-> shareCount, x |-> p, intact |-> TRUE]

\* Bug: an answer of any kind counts.
BugAnyAnswer(status) == status \in {200, 201, 500}

\* peer_client.store_share(), record_secret(): which answers count as stored
Confirms(status) == status \in {200, 201}

=============================================================================
