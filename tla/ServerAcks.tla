----------------------------- MODULE ServerAcks -----------------------------
(***************************************************************************)
(* The servers of Server.tla with clients that may send anything, and what  *)
(* the servers have answered so far: the promises a host has made to the    *)
(* owners of the shares it holds and to its own client.  Any number of      *)
(* retries, conflicting posts, failed saves, crashes and restarts may come  *)
(* between an answer and the moment it matters.                             *)
(***************************************************************************)
EXTENDS Server

CONSTANTS
    Submitted,         \* bodies clients post to /shares/<uuid>
    SubmittedRecords   \* bodies clients post to /secrets/<name>

ASSUME SubmittedAssumption == Submitted \subseteq Payload

VARIABLES
    posted,   \* history: the share posts that reached the dict or were in it
    since     \* history: per host and name, the records posted since (and
              \* with) the last one answered 201; {} before the first
historyVars == <<posted, since>>
vars == <<serverVars, historyVars>>

Answer == [host : Host, by : {HostnameFromCommonName(cn) : cn \in CommonName},
           body : Payload, status : {200, 201, 500}]

TypeOk ==
    /\ ServerTypeOk
    /\ posted \subseteq Answer
    /\ since \in [Host -> [Name -> SUBSET Record]]

Init ==
    /\ ServerInit
    /\ posted = {}
    /\ since = [h \in Host |-> [n \in Name |-> {}]]

PostShare(h, cn, path, body, status) ==
    /\ StoreShare(h, cn, path, body, status)
    /\ posted' = IF status \in {200, 201, 500}
                 THEN posted \cup {[host |-> h, by |-> HostnameFromCommonName(cn),
                                    body |-> body, status |-> status]}
                 ELSE posted
    /\ UNCHANGED since

PostSecret(h, cn, n, record, status) ==
    /\ StoreSecretMetadata(h, cn, n, record, status)
    /\ since' = CASE status = 201 -> [since EXCEPT ![h][n] = {record}]
                  [] status = 500 -> [since EXCEPT ![h][n] =
                                        IF @ = {} THEN {} ELSE @ \cup {record}]
                  [] OTHER -> since
    /\ UNCHANGED posted

Crash(h) == CrashServer(h) /\ UNCHANGED historyVars

Start(h) == StartServer(h) /\ UNCHANGED historyVars

ShareStatus == {200, 201, 400, 403, 409, 500}
SecretStatus == {201, 400, 403, 500}

Next ==
    \E h \in Host :
        \/ \E cn \in CommonName \cup {None}, path \in UUID, body \in Submitted,
              status \in ShareStatus : PostShare(h, cn, path, body, status)
        \/ \E cn \in CommonName \cup {None}, n \in Name,
              record \in SubmittedRecords, status \in SecretStatus :
                PostSecret(h, cn, n, record, status)
        \/ Crash(h)
        \/ Start(h)

Spec == Init /\ [][Next]_vars

-----------------------------------------------------------------------------
(* A 201 is a durable promise: whatever is posted, fails to be saved,       *)
(* crashes or restarts later, the share is in the file as it was posted     *)
(* (server.store_share answers 201 only after _persist_shares returned).    *)
StoredShareDurable ==
    \A a \in posted : a.status = 201 =>
        sharesDta[a.host][a.body.uuid] = a.body

\* A share is only ever handed to the host that posted it, and as that host
\* posted it: the owner checks of store_share and get_share, the conflict
\* check and a reload of the file together.
ServedToStorer ==
    \A h \in Host, u \in UUID, cn \in CommonName \cup {None} :
        up[h] /\ GetShareStatus(h, cn, u) = 200 =>
            \E a \in posted : /\ a.host = h /\ a.body = shares[h][u]
                              /\ a.by = HostnameFromCommonName(cn)
                              /\ a.body.uuid = u

\* After a record was answered 201, what GET /secrets/<name> serves and what
\* a restart would load is that record or one posted after it, never an
\* older one and never nothing (store_secret_metadata, _persist_secrets).
RecordNeverReverts ==
    \A h \in Host, n \in Name : since[h][n] # {} =>
        /\ secretsDta[h][n] \in since[h][n]
        /\ up[h] => secrets[h][n] \in since[h][n]

\* s is held under u because its owner posted it here.
PostedByOwner(h, u, s) ==
    \E a \in posted : a.host = h /\ a.body = s /\ a.by = s.owner /\ s.uuid = u

HeldWasPosted ==
    \A h \in Host, u \in UUID :
        /\ shares[h][u] # None => PostedByOwner(h, u, shares[h][u])
        /\ sharesDta[h][u] # None => PostedByOwner(h, u, sharesDta[h][u])

\* Why the answers stay true: no file is ahead of memory (a save writes all of
\* memory over the file), and whatever is held, in memory or in the file a
\* restart loads, was posted here by its owner (server._persist_shares,
\* server.store_share, server.ensure_shares_file).
AcksInv ==
    /\ TypeOk /\ DiskInMemory
    /\ StoredShareDurable /\ HeldWasPosted /\ RecordNeverReverts

\* A held share never changes while the server keeps it, and a share in the
\* file never changes at all: re-submission is refused or a no-op.
HeldSharesImmutable ==
    [][\A h \in Host, u \in UUID :
        /\ up[h] /\ up'[h] /\ shares[h][u] # None => shares'[h][u] = shares[h][u]
        /\ sharesDta[h][u] # None => sharesDta'[h][u] = sharesDta[h][u]]_vars

\* What README.md:39 asks of a peer ("confirm they've saved it") and
\* peer_client.store_share accepts as a confirmation: a 200 as well as a 201.
ConfirmedShareSaved ==
    \A a \in posted : a.status \in {200, 201} =>
        sharesDta[a.host][a.body.uuid] = a.body

=============================================================================
