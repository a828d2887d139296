------------------------------- MODULE Server -------------------------------
(***************************************************************************)
(* server.py: the process that keeps one host's shares.dta (shares other    *)
(* hosts handed it) and secrets.dta (its own secrets' metadata), and the    *)
(* four routes over them.  bottle's WSGIRefServer handles one connection at *)
(* a time, so a handler is one atomic action; what a handler does to memory *)
(* and to the encrypted file are two different things, since persisting can *)
(* fail (an OSError of cryptofile.save becomes a 500) after memory changed. *)
(* This module is open: modules that extend it say who sends requests.      *)
(***************************************************************************)
EXTENDS ShareDecoder, Sequences

CONSTANTS
    Host,        \* machines, each running one server
    CommonName,  \* CNs of certificates, as sequences of DNS labels
    OwnName,     \* the name of a host's own "local" entry in hosts.dta
    None         \* absent: dict.get() returned None, no certificate

ASSUME NamesAssumption ==
    /\ OwnName \in [Host -> OwnerName]
    /\ None \notin Payload

VARIABLES
    up,          \* the server runs and its port is bound
    shares,      \* app.config["shares"]["shares"] of a running server
    sharesDta,   \* the content of data/shares.dta
    secrets,     \* app.config["secrets"]["secrets"] of a running server
    secretsDta   \* the content of data/secrets.dta

serverVars == <<up, shares, sharesDta, secrets, secretsDta>>

Record == [uuid : UUID, treshold : Nat, shares_saved : Nat]

ASSUME NoneIsNoRecord == None \notin Record

EmptyShares == [u \in UUID |-> None]
EmptySecrets == [n \in Name |-> None]

ServerTypeOk ==
    /\ up \in [Host -> BOOLEAN]
    /\ shares \in [Host -> [UUID -> Payload \cup {None}]]
    /\ sharesDta \in [Host -> [UUID -> Payload \cup {None}]]
    /\ secrets \in [Host -> [Name -> Record \cup {None}]]
    /\ secretsDta \in [Host -> [Name -> Record \cup {None}]]

\* A bootstrapped network: every server runs over empty files.
ServerInit ==
    /\ up = [h \in Host |-> TRUE]
    /\ shares = [h \in Host |-> EmptyShares]
    /\ sharesDta = [h \in Host |-> EmptyShares]
    /\ secrets = [h \in Host |-> EmptySecrets]
    /\ secretsDta = [h \in Host |-> EmptySecrets]

-----------------------------------------------------------------------------
(* Identity.  Names are case-folded here: both sides of the comparison are. *)

HostnameFromCommonName(cn) == SubSeq(cn, 1, 1)

\* Bug: any client certificate will do.
BugAnyOwner(cn, owner) == cn # None

OwnerMatches(cn, owner) == cn # None /\ HostnameFromCommonName(cn) = owner

-----------------------------------------------------------------------------
(* POST /shares/<uuid>.  `status` is the response.                          *)

\* Bug: an OSError while saving is swallowed.
BugUnsavedShares(h, status) ==
    /\ status = 201
    /\ \/ sharesDta' = [sharesDta EXCEPT ![h] = shares'[h]]
       \/ UNCHANGED sharesDta

\* _persist_shares() writes the whole dict, or raises and leaves the file.
PersistShares(h, status) ==
    \/ status = 201 /\ sharesDta' = [sharesDta EXCEPT ![h] = shares'[h]]
    \/ status = 500 /\ UNCHANGED sharesDta

ValidShare(path, body) == body.uuid = path /\ WellFormed(body)

\* `existing is not None` and different from the payload
Conflicts(h, path, body) == shares[h][path] \notin {None, body}

\* Bug: a different share under the same uuid takes the place of the old one.
BugReplaceShare(h, path, body, status) ==
    /\ shares[h][path] # body
    /\ shares' = [shares EXCEPT ![h][path] = body]
    /\ PersistShares(h, status)
    /\ UNCHANGED <<up, secrets, secretsDta>>

StoreNewShare(h, path, body, status) ==
    /\ shares[h][path] = None
    /\ shares' = [shares EXCEPT ![h][path] = body]
    /\ PersistShares(h, status)
    /\ UNCHANGED <<up, secrets, secretsDta>>

StoreShare(h, cn, path, body, status) ==
    /\ up[h]
    /\ \/ /\ ~ValidShare(path, body)
          /\ status = 400 /\ UNCHANGED serverVars
       \/ /\ ValidShare(path, body)
          /\ ~OwnerMatches(cn, body.owner)
          /\ status = 403 /\ UNCHANGED serverVars
       \/ /\ ValidShare(path, body)
          /\ OwnerMatches(cn, body.owner)
          /\ \/ /\ shares[h][path] = body
                /\ status = 200 /\ UNCHANGED serverVars
             \/ /\ Conflicts(h, path, body)
                /\ status = 409 /\ UNCHANGED serverVars
             \/ StoreNewShare(h, path, body, status)

\* GET /shares/<uuid> changes nothing: the status it answers with.
GetShareStatus(h, cn, u) ==
    IF shares[h][u] = None THEN 404
    ELSE IF OwnerMatches(cn, shares[h][u].owner) THEN 200 ELSE 403

-----------------------------------------------------------------------------
(* POST and GET /secrets/<name>.  last_updated is not modelled.             *)

\* Bug: an OSError while saving is swallowed.
BugUnsavedSecrets(h, status) ==
    /\ status = 201
    /\ \/ secretsDta' = [secretsDta EXCEPT ![h] = secrets'[h]]
       \/ UNCHANGED secretsDta

PersistSecrets(h, status) ==
    \/ status = 201 /\ secretsDta' = [secretsDta EXCEPT ![h] = secrets'[h]]
    \/ status = 500 /\ UNCHANGED secretsDta

StoreSecretMetadata(h, cn, n, record, status) ==
    /\ up[h]
    /\ \/ /\ record \notin Record
          /\ status = 400 /\ UNCHANGED serverVars
       \/ /\ record \in Record
          /\ ~OwnerMatches(cn, OwnName[h])
          /\ status = 403 /\ UNCHANGED serverVars
       \/ /\ record \in Record
          /\ OwnerMatches(cn, OwnName[h])
          /\ secrets' = [secrets EXCEPT ![h][n] = record]
          /\ PersistSecrets(h, status)
          /\ UNCHANGED <<up, shares, sharesDta>>

GetSecretMetadataStatus(h, cn, n) ==
    IF ~OwnerMatches(cn, OwnName[h]) THEN 403
    ELSE IF secrets[h][n] = None THEN 404 ELSE 200

-----------------------------------------------------------------------------
(* The process dies: what was only in memory is gone.                       *)
CrashServer(h) ==
    /\ up[h]
    /\ up' = [up EXCEPT ![h] = FALSE]
    /\ shares' = [shares EXCEPT ![h] = EmptyShares]
    /\ secrets' = [secrets EXCEPT ![h] = EmptySecrets]
    /\ UNCHANGED <<sharesDta, secretsDta>>

\* Bug: an existing shares.dta is not loaded.
BugStartEmpty(h) ==
    /\ ~up[h]
    /\ up' = [up EXCEPT ![h] = TRUE]
    /\ shares' = [shares EXCEPT ![h] = EmptyShares]
    /\ secrets' = [secrets EXCEPT ![h] = secretsDta[h]]
    /\ UNCHANGED <<sharesDta, secretsDta>>

\* main(): ensure_secrets_file() and ensure_shares_file() load the files (a
\* missing one is created empty) before the port is bound.
StartServer(h) ==
    /\ ~up[h]
    /\ up' = [up EXCEPT ![h] = TRUE]
    /\ shares' = [shares EXCEPT ![h] = sharesDta[h]]
    /\ secrets' = [secrets EXCEPT ![h] = secretsDta[h]]
    /\ UNCHANGED <<sharesDta, secretsDta>>

-----------------------------------------------------------------------------
(* Everything on disk is also in the memory of a running server, unchanged: *)
(* the file lags memory by failed saves only, and no route removes or       *)
(* replaces a share.                                                        *)
DiskInMemory ==
    \A h \in Host, u \in UUID :
        up[h] /\ sharesDta[h][u] # None => shares[h][u] = sharesDta[h][u]

=============================================================================
