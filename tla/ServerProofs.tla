---------------------------- MODULE ServerProofs ----------------------------
(***************************************************************************)
(* What each step of a server (Server.tla) does to its two stores, for any  *)
(* host, request and answer: the facts the proofs about ServerAcks and      *)
(* SecretStore are built from.                                              *)
(***************************************************************************)
EXTENDS Server, TLAPS

\* Nothing on any disk is lost or replaced in a step.
SharesStayOnDisk ==
    \A p \in Host, u \in UUID :
        sharesDta[p][u] # None => sharesDta'[p][u] = sharesDta[p][u]

\* server.store_share keeps the files inside memory, loses no saved share,
\* and touches no share but the one of its path.
LEMMA StoreShareSafe ==
  ASSUME ServerTypeOk, DiskInMemory,
         NEW h \in Host, NEW cn, NEW path \in UUID, NEW body \in Payload,
         NEW status, StoreShare(h, cn, path, body, status)
  PROVE  /\ ServerTypeOk' /\ DiskInMemory' /\ SharesStayOnDisk
         /\ UNCHANGED <<up, secrets, secretsDta>>
         /\ \A p \in Host, u \in UUID : p # h \/ u # path =>
              /\ shares'[p][u] = shares[p][u]
              /\ sharesDta'[p][u] # None => shares[p][u] # None \/ sharesDta[p][u] # None
<1> USE NamesAssumption
<1>1. CASE UNCHANGED serverVars
  BY <1>1 DEF serverVars, ServerTypeOk, DiskInMemory, SharesStayOnDisk
<1>2. CASE StoreNewShare(h, path, body, status)
  <2>1. /\ shares[h][path] = None /\ up[h]
        /\ shares' = [shares EXCEPT ![h][path] = body]
        /\ UNCHANGED <<up, secrets, secretsDta>>
    BY <1>2 DEF StoreNewShare, StoreShare
  <2>2. /\ shares' \in [Host -> [UUID -> Payload \cup {None}]]
        /\ \A p \in Host, u \in UUID :
              shares'[p][u] = IF p = h /\ u = path THEN body ELSE shares[p][u]
    BY <2>1 DEF ServerTypeOk
  <2>3. CASE UNCHANGED sharesDta
    BY <2>1, <2>2, <2>3 DEF ServerTypeOk, DiskInMemory, SharesStayOnDisk
  <2>4. CASE sharesDta' = [sharesDta EXCEPT ![h] = shares'[h]]
    <3>1. /\ sharesDta' \in [Host -> [UUID -> Payload \cup {None}]]
          /\ \A p \in Host, u \in UUID :
               sharesDta'[p][u] = IF p = h THEN shares'[h][u] ELSE sharesDta[p][u]
      BY <2>2, <2>4 DEF ServerTypeOk
    <3>2. SharesStayOnDisk
      BY <2>1, <2>2, <3>1 DEF DiskInMemory, SharesStayOnDisk
    <3> QED BY <2>1, <2>2, <3>1, <3>2 DEF ServerTypeOk, DiskInMemory
  <2> QED BY <1>2, <2>3, <2>4 DEF StoreNewShare, PersistShares
<1> QED BY <1>1, <1>2 DEF StoreShare

\* A share that memory and file do not know yet is stored, or refused, or
\* stored in memory only: a confirming answer means it is in the file.
LEMMA NewShareConfirmedIsSaved ==
  ASSUME ServerTypeOk,
         NEW h \in Host, NEW cn, NEW path \in UUID, NEW body \in Payload,
         NEW status, StoreShare(h, cn, path, body, status),
         shares[h][path] = None, status \in {200, 201}
  PROVE  sharesDta'[h][path] = body
<1> USE NamesAssumption
<1>1. StoreNewShare(h, path, body, status)
  BY DEF StoreShare
<1>2. sharesDta' = [sharesDta EXCEPT ![h] = shares'[h]]
  BY <1>1 DEF StoreNewShare, PersistShares
<1> QED BY <1>1, <1>2 DEF StoreNewShare, ServerTypeOk

\* server.store_secret_metadata writes one record, to memory or to both
\* memory and file, and the file is replaced by what memory holds.
LEMMA StoreSecretSafe ==
  ASSUME ServerTypeOk, DiskInMemory,
         NEW h \in Host, NEW cn, NEW n \in Name, NEW record,
         NEW status, StoreSecretMetadata(h, cn, n, record, status)
  PROVE  /\ ServerTypeOk' /\ DiskInMemory'
         /\ UNCHANGED <<up, shares, sharesDta>>
         /\ \A g \in Host, m \in Name :
              /\ secrets'[g][m] \in {secrets[g][m], record}
              /\ secrets'[g][m] = record \/ secrets'[g][m] = secrets[g][m]
              /\ secretsDta'[g][m] \in {secretsDta[g][m], secrets[g][m], record}
<1>1. CASE UNCHANGED serverVars
  BY <1>1 DEF serverVars, ServerTypeOk, DiskInMemory
<1>2. CASE /\ record \in Record
           /\ secrets' = [secrets EXCEPT ![h][n] = record]
           /\ PersistSecrets(h, status)
           /\ UNCHANGED <<up, shares, sharesDta>>
  <2>1. /\ secrets' \in [Host -> [Name -> Record \cup {None}]]
        /\ \A g \in Host, m \in Name :
              secrets'[g][m] = IF g = h /\ m = n THEN record ELSE secrets[g][m]
    BY <1>2 DEF ServerTypeOk
  <2>2. CASE UNCHANGED secretsDta
    BY <1>2, <2>1, <2>2 DEF ServerTypeOk, DiskInMemory
  <2>3. CASE secretsDta' = [secretsDta EXCEPT ![h] = secrets'[h]]
    <3>1. /\ secretsDta' \in [Host -> [Name -> Record \cup {None}]]
          /\ \A g \in Host, m \in Name :
               secretsDta'[g][m] = IF g = h THEN secrets'[h][m] ELSE secretsDta[g][m]
      BY <2>1, <2>3 DEF ServerTypeOk
    <3> QED BY <1>2, <2>1, <3>1 DEF ServerTypeOk, DiskInMemory
  <2> QED BY <1>2, <2>2, <2>3 DEF PersistSecrets
<1> QED BY <1>1, <1>2 DEF StoreSecretMetadata

\* A crash loses memory only.
LEMMA CrashSafe ==
  ASSUME ServerTypeOk, DiskInMemory, NEW h \in Host, CrashServer(h)
  PROVE  /\ ServerTypeOk' /\ DiskInMemory' /\ UNCHANGED <<sharesDta, secretsDta>>
         /\ \A p \in Host, u \in UUID : shares'[p][u] \in {None, shares[p][u]}
         /\ \A p \in Host, n \in Name : secrets'[p][n] \in {None, secrets[p][n]}
         /\ \A p \in Host : p # h => up'[p] = up[p]
<1>1. /\ EmptyShares \in [UUID -> Payload \cup {None}]
      /\ \A u \in UUID : EmptyShares[u] = None
      /\ EmptySecrets \in [Name -> Record \cup {None}]
      /\ \A n \in Name : EmptySecrets[n] = None
  BY DEF EmptyShares, EmptySecrets
<1>2. /\ up' = [up EXCEPT ![h] = FALSE]
      /\ shares' = [shares EXCEPT ![h] = EmptyShares]
      /\ secrets' = [secrets EXCEPT ![h] = EmptySecrets]
      /\ UNCHANGED <<sharesDta, secretsDta>>
  BY DEF CrashServer
<1>3. \A p \in Host : /\ shares'[p] = IF p = h THEN EmptyShares ELSE shares[p]
                      /\ secrets'[p] = IF p = h THEN EmptySecrets ELSE secrets[p]
                      /\ p # h => up'[p] = up[p]
                      /\ ~up'[h]
  BY <1>2 DEF ServerTypeOk
<1>4. ServerTypeOk'
  BY <1>1, <1>2 DEF ServerTypeOk
<1>5. DiskInMemory'
  <2> SUFFICES ASSUME NEW p \in Host, NEW u \in UUID, up'[p], sharesDta'[p][u] # None
               PROVE  shares'[p][u] = sharesDta'[p][u]
    BY DEF DiskInMemory
  <2>1. p # h
    BY <1>3
  <2>2. up[p] /\ sharesDta[p][u] # None
    BY <1>2, <1>3, <2>1
  <2>3. shares[p][u] = sharesDta[p][u]
    BY <2>2 DEF DiskInMemory
  <2> QED BY <1>2, <1>3, <2>1, <2>3
<1>6. \A p \in Host, u \in UUID : shares'[p][u] \in {None, shares[p][u]}
  BY <1>1, <1>3
<1>7. \A p \in Host, n \in Name : secrets'[p][n] \in {None, secrets[p][n]}
  BY <1>1, <1>3
<1> QED BY <1>2, <1>3, <1>4, <1>5, <1>6, <1>7

\* A start serves what the files hold.
LEMMA StartSafe ==
  ASSUME ServerTypeOk, DiskInMemory, NEW h \in Host, StartServer(h)
  PROVE  /\ ServerTypeOk' /\ DiskInMemory' /\ UNCHANGED <<sharesDta, secretsDta>>
         /\ \A p \in Host : shares'[p] = IF p = h THEN sharesDta[p] ELSE shares[p]
         /\ \A p \in Host : secrets'[p] = IF p = h THEN secretsDta[p] ELSE secrets[p]
         /\ \A p \in Host : up'[p] = (p = h \/ up[p])
<1>1. /\ up' = [up EXCEPT ![h] = TRUE]
      /\ shares' = [shares EXCEPT ![h] = sharesDta[h]]
      /\ secrets' = [secrets EXCEPT ![h] = secretsDta[h]]
      /\ UNCHANGED <<sharesDta, secretsDta>>
  BY DEF StartServer
<1>2. ServerTypeOk'
  BY <1>1 DEF ServerTypeOk
<1>3. /\ \A p \in Host : shares'[p] = IF p = h THEN sharesDta[p] ELSE shares[p]
      /\ \A p \in Host : secrets'[p] = IF p = h THEN secretsDta[p] ELSE secrets[p]
      /\ \A p \in Host : up'[p] = (p = h \/ up[p])
  BY <1>1 DEF ServerTypeOk
<1>4. DiskInMemory'
  BY <1>1, <1>3 DEF DiskInMemory
<1> QED BY <1>1, <1>2, <1>3, <1>4

=============================================================================
