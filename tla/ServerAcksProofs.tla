-------------------------- MODULE ServerAcksProofs --------------------------
(***************************************************************************)
(* The promises of ServerAcks.tla, for any number of hosts, uuids, names,   *)
(* certificates and requests.  None of them is inductive alone:             *)
(* StoredShareDurable needs DiskInMemory (a save writes all of memory over  *)
(* the file), ServedToStorer needs to know of every held share who posted   *)
(* it, in memory and in the file a restart loads.                           *)
(***************************************************************************)
EXTENDS ServerAcks, ServerProofs

LEMMA AcksInit == Init => AcksInv
<1> SUFFICES ASSUME Init PROVE AcksInv
  OBVIOUS
<1> USE DEF Init, ServerInit, EmptyShares, EmptySecrets
<1>1. TypeOk
  BY DEF TypeOk, ServerTypeOk
<1>2. DiskInMemory /\ StoredShareDurable /\ HeldWasPosted
  BY DEF DiskInMemory, StoredShareDurable, HeldWasPosted
<1>3. RecordNeverReverts
  BY DEF RecordNeverReverts
<1> QED BY <1>1, <1>2, <1>3 DEF AcksInv

\* A post of a share: only status 201 adds a durable promise, and the share
\* that enters memory is one its owner posted.
LEMMA PostShareKeepsInv ==
  ASSUME AcksInv, NEW h \in Host, NEW cn \in CommonName \cup {None},
         NEW path \in UUID, NEW body \in Submitted, NEW status \in ShareStatus,
         PostShare(h, cn, path, body, status)
  PROVE  AcksInv'
<1> USE SubmittedAssumption, NamesAssumption
<1> DEFINE answer == [host |-> h, by |-> HostnameFromCommonName(cn),
                      body |-> body, status |-> status]
<1>1. StoreShare(h, cn, path, body, status) /\ UNCHANGED since
  BY DEF PostShare
<1>2. ServerTypeOk /\ DiskInMemory /\ body \in Payload
  BY DEF AcksInv, TypeOk
<1>3. /\ ServerTypeOk' /\ DiskInMemory' /\ SharesStayOnDisk
      /\ UNCHANGED <<up, secrets, secretsDta>>
      /\ \A p \in Host, u \in UUID : p # h \/ u # path => shares'[p][u] = shares[p][u]
  BY <1>1, <1>2, StoreShareSafe
<1>4. status \in {200, 201, 500} =>
        /\ posted' = posted \cup {answer}
        /\ OwnerMatches(cn, body.owner) /\ body.uuid = path
  BY <1>1 DEF PostShare, StoreShare, StoreNewShare, PersistShares, ValidShare
<1>5. status \notin {200, 201, 500} => posted' = posted /\ UNCHANGED serverVars
  BY <1>1 DEF PostShare, StoreShare, StoreNewShare, PersistShares
<1>6. posted \subseteq posted'
  BY <1>4, <1>5
<1>7. TypeOk'
  <2>1. status \in {200, 201, 500} => answer \in Answer
    BY <1>2, <1>4 DEF OwnerMatches, Answer
  <2> QED BY <1>1, <1>3, <1>4, <1>5, <2>1 DEF AcksInv, TypeOk
<1>8. StoredShareDurable'
  <2> SUFFICES ASSUME NEW a \in posted', a.status = 201
               PROVE  sharesDta'[a.host][a.body.uuid] = a.body
    BY DEF StoredShareDurable
  <2>1. CASE a \in posted
    <3>1. /\ a.host \in Host /\ a.body \in Payload /\ a.body.uuid \in UUID
      BY <2>1 DEF AcksInv, TypeOk, Answer, Payload
    <3>2. sharesDta[a.host][a.body.uuid] = a.body
      BY <2>1 DEF AcksInv, StoredShareDurable
    <3> QED BY <1>3, <3>1, <3>2 DEF SharesStayOnDisk
  <2>2. CASE a \notin posted
    <3>1. a = answer /\ status = 201 /\ body.uuid = path
      BY <1>4, <1>5, <2>2
    <3>2. shares[h][path] = None
      BY <1>1, <3>1 DEF StoreShare, StoreNewShare, serverVars
    <3> QED BY <1>1, <1>2, <3>1, <3>2, NewShareConfirmedIsSaved
  <2> QED BY <2>1, <2>2
<1>9. HeldWasPosted'
  <2>1. CASE UNCHANGED serverVars
    BY <1>6, <2>1 DEF AcksInv, HeldWasPosted, PostedByOwner, serverVars
  <2>2. CASE StoreNewShare(h, path, body, status)
    <3>1. status \in {201, 500}
      BY <2>2 DEF StoreNewShare, PersistShares
    <3>2. PostedByOwner(h, path, body)'
      <4>1. answer \in posted' /\ body.uuid = path /\ body.owner = answer.by
        BY <1>4, <3>1 DEF OwnerMatches
      <4>2. answer.host = h /\ answer.body = body
        OBVIOUS
      <4> HIDE DEF answer
      <4> QED BY <4>1, <4>2 DEF PostedByOwner
    <3>3. \A p \in Host, u \in UUID :
            shares'[p][u] = IF p = h /\ u = path THEN body ELSE shares[p][u]
      BY <1>2, <2>2 DEF StoreNewShare, ServerTypeOk
    <3>4. \A p \in Host, u \in UUID : sharesDta'[p][u] \in {sharesDta[p][u], shares'[p][u]}
      BY <1>2, <2>2 DEF StoreNewShare, PersistShares, ServerTypeOk
    <3> SUFFICES ASSUME NEW p \in Host, NEW u \in UUID
                 PROVE  /\ shares'[p][u] # None => PostedByOwner(p, u, shares[p][u])'
                        /\ sharesDta'[p][u] # None => PostedByOwner(p, u, sharesDta[p][u])'
      BY DEF HeldWasPosted
    <3>5. shares'[p][u] # None => PostedByOwner(p, u, shares[p][u])'
      <4>1. CASE p = h /\ u = path
        <5>1. shares'[p][u] = body
          BY <3>3, <4>1
        <5> QED BY <3>2, <4>1, <5>1 DEF PostedByOwner
      <4>2. CASE ~(p = h /\ u = path)
        <5>1. shares'[p][u] = shares[p][u]
          BY <3>3, <4>2
        <5> QED BY <1>6, <5>1 DEF AcksInv, HeldWasPosted, PostedByOwner
      <4> QED BY <4>1, <4>2
    <3>6. sharesDta'[p][u] # None => PostedByOwner(p, u, sharesDta[p][u])'
      <4>1. CASE sharesDta'[p][u] = sharesDta[p][u]
        BY <1>6, <4>1 DEF AcksInv, HeldWasPosted, PostedByOwner
      <4>2. CASE sharesDta'[p][u] = shares'[p][u]
        BY <3>5, <4>2 DEF PostedByOwner
      <4> QED BY <3>4, <4>1, <4>2
    <3> QED BY <3>5, <3>6
  <2> QED BY <1>1, <2>1, <2>2 DEF StoreShare
<1>10. RecordNeverReverts'
  BY <1>1, <1>3 DEF AcksInv, RecordNeverReverts
<1> QED BY <1>3, <1>7, <1>8, <1>9, <1>10 DEF AcksInv

\* A post of a record: a 201 leaves it in memory and file alike; a failed
\* save leaves the file as it was.
LEMMA PostSecretKeepsInv ==
  ASSUME AcksInv, NEW h \in Host, NEW cn \in CommonName \cup {None},
         NEW n \in Name, NEW record \in SubmittedRecords, NEW status \in SecretStatus,
         PostSecret(h, cn, n, record, status)
  PROVE  AcksInv'
<1>1. StoreSecretMetadata(h, cn, n, record, status) /\ UNCHANGED posted
  BY DEF PostSecret
<1>2. ServerTypeOk /\ DiskInMemory
  BY DEF AcksInv, TypeOk
<1>3. ServerTypeOk' /\ DiskInMemory' /\ UNCHANGED <<up, shares, sharesDta>>
  BY <1>1, <1>2, StoreSecretSafe
<1>4. StoredShareDurable' /\ HeldWasPosted'
  BY <1>1, <1>3 DEF AcksInv, StoredShareDurable, HeldWasPosted, PostedByOwner
<1>5. CASE UNCHANGED serverVars /\ status \notin {201, 500}
  BY <1>1, <1>3, <1>4, <1>5
     DEF PostSecret, AcksInv, TypeOk, RecordNeverReverts, serverVars
<1>6. CASE /\ record \in Record /\ up[h]
           /\ secrets' = [secrets EXCEPT ![h][n] = record]
           /\ PersistSecrets(h, status)
  <2>1. \A g \in Host, m \in Name :
          secrets'[g][m] = IF g = h /\ m = n THEN record ELSE secrets[g][m]
    BY <1>2, <1>6 DEF ServerTypeOk
  <2>2. CASE status = 201
    <3>1. since' = [since EXCEPT ![h][n] = {record}]
      BY <2>2 DEF PostSecret
    <3>2. \A g \in Host, m \in Name :
            since'[g][m] = IF g = h /\ m = n THEN {record} ELSE since[g][m]
      BY <3>1 DEF AcksInv, TypeOk
    <3>3. \A g \in Host, m \in Name :
            secretsDta'[g][m] = IF g = h THEN secrets'[h][m] ELSE secretsDta[g][m]
      <4>1. secretsDta' = [secretsDta EXCEPT ![h] = secrets'[h]]
        BY <1>6, <2>2 DEF PersistSecrets
      <4>2. secretsDta \in [Host -> [Name -> Record \cup {None}]]
        BY <1>2 DEF ServerTypeOk
      <4> QED BY <4>1, <4>2
    <3>4. TypeOk'
      BY <1>1, <1>3, <1>6, <3>1 DEF AcksInv, TypeOk
    <3>5. RecordNeverReverts'
      <4> SUFFICES ASSUME NEW g \in Host, NEW m \in Name, since'[g][m] # {}
                   PROVE  /\ secretsDta'[g][m] \in since'[g][m]
                          /\ up'[g] => secrets'[g][m] \in since'[g][m]
        BY DEF RecordNeverReverts
      <4>1. CASE g = h /\ m = n
        BY <2>1, <3>2, <3>3, <4>1
      <4>2. CASE ~(g = h /\ m = n)
        <5>1. /\ since'[g][m] = since[g][m] /\ since[g][m] # {}
              /\ secrets'[g][m] = secrets[g][m] /\ up'[g] = up[g]
          BY <1>3, <2>1, <3>2, <4>2
        <5>2. /\ secretsDta[g][m] \in since[g][m]
              /\ up[g] => secrets[g][m] \in since[g][m]
          BY <5>1 DEF AcksInv, RecordNeverReverts
        <5>3. secretsDta'[g][m] = IF g = h THEN secrets[g][m] ELSE secretsDta[g][m]
          BY <3>3, <5>1
        <5>4. g = h => secrets[g][m] \in since[g][m]
          BY <1>6, <5>2
        <5>5. secretsDta'[g][m] \in since[g][m]
          BY <5>2, <5>3, <5>4
        <5> QED BY <5>1, <5>2, <5>5
      <4> QED BY <4>1, <4>2
    <3> QED BY <1>3, <1>4, <3>4, <3>5 DEF AcksInv
  <2>3. CASE status = 500
    <3>1. since' = [since EXCEPT ![h][n] = IF @ = {} THEN {} ELSE @ \cup {record}]
      BY <2>3 DEF PostSecret
    <3>2. /\ since' \in [Host -> [Name -> SUBSET Record]]
          /\ \A g \in Host, m \in Name : /\ since[g][m] \subseteq since'[g][m]
                                         /\ since'[g][m] # {} => since[g][m] # {}
          /\ since'[h][n] # {} => record \in since'[h][n]
      BY <1>6, <3>1 DEF AcksInv, TypeOk
    <3>3. UNCHANGED secretsDta
      BY <1>6, <2>3 DEF PersistSecrets
    <3>4. TypeOk'
      BY <1>1, <1>3, <3>2 DEF AcksInv, TypeOk
    <3>5. RecordNeverReverts'
      BY <1>3, <2>1, <3>2, <3>3 DEF AcksInv, RecordNeverReverts
    <3> QED BY <1>3, <1>4, <3>4, <3>5 DEF AcksInv
  <2> QED BY <1>6, <2>2, <2>3 DEF PersistSecrets
<1> QED BY <1>1, <1>5, <1>6 DEF StoreSecretMetadata

\* A crash forgets what only memory held, which nothing was promised about.
LEMMA CrashKeepsInv ==
  ASSUME AcksInv, NEW h \in Host, Crash(h)
  PROVE  AcksInv'
<1>1. CrashServer(h) /\ UNCHANGED <<posted, since>>
  BY DEF Crash, historyVars
<1>2. /\ ServerTypeOk' /\ DiskInMemory' /\ UNCHANGED <<sharesDta, secretsDta>>
      /\ \A p \in Host, u \in UUID : shares'[p][u] \in {None, shares[p][u]}
      /\ \A p \in Host : p # h => up'[p] = up[p]
  BY <1>1, CrashSafe DEF AcksInv, TypeOk
<1>3. ~up'[h] /\ \A p \in Host : p # h => secrets'[p] = secrets[p]
  BY <1>1 DEF CrashServer, AcksInv, TypeOk, ServerTypeOk
<1>4. TypeOk' /\ StoredShareDurable'
  BY <1>1, <1>2 DEF AcksInv, TypeOk, StoredShareDurable
<1>5. HeldWasPosted'
  BY <1>1, <1>2 DEF AcksInv, HeldWasPosted, PostedByOwner
<1>6. RecordNeverReverts'
  <2> SUFFICES ASSUME NEW g \in Host, NEW m \in Name, since[g][m] # {}
               PROVE  /\ secretsDta[g][m] \in since[g][m]
                      /\ up'[g] => secrets'[g][m] \in since[g][m]
    BY <1>1, <1>2 DEF RecordNeverReverts
  <2>1. secretsDta[g][m] \in since[g][m] /\ (up[g] => secrets[g][m] \in since[g][m])
    BY DEF AcksInv, RecordNeverReverts
  <2>2. CASE g = h
    BY <1>3, <2>1, <2>2
  <2>3. CASE g # h
    BY <1>2, <1>3, <2>1, <2>3
  <2> QED BY <2>2, <2>3
<1> QED BY <1>2, <1>4, <1>5, <1>6 DEF AcksInv

\* A start serves what the file promised.
LEMMA StartKeepsInv ==
  ASSUME AcksInv, NEW h \in Host, Start(h)
  PROVE  AcksInv'
<1>1. StartServer(h) /\ UNCHANGED <<posted, since>>
  BY DEF Start, historyVars
<1>2. /\ ServerTypeOk' /\ DiskInMemory' /\ UNCHANGED <<sharesDta, secretsDta>>
      /\ \A p \in Host : shares'[p] = IF p = h THEN sharesDta[p] ELSE shares[p]
      /\ \A p \in Host : secrets'[p] = IF p = h THEN secretsDta[p] ELSE secrets[p]
      /\ \A p \in Host : up'[p] = (p = h \/ up[p])
  BY <1>1, StartSafe DEF AcksInv, TypeOk
<1>3. TypeOk' /\ StoredShareDurable'
  BY <1>1, <1>2 DEF AcksInv, TypeOk, StoredShareDurable
<1>4. HeldWasPosted'
  BY <1>1, <1>2 DEF AcksInv, HeldWasPosted, PostedByOwner
<1>5. RecordNeverReverts'
  BY <1>1, <1>2 DEF AcksInv, RecordNeverReverts
<1> QED BY <1>2, <1>3, <1>4, <1>5 DEF AcksInv

\* The inductive invariant.
THEOREM AcksInvariant == Spec => []AcksInv
<1>1. AcksInv /\ [Next]_vars => AcksInv'
  <2> SUFFICES ASSUME AcksInv, [Next]_vars PROVE AcksInv'
    OBVIOUS
  <2>1. ASSUME NEW h \in Host, NEW cn \in CommonName \cup {None}, NEW path \in UUID,
               NEW body \in Submitted, NEW status \in ShareStatus,
               PostShare(h, cn, path, body, status)
        PROVE  AcksInv'
    BY <2>1, PostShareKeepsInv
  <2>2. ASSUME NEW h \in Host, NEW cn \in CommonName \cup {None}, NEW n \in Name,
               NEW record \in SubmittedRecords, NEW status \in SecretStatus,
               PostSecret(h, cn, n, record, status)
        PROVE  AcksInv'
    BY <2>2, PostSecretKeepsInv
  <2>3. ASSUME NEW h \in Host, Crash(h) PROVE AcksInv'
    BY <2>3, CrashKeepsInv
  <2>4. ASSUME NEW h \in Host, Start(h) PROVE AcksInv'
    BY <2>4, StartKeepsInv
  <2>5. CASE UNCHANGED vars
    BY <2>5 DEF vars, serverVars, historyVars, AcksInv, TypeOk, ServerTypeOk,
       DiskInMemory, StoredShareDurable, HeldWasPosted, PostedByOwner, RecordNeverReverts
  <2> QED BY <2>1, <2>2, <2>3, <2>4, <2>5 DEF Next
<1> QED BY <1>1, AcksInit, PTL DEF Spec

\* Every variable of the server keeps its type, whatever is posted.
THEOREM AcksTyped == Spec => []TypeOk
<1>1. AcksInv => TypeOk
  BY DEF AcksInv
<1> QED BY <1>1, AcksInvariant, PTL

\* A running server has in memory all that its files hold, so a request never
\* overrules what a restart would bring back (load_shares, store_share).
THEOREM DiskIsInMemory == Spec => []DiskInMemory
<1>1. AcksInv => DiskInMemory
  BY DEF AcksInv
<1> QED BY <1>1, AcksInvariant, PTL

\* Every share answered 201 stays in the file as it was posted.
THEOREM StoredShareIsDurable == Spec => []StoredShareDurable
<1>1. AcksInv => StoredShareDurable
  BY DEF AcksInv
<1> QED BY <1>1, AcksInvariant, PTL

\* An acknowledged record is only ever superseded by a later one.
THEOREM RecordsNeverRevert == Spec => []RecordNeverReverts
<1>1. AcksInv => RecordNeverReverts
  BY DEF AcksInv
<1> QED BY <1>1, AcksInvariant, PTL

\* Only the host that posted a share is ever served it.
THEOREM SharesServedToStorer == Spec => []ServedToStorer
<1>1. AcksInv => ServedToStorer
  <2> SUFFICES ASSUME AcksInv, NEW h \in Host, NEW u \in UUID,
                      NEW cn \in CommonName \cup {None},
                      up[h], GetShareStatus(h, cn, u) = 200
               PROVE  \E a \in posted : /\ a.host = h /\ a.body = shares[h][u]
                                        /\ a.by = HostnameFromCommonName(cn)
                                        /\ a.body.uuid = u
    BY DEF ServedToStorer
  <2>1. shares[h][u] # None /\ OwnerMatches(cn, shares[h][u].owner)
    BY DEF GetShareStatus
  <2>2. PostedByOwner(h, u, shares[h][u])
    BY <2>1 DEF AcksInv, HeldWasPosted
  <2> QED BY <2>1, <2>2 DEF PostedByOwner, OwnerMatches
<1> QED BY <1>1, AcksInvariant, PTL

\* A held share does not change while the server keeps it, and a share in the
\* file never does (server.store_share answers 409 or does nothing).
THEOREM HeldSharesStay == Spec => HeldSharesImmutable
<1> DEFINE Stays ==
      \A h \in Host, u \in UUID :
        /\ up[h] /\ up'[h] /\ shares[h][u] # None => shares'[h][u] = shares[h][u]
        /\ sharesDta[h][u] # None => sharesDta'[h][u] = sharesDta[h][u]
<1>1. AcksInv /\ [Next]_vars => [Stays]_vars
  <2> SUFFICES ASSUME AcksInv, Next PROVE Stays
    OBVIOUS
  <2>1. ServerTypeOk /\ DiskInMemory
    BY DEF AcksInv, TypeOk
  <2>2. ASSUME NEW h \in Host, NEW cn, NEW path \in UUID, NEW body \in Payload,
               NEW status, StoreShare(h, cn, path, body, status)
        PROVE  Stays
    <3>1. SharesStayOnDisk /\ \A p \in Host, u \in UUID :
              p # h \/ u # path => shares'[p][u] = shares[p][u]
      BY <2>1, <2>2, StoreShareSafe
    <3>2. shares[h][path] # None => shares'[h][path] = shares[h][path]
      BY <2>2 DEF StoreShare, StoreNewShare, serverVars
    <3> QED BY <3>1, <3>2 DEF SharesStayOnDisk
  <2>3. ASSUME NEW h \in Host, NEW cn \in CommonName \cup {None}, NEW path \in UUID,
               NEW body \in Submitted, NEW status \in ShareStatus,
               PostShare(h, cn, path, body, status)
        PROVE  Stays
    BY <2>2, <2>3, SubmittedAssumption DEF PostShare
  <2>4. ASSUME NEW h \in Host, NEW cn, NEW n \in Name, NEW record, NEW status,
               PostSecret(h, cn, n, record, status)
        PROVE  Stays
    BY <2>1, <2>4, StoreSecretSafe DEF PostSecret
  <2>5. ASSUME NEW h \in Host, Crash(h) PROVE Stays
    <3>1. ~up'[h] /\ UNCHANGED sharesDta
      BY <2>1, <2>5 DEF Crash, CrashServer, ServerTypeOk
    <3>2. \A p \in Host : p # h => shares'[p] = shares[p]
      BY <2>1, <2>5 DEF Crash, CrashServer, ServerTypeOk
    <3> QED BY <3>1, <3>2
  <2>6. ASSUME NEW h \in Host, Start(h) PROVE Stays
    <3>1. ~up[h] /\ UNCHANGED sharesDta
      BY <2>6 DEF Start, StartServer
    <3>2. \A p \in Host : p # h => shares'[p] = shares[p]
      BY <2>1, <2>6 DEF Start, StartServer, ServerTypeOk
    <3> QED BY <3>1, <3>2
  <2> QED BY <2>3, <2>4, <2>5, <2>6 DEF Next
<1> QED BY <1>1, AcksInvariant, PTL DEF Spec, HeldSharesImmutable

=============================================================================
