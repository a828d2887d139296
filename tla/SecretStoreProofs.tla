------------------------- MODULE SecretStoreProofs -------------------------
(***************************************************************************)
(* The commands and the servers of SecretStore.tla, for any number of       *)
(* hosts, clients, versions, names and crashes, in four parts: a secret on  *)
(* record is recoverable; the commands implement SecretRegister; what       *)
(* becomes of the versions of a secret; commands come to an end.            *)
(***************************************************************************)
EXTENDS SecretStoreRefines, ServerProofs, FiniteSetTheorems

(***************************************************************************)
(* Part 1: RecordedRecoverable, whatever fails or crashes.  The argument:   *)
(*   - a share is posted once, to a server that has not seen it             *)
(*     (UnsentUnseen), so an answer that counts is a 201 after a save;      *)
(*   - files lose no share (SharesStayOnDisk), so what a command counted    *)
(*     stays on disk (SavedHeld) until it records, and so does what a       *)
(*     record in flight claims (RecordsInFlightRecoverable).                *)
(***************************************************************************)

\* While no disk loses a share, a version's holders only become more.
LEMMA HoldersGrow ==
  ASSUME SharesStayOnDisk, NEW u \in UUID
  PROVE  /\ Holders(u) \subseteq Holders(u)'
         /\ Cardinality(Holders(u)) \in Nat
         /\ Cardinality(Holders(u)') \in Nat
         /\ Cardinality(Holders(u)) <= Cardinality(Holders(u)')
<1>1. Holders(u) \subseteq Holders(u)' /\ Holders(u)' \subseteq Host
  BY DEF Holders, SharesStayOnDisk
<1>2. IsFiniteSet(Holders(u)')
  BY <1>1, DeploymentAssumption, FS_Subset
<1> QED BY <1>1, <1>2, FS_Subset, FS_CardinalityType

\* A larger set of peers that answered is at least as much.
LEMMA SavedSubset ==
  ASSUME NEW S \in SUBSET Host, NEW T \in SUBSET Host, S \subseteq T
  PROVE  /\ Cardinality(S) \in Nat /\ Cardinality(T) \in Nat
         /\ Cardinality(S) <= Cardinality(T)
<1>1. IsFiniteSet(T)
  BY DeploymentAssumption, FS_Subset
<1> QED BY <1>1, FS_Subset, FS_CardinalityType

\* The share of a split version is something a peer may be sent.
LEMMA ShareForType ==
  ASSUME SecretStoreTypeOk, NEW u \in UUID, NEW p \in Host, split[u] # None
  PROVE  ShareFor(u, p) \in Payload
BY NamesAssumption, DeploymentAssumption
   DEF SecretStoreTypeOk, ShareFor, Column, Payload, Split

\* Records are safe as long as no disk loses a share and no record changes.
LEMMA RecordsStayRecoverable ==
  ASSUME SecretStoreTypeOk, RecordedRecoverable, SharesStayOnDisk,
         \A h \in Host, n \in Name : Records(h, n)' \subseteq Records(h, n)
  PROVE  RecordedRecoverable'
<1> SUFFICES ASSUME NEW h \in Host, NEW n \in Name, NEW r \in Records(h, n)'
             PROVE  /\ r.treshold <= r.shares_saved
                    /\ r.shares_saved <= Cardinality(Holders(r.uuid)')
  BY DEF RecordedRecoverable
<1>1. r \in Records(h, n)
  OBVIOUS
<1>2. r \in Record
  BY <1>1 DEF SecretStoreTypeOk, ServerTypeOk, Records
<1>3. r.treshold \in Nat /\ r.shares_saved \in Nat /\ r.uuid \in UUID
  BY <1>2 DEF Record
<1>4. r.treshold <= r.shares_saved /\ r.shares_saved <= Cardinality(Holders(r.uuid))
  BY <1>1 DEF RecordedRecoverable
<1> QED BY <1>3, <1>4, HoldersGrow

\* The same for records on their way.
LEMMA FlightsStayRecoverable ==
  ASSUME SecretStoreTypeOk, ConnectionsSound, RecordsInFlightRecoverable,
         SharesStayOnDisk,
         \A u \in UUID : split[u] # None => split'[u] = split[u],
         \A h \in Host : conn'[h] # None /\ conn'[h].kind = "record" =>
            /\ conn[h] # None
            /\ conn'[h].kind = conn[h].kind
            /\ conn'[h].uuid = conn[h].uuid
            /\ conn'[h].saved = conn[h].saved
  PROVE  RecordsInFlightRecoverable'
<1> SUFFICES ASSUME NEW h \in Host, conn'[h] # None, conn'[h].kind = "record"
             PROVE  /\ split'[conn'[h].uuid].treshold <= conn'[h].saved
                    /\ conn'[h].saved <= Cardinality(Holders(conn[h].uuid)')
  BY DEF RecordsInFlightRecoverable
<1>1. conn[h] # None /\ conn[h] \in Conn /\ conn[h].kind = "record"
  BY DEF SecretStoreTypeOk
<1>2. /\ conn'[h].uuid = conn[h].uuid /\ conn'[h].saved = conn[h].saved
      /\ conn[h].uuid \in UUID /\ conn[h].saved \in Nat
  BY <1>1 DEF Conn
<1>3. split'[conn[h].uuid] = split[conn[h].uuid]
  BY <1>1, <1>2 DEF ConnectionsSound
<1>4. /\ split[conn[h].uuid].treshold <= conn[h].saved
      /\ conn[h].saved <= Cardinality(Holders(conn[h].uuid))
  BY <1>1 DEF RecordsInFlightRecoverable
<1>5. \A u \in UUID : u = conn[h].uuid => conn[h].saved <= Cardinality(Holders(u)')
  BY <1>2, <1>4, HoldersGrow
<1>6. conn[h].saved <= Cardinality({p \in Host : sharesDta'[p][conn[h].uuid] # None})
  BY <1>2, <1>5 DEF Holders
<1> QED BY <1>2, <1>3, <1>4, <1>6 DEF Holders

-----------------------------------------------------------------------------
(* Steps that neither touch a server nor send anything.                     *)

QuietConn ==
    \A h \in Host : conn'[h] # None =>
        /\ conn[h] # None
        /\ conn'[h].client = conn[h].client /\ conn'[h].kind = conn[h].kind
        /\ conn'[h].uuid = conn[h].uuid /\ conn'[h].saved = conn[h].saved
        /\ conn'[h].live => /\ conn[h].live
                            /\ pc'[conn[h].client] \in {"publish", "record"}
                            /\ wait'[conn[h].client] = wait[conn[h].client]

QuietClients ==
    \A c \in Client :
        /\ pc'[c] \in {"publish", "record"} =>
              /\ pc[c] \in {"publish", "record"}
              /\ uuid'[c] = uuid[c] /\ saved'[c] = saved[c]
        /\ pc'[c] \notin {"publish", "record"} => saved'[c] = {}
        /\ pc'[c] = "publish" => pc[c] = "publish" /\ todo'[c] \subseteq todo[c]
        /\ pc'[c] = "record" => EnoughSaved(c)

LEMMA QuietStep ==
  ASSUME StoreInv, SecretStoreTypeOk', UNCHANGED <<serverVars, split>>,
         QuietConn, QuietClients
  PROVE  StoreInv'
<1>1. UNCHANGED <<up, shares, sharesDta, secrets, secretsDta, split>>
  BY DEF serverVars
<1>2. SharesStayOnDisk /\ DiskInMemory'
  BY <1>1 DEF SharesStayOnDisk, StoreInv, DiskInMemory
<1>3. ConnectionsSound'
  <2> SUFFICES ASSUME NEW h \in Host, conn'[h] # None
               PROVE  /\ up[h] /\ split[conn'[h].uuid] # None
                      /\ conn'[h].live =>
                            /\ pc'[conn'[h].client] \in {"publish", "record"}
                            /\ wait'[conn'[h].client] = h
                            /\ uuid'[conn'[h].client] = conn'[h].uuid
    BY <1>1 DEF ConnectionsSound, Storing
  <2>1. conn[h] # None /\ conn[h].client \in Client
    BY DEF StoreInv, SecretStoreTypeOk, QuietConn, Conn
  <2>2. /\ up[h] /\ split[conn[h].uuid] # None
        /\ conn[h].live => /\ wait[conn[h].client] = h
                           /\ uuid[conn[h].client] = conn[h].uuid
    BY <2>1 DEF StoreInv, ConnectionsSound
  <2>3. /\ conn'[h].client = conn[h].client /\ conn'[h].uuid = conn[h].uuid
        /\ conn'[h].live => /\ conn[h].live
                            /\ pc'[conn[h].client] \in {"publish", "record"}
                            /\ wait'[conn[h].client] = wait[conn[h].client]
    BY DEF QuietConn
  <2>4. pc'[conn[h].client] \in {"publish", "record"} =>
            uuid'[conn[h].client] = uuid[conn[h].client]
    BY <2>1 DEF QuietClients
  <2> QED BY <2>2, <2>3, <2>4
<1>4. UnsentUnseen'
  <2>1. ASSUME NEW c \in Client, NEW p \in Host, pc'[c] = "publish", p \in todo'[c]
        PROVE  /\ shares[p][uuid'[c]] = None /\ sharesDta[p][uuid'[c]] = None
               /\ conn'[p] # None => conn'[p].kind = "record" \/ conn'[p].uuid # uuid'[c]
    <3>1. pc[c] = "publish" /\ p \in todo[c] /\ uuid'[c] = uuid[c]
      BY <2>1 DEF QuietClients
    <3>2. /\ NotYetSeen(p, uuid[c])
          /\ conn[p] # None => conn[p].kind = "record" \/ conn[p].uuid # uuid[c]
      BY <3>1 DEF StoreInv, UnsentUnseen
    <3> QED BY <3>1, <3>2 DEF QuietConn, NotYetSeen
  <2>2. ASSUME NEW p \in Host, conn'[p] # None, conn'[p].kind = "share"
        PROVE  shares[p][conn'[p].uuid] = None /\ sharesDta[p][conn'[p].uuid] = None
    <3>1. conn[p] # None /\ conn[p].kind = "share" /\ conn'[p].uuid = conn[p].uuid
      BY <2>2 DEF QuietConn
    <3> QED BY <3>1 DEF StoreInv, UnsentUnseen, NotYetSeen
  <2>3. ASSUME NEW p \in Host, NEW u \in UUID, split[u] = None
        PROVE  shares[p][u] = None /\ sharesDta[p][u] = None
    BY <2>3 DEF StoreInv, UnsentUnseen, NotYetSeen
  <2> QED BY <1>1, <2>1, <2>2, <2>3 DEF UnsentUnseen, NotYetSeen
<1>5. VersionsOwned'
  BY <1>1 DEF QuietClients, StoreInv, VersionsOwned, Storing
<1>6. SavedHeld'
  <2> SUFFICES ASSUME NEW c \in Client
               PROVE  /\ pc'[c] \in {"publish", "record"} =>
                           saved'[c] \subseteq {p \in Host : sharesDta[p][uuid'[c]] # None}
                      /\ pc'[c] \notin {"publish", "record"} => saved'[c] = {}
                      /\ pc'[c] = "record" => EnoughSaved(c)'
    BY <1>1 DEF SavedHeld, Storing, Holders
  <2>1. pc[c] \in {"publish", "record"} =>
           saved[c] \subseteq {p \in Host : sharesDta[p][uuid[c]] # None}
    BY DEF StoreInv, SavedHeld, Storing, Holders
  <2>2. pc'[c] = "record" => EnoughSaved(c)'
    BY <1>1 DEF QuietClients, EnoughSaved
  <2> QED BY <2>1, <2>2 DEF QuietClients
<1>7. RecordsInFlightRecoverable'
  BY <1>1, <1>2, FlightsStayRecoverable DEF StoreInv, QuietConn
<1>8. RecordedRecoverable'
  BY <1>1, <1>2, RecordsStayRecoverable DEF StoreInv, Records
<1> QED BY <1>2, <1>3, <1>4, <1>5, <1>6, <1>7, <1>8 DEF StoreInv

-----------------------------------------------------------------------------
(* Types.  The actions that leave the servers alone, then the others.       *)

LEMMA ClientTypes ==
  ASSUME StoreInv, NEW c \in Client,
         \/ \E p \in Host : SkipPeer(c, p) \/ FetchShare(c, p) \/ MissPeer(c, p)
         \/ GiveUpShare(c) \/ FinishPublishing(c) \/ GiveUpRecord(c)
         \/ FinishGet(c) \/ Kill(c) \/ \E n \in Name : Lookup(c, n)
  PROVE  SecretStoreTypeOk' /\ UNCHANGED <<serverVars, split>>
<1> USE DEF StoreInv, clientVars, getVars
<1>1. ASSUME NEW p \in Host, SkipPeer(c, p)
      PROVE  SecretStoreTypeOk' /\ UNCHANGED <<serverVars, split>>
  BY <1>1 DEF SkipPeer, SecretStoreTypeOk, ServerTypeOk, serverVars
<1>2. ASSUME NEW p \in Host, FetchShare(c, p)
      PROVE  SecretStoreTypeOk' /\ UNCHANGED <<serverVars, split>>
  <2>1. uuid[c] \in UUID
    BY <1>2 DEF FetchShare, SecretStoreTypeOk
  <2>2. shares[p][uuid[c]] \in Payload \cup {None}
    BY <2>1 DEF SecretStoreTypeOk, ServerTypeOk
  <2>3. got' \in [Client -> SUBSET Payload]
    <3>1. CASE GetShareStatus(p, Cert[HostOf[c]], uuid[c]) = 200
      <4>1. shares[p][uuid[c]] \in Payload
        BY <2>2, <3>1 DEF GetShareStatus
      <4>2. got[c] \in SUBSET Payload
        BY DEF SecretStoreTypeOk
      <4>3. PopulateDecoder(got[c], shares[p][uuid[c]], asked[c], OwnName[HostOf[c]])
              \in SUBSET Payload
        BY <4>1, <4>2 DEF PopulateDecoder
      <4> QED BY <1>2, <3>1, <4>3 DEF FetchShare, SecretStoreTypeOk
    <3>2. CASE GetShareStatus(p, Cert[HostOf[c]], uuid[c]) # 200
      BY <1>2, <3>2 DEF FetchShare, SecretStoreTypeOk
    <3> QED BY <3>1, <3>2
  <2> QED BY <1>2, <2>3 DEF FetchShare, SecretStoreTypeOk, ServerTypeOk, serverVars
<1>3. ASSUME NEW p \in Host, MissPeer(c, p)
      PROVE  SecretStoreTypeOk' /\ UNCHANGED <<serverVars, split>>
  BY <1>3 DEF MissPeer, SecretStoreTypeOk, ServerTypeOk, serverVars
<1>4. ASSUME Abandon(c)
      PROVE  conn' \in [Host -> Conn \cup {None}] /\ wait' \in [Client -> Host \cup {None}]
  <2>1. ASSUME NEW h \in Host, conn[h] # None
        PROVE  [conn[h] EXCEPT !.live = FALSE] \in Conn
    <3>1. conn[h] \in Conn
      BY <2>1 DEF SecretStoreTypeOk
    <3> QED BY <3>1 DEF Conn
  <2>2. \A h \in Host : conn[h] \in Conn \cup {None}
    BY DEF SecretStoreTypeOk
  <2>3. conn' \in [Host -> Conn \cup {None}]
    BY <1>4, <2>1, <2>2 DEF Abandon
  <2> QED BY <1>4, <2>3 DEF Abandon, SecretStoreTypeOk
<1>5. ASSUME NEW outcome \in Outcome, Exit(c, outcome)
      PROVE  /\ pc' \in [Client -> {"idle", "publish", "record", "collect"}]
             /\ uuid' \in [Client -> UUID \cup {None}]
             /\ \A d \in Client : pc'[d] # "idle" => uuid'[d] \in UUID
             /\ todo' \in [Client -> SUBSET Host]
             /\ saved' \in [Client -> SUBSET Host]
             /\ got' \in [Client -> SUBSET Payload]
             /\ missed' \in [Client -> SUBSET Host]
             /\ asked' \in [Client -> Name \cup {None}]
             /\ result' \in [Client -> Outcome]
  BY <1>5 DEF Exit, SecretStoreTypeOk
<1>6. CASE GiveUpShare(c)
  BY <1>4, <1>6 DEF GiveUpShare, SecretStoreTypeOk, ServerTypeOk, serverVars
<1>7. CASE FinishPublishing(c)
  <2>1. "notsafe" \in Outcome
    BY DEF Outcome
  <2>2. CASE EnoughSaved(c) /\ pc' = [pc EXCEPT ![c] = "record"]
             /\ UNCHANGED <<uuid, todo, saved, getVars, result>>
    BY <1>7, <2>2 DEF FinishPublishing, SecretStoreTypeOk, ServerTypeOk, serverVars
  <2>3. CASE Exit(c, "notsafe")
    BY <1>5, <1>7, <2>1, <2>3 DEF FinishPublishing, SecretStoreTypeOk, ServerTypeOk, serverVars
  <2> QED BY <1>7, <2>2, <2>3 DEF FinishPublishing
<1>8. CASE GiveUpRecord(c)
  <2>1. "unrecorded" \in Outcome
    BY DEF Outcome
  <2> QED BY <1>4, <1>5, <1>8, <2>1 DEF GiveUpRecord, SecretStoreTypeOk, ServerTypeOk, serverVars
<1>9. CASE FinishGet(c)
  <2>1. {"got", "garbled", "toofew"} \subseteq Outcome
    BY DEF Outcome
  <2>2. \E outcome \in Outcome : Exit(c, outcome)
    BY <1>9, <2>1 DEF FinishGet
  <2> QED BY <1>5, <1>9, <2>2 DEF FinishGet, SecretStoreTypeOk, ServerTypeOk, serverVars
<1>10. CASE Kill(c)
  <2>1. "none" \in Outcome
    BY DEF Outcome
  <2> QED BY <1>4, <1>5, <1>10, <2>1 DEF Kill, SecretStoreTypeOk, ServerTypeOk, serverVars
<1>11. ASSUME NEW n \in Name, Lookup(c, n)
       PROVE  SecretStoreTypeOk' /\ UNCHANGED <<serverVars, split>>
  <2>1. "nometadata" \in Outcome /\ "none" \in Outcome
    BY DEF Outcome
  <2>2. CASE Exit(c, "nometadata")
    BY <1>5, <1>11, <2>1, <2>2 DEF Lookup, SecretStoreTypeOk, ServerTypeOk, serverVars
  <2>3. CASE ~Exit(c, "nometadata")
    <3>1. secrets[HostOf[c]][n] \in Record
      BY <1>11, <2>3, DeploymentAssumption
         DEF Lookup, GetSecretMetadataStatus, SecretStoreTypeOk, ServerTypeOk
    <3>2. secrets[HostOf[c]][n].uuid \in UUID
      BY <3>1 DEF Record
    <3>3. TrustedPeers(HostOf[c]) \in SUBSET Host
      BY DEF TrustedPeers
    <3>4. /\ pc' = [pc EXCEPT ![c] = "collect"]
          /\ uuid' = [uuid EXCEPT ![c] = secrets[HostOf[c]][n].uuid]
          /\ todo' = [todo EXCEPT ![c] = TrustedPeers(HostOf[c])]
          /\ asked' = [asked EXCEPT ![c] = n]
          /\ result' = [result EXCEPT ![c] = "none"]
          /\ UNCHANGED <<saved, got, missed, serverVars, conn, crashes, split, wait, acked>>
      BY <1>11, <2>3 DEF Lookup
    <3>5. /\ uuid' \in [Client -> UUID \cup {None}]
          /\ \A d \in Client : pc'[d] # "idle" => uuid'[d] \in UUID
      BY <3>2, <3>4 DEF SecretStoreTypeOk
    <3> QED BY <2>1, <3>3, <3>4, <3>5 DEF SecretStoreTypeOk, ServerTypeOk, serverVars
  <2> QED BY <2>2, <2>3
<1> QED BY <1>1, <1>2, <1>3, <1>6, <1>7, <1>8, <1>9, <1>10, <1>11

\* A client that exits or gives up leaves no connection that waits for it.
LEMMA AbandonQuiet ==
  ASSUME StoreInv, NEW c \in Client, Abandon(c),
         \A d \in Client : d # c => pc'[d] = pc[d]
  PROVE  QuietConn
<1> SUFFICES ASSUME NEW h \in Host, conn'[h] # None
             PROVE  /\ conn[h] # None
                    /\ conn'[h].client = conn[h].client /\ conn'[h].kind = conn[h].kind
                    /\ conn'[h].uuid = conn[h].uuid /\ conn'[h].saved = conn[h].saved
                    /\ conn'[h].live => /\ conn[h].live
                                        /\ pc'[conn[h].client] \in {"publish", "record"}
                                        /\ wait'[conn[h].client] = wait[conn[h].client]
  BY DEF QuietConn
<1>1. conn'[h] = IF wait[c] = h /\ conn[h] # None /\ conn[h].client = c
                 THEN [conn[h] EXCEPT !.live = FALSE] ELSE conn[h]
  BY DEF Abandon
<1>2. conn[h] \in Conn
  BY <1>1 DEF StoreInv, SecretStoreTypeOk
<1>3. conn[h] # None
  BY <1>2, NoneIsNoConn
<1>4. CASE wait[c] = h /\ conn[h].client = c
  <2>1. conn'[h] = [conn[h] EXCEPT !.live = FALSE]
    BY <1>1, <1>3, <1>4
  <2> QED BY <1>2, <1>3, <2>1 DEF Conn
<1>5. CASE ~(wait[c] = h /\ conn[h].client = c)
  <2>1. conn'[h] = conn[h]
    BY <1>1, <1>5
  <2>2. ASSUME conn[h].live
        PROVE  /\ pc'[conn[h].client] \in {"publish", "record"}
               /\ wait'[conn[h].client] = wait[conn[h].client]
    <3>1. /\ wait[conn[h].client] = h /\ conn[h].client \in Client
          /\ pc[conn[h].client] \in {"publish", "record"}
      BY <1>2, <1>3, <2>2 DEF StoreInv, ConnectionsSound, Storing, Conn
    <3>2. conn[h].client # c
      BY <1>5, <3>1
    <3> QED BY <3>1, <3>2 DEF Abandon, StoreInv, SecretStoreTypeOk
  <2> QED BY <1>3, <2>1, <2>2
<1> QED BY <1>4, <1>5

\* A client that waits for nobody has no live connection.
LEMMA UnwatchedQuiet ==
  ASSUME StoreInv, NEW c \in Client, UNCHANGED <<conn, wait>>,
         \/ wait[c] = None
         \/ pc[c] \notin {"publish", "record"}
         \/ pc'[c] \in {"publish", "record"},
         \A d \in Client : d # c => pc'[d] = pc[d]
  PROVE  QuietConn
<1> SUFFICES ASSUME NEW h \in Host, conn[h] # None, conn[h].live
             PROVE  pc'[conn[h].client] \in {"publish", "record"}
  BY DEF QuietConn
<1>1. conn[h].client \in Client
  BY DEF StoreInv, SecretStoreTypeOk, Conn
<1>2. wait[conn[h].client] = h /\ pc[conn[h].client] \in {"publish", "record"}
  BY DEF StoreInv, ConnectionsSound, Storing
<1> QED BY <1>1, <1>2, DeploymentAssumption

\* A command that ends keeps nothing and the others are as they were.
LEMMA ExitQuiet ==
  ASSUME StoreInv, NEW c \in Client, NEW outcome, Exit(c, outcome)
  PROVE  QuietClients /\ (\A d \in Client : d # c => pc'[d] = pc[d])
<1>1. \A d \in Client :
        IF d = c THEN pc'[d] = "idle" /\ saved'[d] = {}
        ELSE /\ pc'[d] = pc[d] /\ saved'[d] = saved[d]
             /\ uuid'[d] = uuid[d] /\ todo'[d] = todo[d]
  BY DEF Exit, StoreInv, SecretStoreTypeOk
<1>2. \A d \in Client :
        /\ pc[d] \notin {"publish", "record"} => saved[d] = {}
        /\ pc[d] = "record" => EnoughSaved(d)
  BY DEF StoreInv, SavedHeld, Storing
<1> QED BY <1>1, <1>2 DEF QuietClients

\* Every step of a client on its own keeps the invariant.
LEMMA ClientQuiet ==
  ASSUME StoreInv, NEW c \in Client,
         \/ \E p \in Host : SkipPeer(c, p) \/ FetchShare(c, p) \/ MissPeer(c, p)
         \/ GiveUpShare(c) \/ FinishPublishing(c) \/ GiveUpRecord(c)
         \/ FinishGet(c) \/ Kill(c) \/ \E n \in Name : Lookup(c, n)
  PROVE  StoreInv'
<1> USE DEF getVars
<1>1. SecretStoreTypeOk' /\ UNCHANGED <<serverVars, split>>
  BY ClientTypes
<1>2. \A d \in Client :
        /\ pc[d] \notin {"publish", "record"} => saved[d] = {}
        /\ pc[d] = "record" => EnoughSaved(d)
  BY DEF StoreInv, SavedHeld, Storing
<1>3. ASSUME NEW p \in Host, SkipPeer(c, p) \/ FetchShare(c, p) \/ MissPeer(c, p)
      PROVE  QuietConn /\ QuietClients
  <2>1. UNCHANGED <<pc, uuid, saved, conn, wait>>
    BY <1>3 DEF SkipPeer, FetchShare, MissPeer
  <2>2. \A d \in Client : todo'[d] \subseteq todo[d]
    BY <1>3 DEF SkipPeer, FetchShare, MissPeer, StoreInv, SecretStoreTypeOk
  <2>3. QuietConn
    <3>1. pc[c] \notin {"publish", "record"} \/ pc'[c] \in {"publish", "record"}
      BY <2>1
    <3> QED BY <2>1, <3>1, UnwatchedQuiet
  <2> QED BY <1>2, <2>1, <2>2, <2>3 DEF QuietClients
<1>4. CASE GiveUpShare(c)
  <2>1. Abandon(c) /\ UNCHANGED <<pc, uuid, saved, todo>>
    BY <1>4 DEF GiveUpShare
  <2> QED BY <1>1, <1>2, <2>1, AbandonQuiet, QuietStep DEF QuietClients
<1>5. CASE FinishPublishing(c)
  <2>1. wait[c] = None /\ pc[c] = "publish" /\ UNCHANGED <<conn, wait>>
    BY <1>5 DEF FinishPublishing
  <2>2. CASE EnoughSaved(c) /\ pc' = [pc EXCEPT ![c] = "record"]
             /\ UNCHANGED <<uuid, todo, saved, getVars, result>>
    <3>1. \A d \in Client : pc'[d] = IF d = c THEN "record" ELSE pc[d]
      BY <2>2 DEF StoreInv, SecretStoreTypeOk
    <3>2. QuietClients
      BY <1>2, <2>1, <2>2, <3>1 DEF QuietClients
    <3> QED BY <1>1, <2>1, <3>1, <3>2, UnwatchedQuiet, QuietStep
  <2>3. CASE Exit(c, "notsafe")
    BY <1>1, <2>1, <2>3, ExitQuiet, UnwatchedQuiet, QuietStep
  <2> QED BY <1>5, <2>2, <2>3 DEF FinishPublishing
<1>6. CASE GiveUpRecord(c) \/ Kill(c)
  <2>1. Abandon(c) /\ \E outcome \in Outcome : Exit(c, outcome)
    BY <1>6 DEF GiveUpRecord, Kill, Outcome
  <2> QED BY <1>1, <2>1, ExitQuiet, AbandonQuiet, QuietStep
<1>7. CASE FinishGet(c)
  <2>1. /\ pc[c] = "collect" /\ UNCHANGED <<conn, wait>>
        /\ \E outcome \in Outcome : Exit(c, outcome)
    BY <1>7 DEF FinishGet, Outcome
  <2> QED BY <1>1, <2>1, ExitQuiet, UnwatchedQuiet, QuietStep
<1>8. ASSUME NEW n \in Name, Lookup(c, n)
      PROVE  StoreInv'
  <2>1. pc[c] = "idle" /\ UNCHANGED <<conn, wait>>
    BY <1>8 DEF Lookup
  <2>2. CASE Exit(c, "nometadata")
    BY <1>1, <2>1, <2>2, ExitQuiet, UnwatchedQuiet, QuietStep
  <2>3. CASE ~Exit(c, "nometadata")
    <3>1. /\ pc' = [pc EXCEPT ![c] = "collect"]
          /\ uuid' = [uuid EXCEPT ![c] = secrets[HostOf[c]][n].uuid]
          /\ todo' = [todo EXCEPT ![c] = TrustedPeers(HostOf[c])]
          /\ saved' = saved
      BY <1>8, <2>3 DEF Lookup
    <3>2. \A d \in Client :
            IF d = c THEN pc'[d] = "collect"
            ELSE pc'[d] = pc[d] /\ uuid'[d] = uuid[d] /\ todo'[d] = todo[d]
      BY <3>1 DEF StoreInv, SecretStoreTypeOk
    <3>3. QuietClients
      BY <1>2, <2>1, <3>1, <3>2 DEF QuietClients
    <3> QED BY <1>1, <2>1, <3>2, <3>3, UnwatchedQuiet, QuietStep
  <2> QED BY <2>2, <2>3
<1> QED BY <1>1, <1>3, <1>4, <1>5, <1>6, <1>7, <1>8, QuietStep

-----------------------------------------------------------------------------
(* Steps that split a version or put a request on its way.                  *)

\* A fresh uuid: nobody has heard of it, so all its shares are unseen.
LEMMA StoreSecretKeepsInv ==
  ASSUME StoreInv, NEW c \in Client, NEW n \in Name, NEW u \in UUID,
         NEW targets \in SUBSET Host, NEW t \in Treshold,
         StoreSecret(c, n, u, targets, t)
  PROVE  StoreInv'
<1> DEFINE version == [host |-> HostOf[c], name |-> n, treshold |-> t,
                       shares |-> Cardinality(targets), over |-> Over]
<1>1. /\ pc[c] = "idle" /\ split[u] = None
      /\ split' = [split EXCEPT ![u] = version]
      /\ pc' = [pc EXCEPT ![c] = "publish"]
      /\ uuid' = [uuid EXCEPT ![c] = u]
      /\ todo' = [todo EXCEPT ![c] = targets]
      /\ result' = [result EXCEPT ![c] = "none"]
      /\ UNCHANGED <<up, shares, sharesDta, secrets, secretsDta>>
      /\ UNCHANGED <<conn, crashes, wait, saved, got, asked, missed, acked>>
  BY DEF StoreSecret, serverVars, getVars
<1>2. version \in Split
  <2>1. Cardinality(targets) \in Nat
    BY SavedSubset
  <2> QED BY <2>1, DeploymentAssumption DEF Split, Over
<1>3. version # None
  BY <1>2, NoneIsNoConn
<1> HIDE DEF version
<1>4. \A v \in UUID : split'[v] = IF v = u THEN version ELSE split[v]
  BY <1>1 DEF StoreInv, SecretStoreTypeOk
<1>5. \A d \in Client : /\ pc'[d] = IF d = c THEN "publish" ELSE pc[d]
                        /\ uuid'[d] = IF d = c THEN u ELSE uuid[d]
                        /\ todo'[d] = IF d = c THEN targets ELSE todo[d]
  BY <1>1 DEF StoreInv, SecretStoreTypeOk
<1>6. SecretStoreTypeOk'
  <2>1. "none" \in Outcome
    BY DEF Outcome
  <2>2. \A d \in Client : pc'[d] # "idle" => uuid'[d] \in UUID
    BY <1>5 DEF StoreInv, SecretStoreTypeOk
  <2> QED BY <1>1, <1>2, <2>1, <2>2 DEF StoreInv, SecretStoreTypeOk, ServerTypeOk
<1>7. SharesStayOnDisk /\ DiskInMemory'
  BY <1>1 DEF SharesStayOnDisk, StoreInv, DiskInMemory
<1>8. \A h \in Host : conn[h] # None =>
        /\ conn[h].client \in Client /\ conn[h].uuid \in UUID /\ conn[h].uuid # u
  BY <1>1 DEF StoreInv, SecretStoreTypeOk, Conn, ConnectionsSound
<1>9. ConnectionsSound'
  <2> SUFFICES ASSUME NEW h \in Host, conn[h] # None
               PROVE  /\ up[h] /\ split'[conn[h].uuid] # None
                      /\ conn[h].live => /\ pc'[conn[h].client] \in {"publish", "record"}
                                         /\ wait[conn[h].client] = h
                                         /\ uuid'[conn[h].client] = conn[h].uuid
    BY <1>1 DEF ConnectionsSound, Storing
  <2>1. /\ up[h] /\ split[conn[h].uuid] # None
        /\ conn[h].live => /\ pc[conn[h].client] \in {"publish", "record"}
                           /\ wait[conn[h].client] = h
                           /\ uuid[conn[h].client] = conn[h].uuid
    BY DEF StoreInv, ConnectionsSound, Storing
  <2> QED BY <1>1, <1>4, <1>5, <1>8, <2>1
<1>10. UnsentUnseen'
  <2>1. \A p \in Host : shares[p][u] = None /\ sharesDta[p][u] = None
    BY <1>1 DEF StoreInv, UnsentUnseen, NotYetSeen
  <2>2. ASSUME NEW d \in Client, NEW p \in Host, pc'[d] = "publish", p \in todo'[d]
        PROVE  /\ shares[p][uuid'[d]] = None /\ sharesDta[p][uuid'[d]] = None
               /\ conn[p] # None => conn[p].kind = "record" \/ conn[p].uuid # uuid'[d]
    <3>1. CASE d = c
      BY <1>5, <1>8, <2>1, <3>1
    <3>2. CASE d # c
      BY <1>5, <2>2, <3>2 DEF StoreInv, UnsentUnseen, NotYetSeen
    <3> QED BY <3>1, <3>2
  <2>3. ASSUME NEW p \in Host, NEW v \in UUID, split'[v] = None
        PROVE  shares[p][v] = None /\ sharesDta[p][v] = None
    <3>1. split[v] = None
      BY <1>3, <1>4, <2>3
    <3> QED BY <3>1 DEF StoreInv, UnsentUnseen, NotYetSeen
  <2>4. ASSUME NEW p \in Host, conn[p] # None, conn[p].kind = "share"
        PROVE  shares[p][conn[p].uuid] = None /\ sharesDta[p][conn[p].uuid] = None
    BY <2>4 DEF StoreInv, UnsentUnseen, NotYetSeen
  <2> QED BY <1>1, <2>2, <2>3, <2>4 DEF UnsentUnseen, NotYetSeen
<1>11. VersionsOwned'
  <2>1. \A d \in Client : d # c /\ pc[d] \in {"publish", "record"} =>
          uuid[d] \in UUID /\ split[uuid[d]] # None
    BY DEF StoreInv, VersionsOwned, Storing, SecretStoreTypeOk
  <2>2. \A d \in Client : pc'[d] \in {"publish", "record"} => split'[uuid'[d]] # None
    BY <1>3, <1>4, <1>5, <2>1
  <2>3. \A d, e \in Client :
          /\ pc'[d] \in {"publish", "record"} /\ pc'[e] \in {"publish", "record"}
          /\ uuid'[d] = uuid'[e]
          => d = e
    BY <1>1, <1>5, <2>1 DEF StoreInv, VersionsOwned, Storing
  <2> QED BY <2>2, <2>3 DEF VersionsOwned, Storing
<1>12. SavedHeld'
  <2> SUFFICES ASSUME NEW d \in Client
               PROVE  /\ pc'[d] \in {"publish", "record"} =>
                           saved[d] \subseteq {p \in Host : sharesDta[p][uuid'[d]] # None}
                      /\ pc'[d] \notin {"publish", "record"} => saved[d] = {}
                      /\ pc'[d] = "record" => EnoughSaved(d)'
    BY <1>1 DEF SavedHeld, Storing, Holders
  <2>1. CASE d = c
    BY <1>1, <1>5, <2>1 DEF StoreInv, SavedHeld, Storing
  <2>2. CASE d # c
    <3>1. pc'[d] = pc[d] /\ uuid'[d] = uuid[d]
      BY <1>5, <2>2
    <3>2. pc[d] = "record" => /\ EnoughSaved(d) /\ uuid[d] \in UUID
                              /\ split[uuid[d]] # None
      BY DEF StoreInv, SavedHeld, VersionsOwned, Storing, SecretStoreTypeOk
    <3>3. pc[d] = "record" => EnoughSaved(d)'
      BY <1>1, <1>4, <3>1, <3>2 DEF EnoughSaved
    <3> QED BY <3>1, <3>3 DEF StoreInv, SavedHeld, Storing, Holders
  <2> QED BY <2>1, <2>2
<1>13. RecordsInFlightRecoverable'
  <2>1. \A v \in UUID : split[v] # None => split'[v] = split[v]
    BY <1>1, <1>4
  <2> QED BY <1>1, <1>7, <2>1, FlightsStayRecoverable DEF StoreInv
<1>14. RecordedRecoverable'
  BY <1>1, <1>7, RecordsStayRecoverable DEF StoreInv, Records
<1> QED BY <1>6, <1>7, <1>9, <1>10, <1>11, <1>12, <1>13, <1>14 DEF StoreInv

\* A request is put on its way to a server that is free.
LEMMA SendKeepsInv ==
  ASSUME StoreInv, NEW c \in Client, NEW p \in Host,
         SendShare(c, p) \/ (p = HostOf[c] /\ SendRecord(c))
  PROVE  StoreInv'
<1> DEFINE request == [client |-> c, live |-> TRUE,
                       kind |-> IF pc[c] = "publish" THEN "share" ELSE "record",
                       uuid |-> uuid[c],
                       saved |-> IF pc[c] = "publish" THEN 0 ELSE Cardinality(saved[c])]
<1>1. /\ pc[c] \in {"publish", "record"} /\ wait[c] = None
      /\ up[p] /\ conn[p] = None
      /\ conn' = [conn EXCEPT ![p] = request]
      /\ wait' = [wait EXCEPT ![c] = p]
      /\ UNCHANGED <<up, shares, sharesDta, secrets, secretsDta>>
      /\ UNCHANGED <<crashes, split, pc, uuid, saved, got, asked, missed, result, acked>>
  BY DEF SendShare, SendRecord, Free, serverVars, getVars
<1>2. pc[c] = "publish" => p \in todo[c] /\ todo' = [todo EXCEPT ![c] = @ \ {p}]
  BY DEF SendShare, SendRecord
<1>3. pc[c] = "record" => todo' = todo
  BY DEF SendShare, SendRecord
<1>4. uuid[c] \in UUID /\ split[uuid[c]] # None
  BY <1>1 DEF StoreInv, SecretStoreTypeOk, VersionsOwned, Storing
<1>5. /\ saved[c] \in SUBSET Host /\ Cardinality(saved[c]) \in Nat
  BY SavedSubset DEF StoreInv, SecretStoreTypeOk
<1>6. request \in Conn
  BY <1>4, <1>5 DEF Conn
<1>7. \A h \in Host : conn'[h] = IF h = p THEN request ELSE conn[h]
  BY <1>1 DEF StoreInv, SecretStoreTypeOk
<1>8. \A d \in Client : /\ wait'[d] = IF d = c THEN p ELSE wait[d]
                        /\ todo'[d] \subseteq todo[d]
                        /\ d = c /\ pc[c] = "publish" => p \notin todo'[d]
  BY <1>1, <1>2, <1>3 DEF StoreInv, SecretStoreTypeOk
<1>9. SecretStoreTypeOk'
  <2>1. conn' \in [Host -> Conn \cup {None}]
    BY <1>1, <1>6 DEF StoreInv, SecretStoreTypeOk
  <2>2. todo' \in [Client -> SUBSET Host]
    BY <1>1, <1>2, <1>3 DEF StoreInv, SecretStoreTypeOk
  <2> QED BY <1>1, <2>1, <2>2 DEF StoreInv, SecretStoreTypeOk, ServerTypeOk
<1>10. SharesStayOnDisk /\ DiskInMemory'
  BY <1>1 DEF SharesStayOnDisk, StoreInv, DiskInMemory
<1>11. /\ request # None /\ request.uuid = uuid[c] /\ request.client = c
       /\ pc[c] = "publish" => request.kind = "share"
       /\ pc[c] # "publish" =>
            request.kind = "record" /\ request.saved = Cardinality(saved[c])
  BY <1>6, NoneIsNoConn
<1> HIDE DEF request
<1>12. ConnectionsSound'
  <2> SUFFICES ASSUME NEW h \in Host, conn'[h] # None
               PROVE  /\ up[h] /\ split[conn'[h].uuid] # None
                      /\ conn'[h].live =>
                            /\ pc[conn'[h].client] \in {"publish", "record"}
                            /\ wait'[conn'[h].client] = h
                            /\ uuid[conn'[h].client] = conn'[h].uuid
    BY <1>1 DEF ConnectionsSound, Storing
  <2>1. CASE h = p
    BY <1>1, <1>4, <1>7, <1>8, <1>11, <2>1
  <2>2. CASE h # p
    <3>1. conn'[h] = conn[h] /\ conn[h] # None /\ conn[h].client \in Client
      BY <1>7, <2>2 DEF StoreInv, SecretStoreTypeOk, Conn
    <3>2. /\ up[h] /\ split[conn[h].uuid] # None
          /\ conn[h].live => /\ pc[conn[h].client] \in {"publish", "record"}
                             /\ wait[conn[h].client] = h
                             /\ uuid[conn[h].client] = conn[h].uuid
      BY <3>1 DEF StoreInv, ConnectionsSound, Storing
    <3>3. conn[h].live => conn[h].client # c
      BY <1>1, <3>2, DeploymentAssumption
    <3> QED BY <1>8, <3>1, <3>2, <3>3
  <2> QED BY <2>1, <2>2
<1>13. UnsentUnseen'
  <2>1. ASSUME NEW d \in Client, NEW q \in Host, pc[d] = "publish", q \in todo'[d]
        PROVE  /\ shares[q][uuid[d]] = None /\ sharesDta[q][uuid[d]] = None
               /\ conn'[q] # None => conn'[q].kind = "record" \/ conn'[q].uuid # uuid[d]
    <3>1. q \in todo[d]
      BY <1>8, <2>1
    <3>2. /\ shares[q][uuid[d]] = None /\ sharesDta[q][uuid[d]] = None
          /\ conn[q] # None => conn[q].kind = "record" \/ conn[q].uuid # uuid[d]
      BY <2>1, <3>1 DEF StoreInv, UnsentUnseen, NotYetSeen
    <3>3. q = p /\ pc[c] = "publish" => uuid[c] # uuid[d]
      BY <1>1, <1>8, <2>1 DEF StoreInv, VersionsOwned, Storing
    <3>4. q = p => conn'[q].kind = "record" \/ conn'[q].uuid # uuid[d]
      BY <1>1, <1>7, <1>11, <3>3
    <3>5. q # p => conn'[q] = conn[q]
      BY <1>7
    <3> QED BY <3>2, <3>4, <3>5
  <2>2. ASSUME NEW q \in Host, conn'[q] # None, conn'[q].kind = "share"
        PROVE  shares[q][conn'[q].uuid] = None /\ sharesDta[q][conn'[q].uuid] = None
    <3>1. CASE q = p
      <4>1. pc[c] = "publish" /\ p \in todo[c] /\ conn'[q].uuid = uuid[c]
        BY <1>1, <1>2, <1>7, <1>11, <2>2, <3>1
      <4> QED BY <3>1, <4>1 DEF StoreInv, UnsentUnseen, NotYetSeen
    <3>2. CASE q # p
      BY <1>7, <2>2, <3>2 DEF StoreInv, UnsentUnseen, NotYetSeen
    <3> QED BY <3>1, <3>2
  <2>3. ASSUME NEW q \in Host, NEW v \in UUID, split[v] = None
        PROVE  shares[q][v] = None /\ sharesDta[q][v] = None
    BY <2>3 DEF StoreInv, UnsentUnseen, NotYetSeen
  <2> QED BY <1>1, <2>1, <2>2, <2>3 DEF UnsentUnseen, NotYetSeen
<1>14. VersionsOwned' /\ SavedHeld'
  BY <1>1 DEF StoreInv, VersionsOwned, SavedHeld, Storing, Holders, EnoughSaved
<1>15. RecordsInFlightRecoverable'
  <2> SUFFICES ASSUME NEW h \in Host, conn'[h] # None, conn'[h].kind = "record"
               PROVE  /\ split[conn'[h].uuid].treshold <= conn'[h].saved
                      /\ conn'[h].saved <=
                           Cardinality({q \in Host : sharesDta[q][conn'[h].uuid] # None})
    BY <1>1 DEF RecordsInFlightRecoverable, Holders
  <2>1. CASE h = p
    <3>1. /\ pc[c] = "record" /\ conn'[h].uuid = uuid[c]
          /\ conn'[h].saved = Cardinality(saved[c])
      BY <1>1, <1>7, <1>11, <2>1
    <3>2. EnoughSaved(c) /\ saved[c] \subseteq Holders(uuid[c])
      BY <3>1 DEF StoreInv, SavedHeld, Storing
    <3>3. Holders(uuid[c]) \in SUBSET Host
      BY DEF Holders
    <3>4. Cardinality(saved[c]) <= Cardinality(Holders(uuid[c]))
      BY <1>5, <3>2, <3>3, SavedSubset
    <3>5. split[uuid[c]].treshold <= Cardinality(saved[c])
      <4>1. split[uuid[c]].treshold \in Nat
        BY <1>4 DEF StoreInv, SecretStoreTypeOk, Split
      <4> QED BY <1>5, <3>2, <4>1 DEF EnoughSaved
    <3> QED BY <3>1, <3>4, <3>5 DEF Holders
  <2>2. CASE h # p
    BY <1>7, <2>2 DEF StoreInv, RecordsInFlightRecoverable, Holders
  <2> QED BY <2>1, <2>2
<1>16. RecordedRecoverable'
  BY <1>1, <1>10, RecordsStayRecoverable DEF StoreInv, Records
<1> QED BY <1>9, <1>10, <1>12, <1>13, <1>14, <1>15, <1>16 DEF StoreInv

-----------------------------------------------------------------------------
(* Handlers.                                                                *)

\* The server takes the share it has not seen: saved, or not confirmed.
LEMMA HandleShareKeepsInv ==
  ASSUME StoreInv, NEW p \in Host, NEW status, HandleShare(p, status)
  PROVE  StoreInv'
<1> DEFINE r == conn[p]
<1> DEFINE u == conn[p].uuid
<1> DEFINE e == conn[p].client
<1>1. /\ r # None /\ r.kind = "share"
      /\ StoreShare(p, Cert[HostOf[e]], u, ShareFor(u, p), status)
      /\ conn' = [conn EXCEPT ![p] = None]
      /\ wait' = IF r.live THEN [wait EXCEPT ![e] = None] ELSE wait
      /\ saved' = IF r.live /\ Confirms(status)
                  THEN [saved EXCEPT ![e] = @ \cup {p}] ELSE saved
      /\ UNCHANGED <<crashes, split, pc, uuid, todo, got, asked, missed, result, acked>>
  BY DEF HandleShare, getVars
<1>2. /\ r \in Conn /\ u \in UUID /\ e \in Client /\ split[u] # None /\ up[p]
      /\ r.live => /\ pc[e] \in {"publish", "record"}
                   /\ wait[e] = p /\ uuid[e] = u
  BY <1>1 DEF StoreInv, SecretStoreTypeOk, Conn, ConnectionsSound, Storing
<1>3. ShareFor(u, p) \in Payload
  BY <1>2, ShareForType DEF StoreInv
<1>4. ServerTypeOk /\ DiskInMemory
  BY DEF StoreInv, SecretStoreTypeOk
<1>5. shares[p][u] = None /\ sharesDta[p][u] = None
  BY <1>1 DEF StoreInv, UnsentUnseen, NotYetSeen
<1>6. /\ ServerTypeOk' /\ DiskInMemory' /\ SharesStayOnDisk
      /\ UNCHANGED <<up, secrets, secretsDta>>
      /\ \A q \in Host, v \in UUID : q # p \/ v # u =>
           /\ shares'[q][v] = shares[q][v]
           /\ sharesDta'[q][v] # None => shares[q][v] # None \/ sharesDta[q][v] # None
  <2> DEFINE body == ShareFor(u, p)
  <2> DEFINE cn == Cert[HostOf[e]]
  <2>1. StoreShare(p, cn, u, body, status) /\ body \in Payload /\ u \in UUID
    BY <1>1, <1>2, <1>3
  <2> HIDE DEF u, body, cn
  <2> QED BY <1>4, <2>1, StoreShareSafe
<1>7. Confirms(status) => sharesDta'[p][u] # None
  <2>1. Confirms(status) => sharesDta'[p][u] = ShareFor(u, p)
    BY <1>1, <1>2, <1>3, <1>4, <1>5, NewShareConfirmedIsSaved DEF Confirms
  <2> QED BY <1>3, <2>1, NamesAssumption
<1>8. \A h \in Host : conn'[h] = IF h = p THEN None ELSE conn[h]
  BY <1>1 DEF StoreInv, SecretStoreTypeOk
<1>9. \A d \in Client : /\ ~(r.live /\ d = e) => wait'[d] = wait[d]
                        /\ saved[d] \subseteq saved'[d]
                        /\ saved'[d] # saved[d] => /\ r.live /\ d = e /\ Confirms(status)
                                                  /\ saved'[d] = saved[d] \cup {p}
  BY <1>1, <1>2 DEF StoreInv, SecretStoreTypeOk
<1>10. SecretStoreTypeOk'
  <2>1. conn' \in [Host -> Conn \cup {None}] /\ wait' \in [Client -> Host \cup {None}]
    BY <1>1, <1>2 DEF StoreInv, SecretStoreTypeOk
  <2>2. saved' \in [Client -> SUBSET Host]
    BY <1>1, <1>2 DEF StoreInv, SecretStoreTypeOk
  <2> QED BY <1>1, <1>6, <2>1, <2>2 DEF StoreInv, SecretStoreTypeOk
<1>11. ConnectionsSound'
  <2> SUFFICES ASSUME NEW h \in Host, h # p, conn[h] # None
               PROVE  /\ up[h] /\ split[conn[h].uuid] # None
                      /\ conn[h].live =>
                            /\ pc[conn[h].client] \in {"publish", "record"}
                            /\ wait'[conn[h].client] = h
                            /\ uuid[conn[h].client] = conn[h].uuid
    BY <1>1, <1>6, <1>8 DEF ConnectionsSound, Storing
  <2>1. conn[h].client \in Client
    BY DEF StoreInv, SecretStoreTypeOk, Conn
  <2>2. /\ up[h] /\ split[conn[h].uuid] # None
        /\ conn[h].live => /\ pc[conn[h].client] \in {"publish", "record"}
                           /\ wait[conn[h].client] = h
                           /\ uuid[conn[h].client] = conn[h].uuid
    BY DEF StoreInv, ConnectionsSound, Storing
  <2> QED BY <1>2, <1>9, <2>1, <2>2
<1>12. UnsentUnseen'
  <2>1. \A q \in Host, v \in UUID :
          /\ q # p \/ v # u
          /\ shares[q][v] = None /\ sharesDta[q][v] = None
          => shares'[q][v] = None /\ sharesDta'[q][v] = None
    BY <1>6
  <2>2. ASSUME NEW d \in Client, NEW q \in Host, pc[d] = "publish", q \in todo[d]
        PROVE  /\ shares'[q][uuid[d]] = None /\ sharesDta'[q][uuid[d]] = None
               /\ conn'[q] # None => conn'[q].kind = "record" \/ conn'[q].uuid # uuid[d]
    <3>1. /\ shares[q][uuid[d]] = None /\ sharesDta[q][uuid[d]] = None
          /\ conn[q] # None => conn[q].kind = "record" \/ conn[q].uuid # uuid[d]
          /\ uuid[d] \in UUID
      BY <2>2 DEF StoreInv, UnsentUnseen, NotYetSeen, SecretStoreTypeOk
    <3>2. q # p \/ uuid[d] # u
      BY <1>1, <3>1
    <3> QED BY <1>8, <2>1, <3>1, <3>2
  <2>3. ASSUME NEW q \in Host, conn'[q] # None, conn'[q].kind = "share"
        PROVE  shares'[q][conn'[q].uuid] = None /\ sharesDta'[q][conn'[q].uuid] = None
    <3>1. q # p /\ conn'[q] = conn[q]
      BY <1>8, <2>3
    <3>2. /\ conn[q].uuid \in UUID
          /\ shares[q][conn[q].uuid] = None /\ sharesDta[q][conn[q].uuid] = None
      BY <2>3, <3>1 DEF StoreInv, UnsentUnseen, NotYetSeen, SecretStoreTypeOk, Conn
    <3> QED BY <2>1, <3>1, <3>2
  <2>4. ASSUME NEW q \in Host, NEW v \in UUID, split[v] = None
        PROVE  shares'[q][v] = None /\ sharesDta'[q][v] = None
    <3>1. v # u /\ shares[q][v] = None /\ sharesDta[q][v] = None
      BY <1>2, <2>4 DEF StoreInv, UnsentUnseen, NotYetSeen
    <3> QED BY <2>1, <3>1
  <2> QED BY <1>1, <2>2, <2>3, <2>4 DEF UnsentUnseen, NotYetSeen
<1>13. VersionsOwned'
  BY <1>1 DEF StoreInv, VersionsOwned, Storing
<1>14. SavedHeld'
  <2> SUFFICES ASSUME NEW d \in Client
               PROVE  /\ pc[d] \in {"publish", "record"} =>
                           saved'[d] \subseteq {q \in Host : sharesDta'[q][uuid[d]] # None}
                      /\ pc[d] \notin {"publish", "record"} => saved'[d] = {}
                      /\ pc[d] = "record" => EnoughSaved(d)'
    BY <1>1 DEF SavedHeld, Storing, Holders
  <2>1. /\ pc[d] \in {"publish", "record"} =>
              /\ uuid[d] \in UUID
              /\ saved[d] \subseteq {q \in Host : sharesDta[q][uuid[d]] # None}
        /\ pc[d] \notin {"publish", "record"} => saved[d] = {}
        /\ pc[d] = "record" => EnoughSaved(d)
    BY DEF StoreInv, SavedHeld, Storing, Holders, SecretStoreTypeOk
  <2>2. pc[d] \in {"publish", "record"} =>
          saved[d] \subseteq {q \in Host : sharesDta'[q][uuid[d]] # None}
    BY <1>6, <2>1 DEF SharesStayOnDisk
  <2>3. pc[d] \in {"publish", "record"} =>
          saved'[d] \subseteq {q \in Host : sharesDta'[q][uuid[d]] # None}
    BY <1>2, <1>7, <1>9, <2>2
  <2>4. pc[d] \notin {"publish", "record"} => saved'[d] = {}
    BY <1>2, <1>9, <2>1
  <2>5. pc[d] = "record" => EnoughSaved(d)'
    <3> SUFFICES ASSUME pc[d] = "record"
                 PROVE  Cardinality(saved'[d]) >= split[uuid[d]].treshold
      BY <1>1 DEF EnoughSaved
    <3>1. /\ saved[d] \in SUBSET Host /\ saved'[d] \in SUBSET Host
          /\ Cardinality(saved[d]) >= split[uuid[d]].treshold
          /\ split[uuid[d]] \in Split
      BY <1>10, <2>1 DEF EnoughSaved, StoreInv, SecretStoreTypeOk, VersionsOwned, Storing
    <3>2. split[uuid[d]].treshold \in Nat
      BY <3>1 DEF Split
    <3> QED BY <1>9, <3>1, <3>2, SavedSubset
  <2> QED BY <2>3, <2>4, <2>5
<1>15. RecordsInFlightRecoverable'
  BY <1>1, <1>6, <1>8, FlightsStayRecoverable DEF StoreInv
<1>16. RecordedRecoverable'
  BY <1>6, RecordsStayRecoverable DEF StoreInv, Records
<1> QED BY <1>6, <1>10, <1>11, <1>12, <1>13, <1>14, <1>15, <1>16 DEF StoreInv

\* The own server records what the request says, which is recoverable.
LEMMA HandleRecordKeepsInv ==
  ASSUME StoreInv, NEW p \in Host, NEW status, HandleRecord(p, status)
  PROVE  StoreInv'
<1> DEFINE r == conn[p]
<1> DEFINE u == conn[p].uuid
<1> DEFINE e == conn[p].client
<1>1. /\ r # None /\ r.kind = "record"
      /\ StoreSecretMetadata(p, Cert[HostOf[e]], split[u].name, RecordOf(r), status)
      /\ conn' = [conn EXCEPT ![p] = None]
      /\ UNCHANGED <<crashes, split>>
  BY DEF HandleRecord
<1>2. /\ r.live => /\ wait' = [wait EXCEPT ![e] = None]
                   /\ \E outcome \in Outcome : Exit(e, outcome)
                   /\ acked' \subseteq acked \cup {u} /\ acked \subseteq acked'
      /\ ~r.live => UNCHANGED <<pc, uuid, todo, wait, saved, got, asked, missed,
                                result, acked>>
  BY DEF HandleRecord, clientVars, getVars, Outcome
<1>3. /\ r \in Conn /\ u \in UUID /\ e \in Client /\ r.saved \in Nat
      /\ split[u] # None /\ split[u] \in Split /\ up[p]
      /\ r.live => /\ pc[e] \in {"publish", "record"}
                   /\ wait[e] = p /\ uuid[e] = u
  BY <1>1 DEF StoreInv, SecretStoreTypeOk, Conn, ConnectionsSound, Storing
<1>4. /\ RecordOf(r) \in Record
      /\ RecordOf(r).uuid = u
      /\ RecordOf(r).treshold = split[u].treshold
      /\ RecordOf(r).shares_saved = r.saved
      /\ split[u].name \in Name /\ split[u].treshold \in Nat
  BY <1>3 DEF RecordOf, Record, Split
<1>5. ServerTypeOk /\ DiskInMemory
  BY DEF StoreInv, SecretStoreTypeOk
<1>6. /\ ServerTypeOk' /\ DiskInMemory'
      /\ UNCHANGED <<up, shares, sharesDta>>
      /\ \A g \in Host, m \in Name :
           /\ secrets'[g][m] \in {secrets[g][m], RecordOf(r)}
           /\ secretsDta'[g][m] \in {secretsDta[g][m], secrets[g][m], RecordOf(r)}
  BY <1>1, <1>4, <1>5, StoreSecretSafe
<1>7. \A h \in Host : conn'[h] = IF h = p THEN None ELSE conn[h]
  BY <1>1 DEF StoreInv, SecretStoreTypeOk
<1>8. \A d \in Client :
        IF r.live /\ d = e
        THEN pc'[d] = "idle" /\ saved'[d] = {}
        ELSE /\ pc'[d] = pc[d] /\ saved'[d] = saved[d] /\ uuid'[d] = uuid[d]
             /\ todo'[d] = todo[d] /\ wait'[d] = wait[d]
  BY <1>2, <1>3 DEF Exit, StoreInv, SecretStoreTypeOk
<1>9. SecretStoreTypeOk'
  <2>1. conn' \in [Host -> Conn \cup {None}]
    BY <1>1 DEF StoreInv, SecretStoreTypeOk
  <2>2. CASE r.live
    <3> PICK outcome \in Outcome : Exit(e, outcome)
      BY <1>2, <2>2
    <3>1. /\ pc' \in [Client -> {"idle", "publish", "record", "collect"}]
          /\ uuid' \in [Client -> UUID \cup {None}]
          /\ todo' \in [Client -> SUBSET Host]
          /\ saved' \in [Client -> SUBSET Host]
          /\ missed' \in [Client -> SUBSET Host]
      BY <1>3 DEF Exit, StoreInv, SecretStoreTypeOk
    <3>2. /\ got' \in [Client -> SUBSET Payload]
          /\ asked' \in [Client -> Name \cup {None}]
          /\ result' \in [Client -> Outcome]
      BY <1>3 DEF Exit, StoreInv, SecretStoreTypeOk
    <3>3. \A d \in Client : pc'[d] # "idle" => uuid'[d] \in UUID
      BY <1>3 DEF Exit, StoreInv, SecretStoreTypeOk
    <3>4. wait' \in [Client -> Host \cup {None}] /\ acked' \subseteq UUID
      BY <1>2, <1>3, <2>2 DEF StoreInv, SecretStoreTypeOk
    <3>5. split' \in [UUID -> Split \cup {None}] /\ crashes' \in 0 .. MaxCrashes
      BY <1>1 DEF StoreInv, SecretStoreTypeOk
    <3> QED BY <1>6, <2>1, <3>1, <3>2, <3>3, <3>4, <3>5 DEF SecretStoreTypeOk
  <2>3. CASE ~r.live
    BY <1>1, <1>2, <1>6, <2>1, <2>3 DEF StoreInv, SecretStoreTypeOk
  <2> QED BY <2>2, <2>3
<1>10. SharesStayOnDisk
  BY <1>6 DEF SharesStayOnDisk
<1>11. ConnectionsSound'
  <2> SUFFICES ASSUME NEW h \in Host, h # p, conn[h] # None
               PROVE  /\ up[h] /\ split[conn[h].uuid] # None
                      /\ conn[h].live =>
                            /\ pc'[conn[h].client] \in {"publish", "record"}
                            /\ wait'[conn[h].client] = h
                            /\ uuid'[conn[h].client] = conn[h].uuid
    BY <1>1, <1>6, <1>7 DEF ConnectionsSound, Storing
  <2>1. conn[h].client \in Client
    BY DEF StoreInv, SecretStoreTypeOk, Conn
  <2>2. /\ up[h] /\ split[conn[h].uuid] # None
        /\ conn[h].live => /\ pc[conn[h].client] \in {"publish", "record"}
                           /\ wait[conn[h].client] = h
                           /\ uuid[conn[h].client] = conn[h].uuid
    BY DEF StoreInv, ConnectionsSound, Storing
  <2> QED BY <1>3, <1>8, <2>1, <2>2
<1>12. UnsentUnseen'
  <2>1. ASSUME NEW d \in Client, NEW q \in Host, pc'[d] = "publish", q \in todo'[d]
        PROVE  /\ shares[q][uuid'[d]] = None /\ sharesDta[q][uuid'[d]] = None
               /\ conn'[q] # None => conn'[q].kind = "record" \/ conn'[q].uuid # uuid'[d]
    <3>1. pc[d] = "publish" /\ q \in todo[d] /\ uuid'[d] = uuid[d]
      BY <1>8, <2>1
    <3> QED BY <1>7, <3>1 DEF StoreInv, UnsentUnseen, NotYetSeen
  <2>2. ASSUME NEW q \in Host, conn'[q] # None, conn'[q].kind = "share"
        PROVE  shares[q][conn'[q].uuid] = None /\ sharesDta[q][conn'[q].uuid] = None
    BY <1>7, <2>2 DEF StoreInv, UnsentUnseen, NotYetSeen
  <2>3. ASSUME NEW q \in Host, NEW v \in UUID, split[v] = None
        PROVE  shares[q][v] = None /\ sharesDta[q][v] = None
    BY <2>3 DEF StoreInv, UnsentUnseen, NotYetSeen
  <2> QED BY <1>1, <1>6, <2>1, <2>2, <2>3 DEF UnsentUnseen, NotYetSeen
<1>13. VersionsOwned'
  BY <1>1, <1>8 DEF StoreInv, VersionsOwned, Storing
<1>14. SavedHeld'
  <2> SUFFICES ASSUME NEW d \in Client
               PROVE  /\ pc'[d] \in {"publish", "record"} =>
                           saved'[d] \subseteq {q \in Host : sharesDta[q][uuid'[d]] # None}
                      /\ pc'[d] \notin {"publish", "record"} => saved'[d] = {}
                      /\ pc'[d] = "record" => EnoughSaved(d)'
    BY <1>6 DEF SavedHeld, Storing, Holders
  <2>1. /\ pc[d] \in {"publish", "record"} =>
              saved[d] \subseteq {q \in Host : sharesDta[q][uuid[d]] # None}
        /\ pc[d] \notin {"publish", "record"} => saved[d] = {}
        /\ pc[d] = "record" => EnoughSaved(d)
    BY DEF StoreInv, SavedHeld, Storing, Holders
  <2>2. CASE r.live /\ d = e
    BY <1>8, <2>2
  <2>3. CASE ~(r.live /\ d = e)
    <3>1. pc'[d] = pc[d] /\ saved'[d] = saved[d] /\ uuid'[d] = uuid[d]
      BY <1>8, <2>3
    <3>2. pc[d] = "record" => EnoughSaved(d)'
      BY <1>1, <2>1, <3>1 DEF EnoughSaved
    <3> QED BY <2>1, <3>1, <3>2
  <2> QED BY <2>2, <2>3
<1>15. RecordsInFlightRecoverable'
  BY <1>1, <1>7, <1>10, FlightsStayRecoverable DEF StoreInv
<1>16. RecordedRecoverable'
  <2> SUFFICES ASSUME NEW g \in Host, NEW m \in Name, NEW s \in Records(g, m)'
               PROVE  /\ s.treshold <= s.shares_saved
                      /\ s.shares_saved <= Cardinality(Holders(s.uuid)')
    BY DEF RecordedRecoverable
  <2>1. s \in Records(g, m) \/ s = RecordOf(r)
    BY <1>6 DEF Records
  <2>2. CASE s \in Records(g, m)
    BY <1>6, <2>2 DEF StoreInv, RecordedRecoverable, Holders
  <2>3. CASE s = RecordOf(r)
    BY <1>1, <1>4, <1>6, <2>3 DEF StoreInv, RecordsInFlightRecoverable, Holders
  <2> QED BY <2>1, <2>2, <2>3
<1> QED BY <1>6, <1>9, <1>11, <1>12, <1>13, <1>14, <1>15, <1>16 DEF StoreInv

-----------------------------------------------------------------------------
(* Crashes and restarts.                                                    *)

LEMMA CrashKeepsStoreInv ==
  ASSUME StoreInv, NEW h \in Host, Crash(h)
  PROVE  StoreInv'
<1>1. /\ CrashServer(h) /\ crashes < MaxCrashes /\ crashes' = crashes + 1
      /\ conn' = [conn EXCEPT ![h] = None]
      /\ UNCHANGED <<split, pc, uuid, todo, wait, saved, got, asked, missed, result, acked>>
  BY DEF Crash, clientVars, getVars
<1>2. /\ ServerTypeOk' /\ DiskInMemory' /\ UNCHANGED <<sharesDta, secretsDta>>
      /\ \A p \in Host, u \in UUID : shares'[p][u] \in {None, shares[p][u]}
      /\ \A p \in Host, n \in Name : secrets'[p][n] \in {None, secrets[p][n]}
      /\ \A p \in Host : p # h => up'[p] = up[p]
  BY <1>1, CrashSafe DEF StoreInv, SecretStoreTypeOk
<1>3. \A p \in Host : conn'[p] = IF p = h THEN None ELSE conn[p]
  BY <1>1 DEF StoreInv, SecretStoreTypeOk
<1>4. SecretStoreTypeOk'
  <2>1. crashes' \in 0 .. MaxCrashes
    BY <1>1, DeploymentAssumption DEF StoreInv, SecretStoreTypeOk
  <2> QED BY <1>1, <1>2, <2>1 DEF StoreInv, SecretStoreTypeOk
<1>5. SharesStayOnDisk
  BY <1>2 DEF SharesStayOnDisk
<1>6. ConnectionsSound'
  <2> SUFFICES ASSUME NEW p \in Host, p # h, conn[p] # None
               PROVE  /\ up'[p] /\ split[conn[p].uuid] # None
                      /\ conn[p].live => /\ pc[conn[p].client] \in {"publish", "record"}
                                         /\ wait[conn[p].client] = p
                                         /\ uuid[conn[p].client] = conn[p].uuid
    BY <1>1, <1>3 DEF ConnectionsSound, Storing
  <2>1. up[p]
    BY DEF StoreInv, ConnectionsSound
  <2>2. up'[p]
    BY <1>2, <2>1
  <2> QED BY <2>2 DEF StoreInv, ConnectionsSound, Storing
<1>7. UnsentUnseen'
  <2>1. \A p \in Host, u \in UUID : shares[p][u] = None => shares'[p][u] = None
    BY <1>2
  <2>2. \A p \in Host : conn[p] # None => conn[p].uuid \in UUID
    BY DEF StoreInv, SecretStoreTypeOk, Conn
  <2>3. \A c \in Client : pc[c] = "publish" => uuid[c] \in UUID
    BY DEF StoreInv, SecretStoreTypeOk
  <2> QED BY <1>1, <1>2, <1>3, <2>1, <2>2, <2>3 DEF StoreInv, UnsentUnseen, NotYetSeen
<1>8. VersionsOwned' /\ SavedHeld'
  BY <1>1, <1>2 DEF StoreInv, VersionsOwned, SavedHeld, Storing, Holders, EnoughSaved
<1>9. RecordsInFlightRecoverable'
  BY <1>1, <1>3, <1>5, FlightsStayRecoverable DEF StoreInv
<1>10. RecordedRecoverable'
  <2>1. \A p \in Host, n \in Name : Records(p, n)' \subseteq Records(p, n)
    BY <1>2 DEF Records
  <2> QED BY <1>5, <2>1, RecordsStayRecoverable DEF StoreInv
<1> QED BY <1>2, <1>4, <1>6, <1>7, <1>8, <1>9, <1>10 DEF StoreInv

LEMMA StartKeepsStoreInv ==
  ASSUME StoreInv, NEW h \in Host, Start(h)
  PROVE  StoreInv'
<1>1. /\ StartServer(h) /\ ~up[h]
      /\ UNCHANGED <<conn, crashes, split, pc, uuid, todo, wait, saved, got, asked,
                     missed, result, acked>>
  BY DEF Start, StartServer, clientVars, getVars
<1>2. /\ ServerTypeOk' /\ DiskInMemory' /\ UNCHANGED <<sharesDta, secretsDta>>
      /\ \A p \in Host : shares'[p] = IF p = h THEN sharesDta[p] ELSE shares[p]
      /\ \A p \in Host : secrets'[p] = IF p = h THEN secretsDta[p] ELSE secrets[p]
      /\ \A p \in Host : up'[p] = (p = h \/ up[p])
  BY <1>1, StartSafe DEF StoreInv, SecretStoreTypeOk
<1>3. SecretStoreTypeOk'
  BY <1>1, <1>2 DEF StoreInv, SecretStoreTypeOk
<1>4. SharesStayOnDisk
  BY <1>2 DEF SharesStayOnDisk
<1>5. ConnectionsSound'
  <2>1. \A p \in Host : up[p] => up'[p]
    BY <1>2
  <2> QED BY <1>1, <2>1 DEF StoreInv, ConnectionsSound, Storing
<1>6. UnsentUnseen'
  BY <1>1, <1>2 DEF StoreInv, UnsentUnseen, NotYetSeen
<1>7. VersionsOwned' /\ SavedHeld'
  BY <1>1, <1>2 DEF StoreInv, VersionsOwned, SavedHeld, Storing, Holders, EnoughSaved
<1>8. RecordsInFlightRecoverable'
  BY <1>1, <1>4, FlightsStayRecoverable DEF StoreInv
<1>9. RecordedRecoverable'
  <2>1. \A p \in Host, n \in Name : Records(p, n)' \subseteq Records(p, n)
    BY <1>2 DEF Records
  <2> QED BY <1>4, <2>1, RecordsStayRecoverable DEF StoreInv
<1> QED BY <1>2, <1>3, <1>5, <1>6, <1>7, <1>8, <1>9 DEF StoreInv

-----------------------------------------------------------------------------
(* The theorems.                                                            *)

LEMMA StoreInit == Init => StoreInv
<1> SUFFICES ASSUME Init PROVE StoreInv
  OBVIOUS
<1> USE DEF Init, ServerInit, EmptyShares, EmptySecrets
<1>1. ServerTypeOk /\ DiskInMemory
  BY DEF ServerTypeOk, DiskInMemory
<1>2. SecretStoreTypeOk
  BY <1>1, DeploymentAssumption DEF SecretStoreTypeOk, Outcome
<1>3. ConnectionsSound /\ UnsentUnseen /\ VersionsOwned
  BY DEF ConnectionsSound, UnsentUnseen, NotYetSeen, VersionsOwned, Storing
<1>4. SavedHeld /\ RecordsInFlightRecoverable /\ RecordedRecoverable
  BY DEF SavedHeld, Storing, RecordsInFlightRecoverable, RecordedRecoverable, Records
<1> QED BY <1>1, <1>2, <1>3, <1>4 DEF StoreInv

LEMMA StoreStep == StoreInv /\ [Next]_vars => StoreInv'
<1> SUFFICES ASSUME StoreInv, [Next]_vars PROVE StoreInv'
  OBVIOUS
<1>1. ASSUME NEW c \in Client, NEW n \in Name, NEW u \in UUID, NEW targets \in SUBSET Host,
             NEW t \in Treshold, StoreSecret(c, n, u, targets, t)
      PROVE  StoreInv'
  BY <1>1, StoreSecretKeepsInv
<1>2. ASSUME NEW c \in Client, (\E n \in Name : Lookup(c, n)) \/ Kill(c)
      PROVE  StoreInv'
  BY <1>2, ClientQuiet
<1>3. ASSUME NEW c \in Client, ClientStep(c)
      PROVE  StoreInv'
  <2>1. ASSUME NEW p \in Host, SendShare(c, p)
        PROVE  StoreInv'
    BY <2>1, SendKeepsInv
  <2>2. CASE SendRecord(c)
    BY <2>2, SendKeepsInv, DeploymentAssumption
  <2>3. CASE \/ \E p \in Host : SkipPeer(c, p) \/ FetchShare(c, p) \/ MissPeer(c, p)
             \/ GiveUpShare(c) \/ FinishPublishing(c) \/ GiveUpRecord(c)
             \/ FinishGet(c)
    BY <2>3, ClientQuiet
  <2> QED BY <1>3, <2>1, <2>2, <2>3 DEF ClientStep
<1>4. ASSUME NEW h \in Host, ServerStep(h)
      PROVE  StoreInv'
  BY <1>4, HandleShareKeepsInv, HandleRecordKeepsInv DEF ServerStep
<1>5. ASSUME NEW h \in Host, Crash(h) \/ Start(h)
      PROVE  StoreInv'
  BY <1>5, CrashKeepsStoreInv, StartKeepsStoreInv
<1>6. CASE UNCHANGED vars
  <2>1. QuietConn /\ QuietClients
    BY <1>6 DEF vars, clientVars, getVars, QuietConn, QuietClients, StoreInv,
       SavedHeld, ConnectionsSound, Storing
  <2>2. SecretStoreTypeOk'
    BY <1>6 DEF vars, serverVars, clientVars, getVars, StoreInv, SecretStoreTypeOk,
       ServerTypeOk
  <2> QED BY <1>6, <2>1, <2>2, QuietStep DEF vars
<1> QED BY <1>1, <1>2, <1>3, <1>4, <1>5, <1>6 DEF Next

\* The inductive invariant of the composition.
THEOREM StoreInvariant == Spec => []StoreInv
BY StoreInit, StoreStep, PTL DEF Spec

\* Every secret a host has on record, in memory or on disk, has its treshold
\* of shares on its peers' disks.
THEOREM RecordedIsRecoverable == Spec => []RecordedRecoverable
<1>1. StoreInv => RecordedRecoverable
  BY DEF StoreInv
<1> QED BY <1>1, StoreInvariant, PTL

-----------------------------------------------------------------------------
(***************************************************************************)
(* Part 2: store-secret, get-secret and the servers implement               *)
(* SecretRegister.                                                          *)
(***************************************************************************)

Current == [h \in Host |-> [n \in Name |-> VersionOf(secrets[h][n])]]
Durable == [h \in Host |-> [n \in Name |-> VersionOf(secretsDta[h][n])]]

\* What is split and on disk stays, so no version ceases to be recoverable.
LEMMA RecoverableGrows ==
    ASSUME StoreInv, StoreInv', SharesStayOnDisk,
           \A u \in UUID : split[u] # None => split'[u] = split[u]
    PROVE  Recoverable \subseteq Recoverable'
<1> SUFFICES ASSUME NEW u \in Recoverable PROVE u \in Recoverable'
  OBVIOUS
<1>1. u \in UUID /\ split[u] # None /\ Cardinality(Holders(u)) >= split[u].treshold
  BY DEF Recoverable
<1>2. split[u] \in Split /\ split'[u] = split[u]
  BY <1>1 DEF StoreInv, SecretStoreTypeOk
<1>3. split[u].treshold \in Nat
  BY <1>2 DEF Split
<1>4. Cardinality(Holders(u)') >= split[u].treshold
  BY <1>1, <1>3, HoldersGrow
<1> QED BY <1>1, <1>2, <1>4 DEF Recoverable

\* A step of the commands and servers that stores no record is a step of the
\* register that publishes, perhaps nothing.
LEMMA Publishing ==
    ASSUME StoreInv, StoreInv', SharesStayOnDisk,
           \A u \in UUID : split[u] # None => split'[u] = split[u],
           UNCHANGED <<secrets, secretsDta, acked>>
    PROVE  Register!Next
<1>1. Recoverable \subseteq Recoverable' /\ Recoverable' \subseteq UUID
  BY RecoverableGrows DEF Recoverable
<1>2. PICK more \in SUBSET (UUID \ Recoverable) : more = Recoverable' \ Recoverable
  BY <1>1
<1>3. Recoverable' = Recoverable \cup more
  BY <1>1, <1>2
<1>4. Current' = Current /\ Durable' = Durable
  BY DEF Current, Durable
<1>5. Register!Publish
  BY <1>3, <1>4 DEF Register!Publish, Current, Durable
<1> QED BY <1>5 DEF Register!Next

\* The servers see nothing of these steps.
QuietServers(c) ==
    \/ \E p \in Host : SkipPeer(c, p) \/ FetchShare(c, p) \/ MissPeer(c, p)
    \/ GiveUpShare(c) \/ FinishPublishing(c) \/ GiveUpRecord(c)
    \/ FinishGet(c) \/ Kill(c) \/ \E n \in Name : Lookup(c, n)

\* Next, by what a step does to the servers.
LEMMA StepKinds ==
    ASSUME Next
    PROVE  \/ \E c \in Client :
               \/ \E n \in Name, u \in UUID, targets \in SUBSET Host, t \in Treshold :
                    StoreSecret(c, n, u, targets, t)
               \/ QuietServers(c)
               \/ SendRecord(c) \/ \E p \in Host : SendShare(c, p)
           \/ \E h \in Host :
               \/ \E status \in {200, 201, 403, 409, 500} : HandleShare(h, status)
               \/ \E status \in {201, 403, 500} : HandleRecord(h, status)
               \/ Crash(h) \/ Start(h)
BY DEF Next, ClientStep, ServerStep, QuietServers

\* What each kind of step leaves alone.
LEMMA QuietServersKeep ==
    ASSUME StoreInv, NEW c \in Client, QuietServers(c)
    PROVE  UNCHANGED <<serverVars, split, acked>>
<1>1. UNCHANGED <<serverVars, split>>
  BY ClientTypes DEF QuietServers
<1>2. UNCHANGED acked
  BY DEF QuietServers, SkipPeer, FetchShare, MissPeer, GiveUpShare, FinishPublishing,
     GiveUpRecord, FinishGet, Kill, Lookup
<1> QED BY <1>1, <1>2

LEMMA HandleShareKeeps ==
    ASSUME StoreInv, NEW p \in Host, NEW status, HandleShare(p, status)
    PROVE  /\ UNCHANGED <<up, secrets, secretsDta, split, acked>>
           /\ SharesStayOnDisk
<1> DEFINE r == conn[p]
<1>1. /\ r # None
      /\ StoreShare(p, Cert[HostOf[r.client]], r.uuid, ShareFor(r.uuid, p), status)
      /\ UNCHANGED <<split, acked>>
  BY DEF HandleShare
<1>2. r.uuid \in UUID /\ split[r.uuid] # None
  BY <1>1 DEF StoreInv, SecretStoreTypeOk, ConnectionsSound, Conn
<1>3. ShareFor(r.uuid, p) \in Payload
  BY <1>2, ShareForType DEF StoreInv
<1>4. ServerTypeOk /\ DiskInMemory
  BY DEF StoreInv, SecretStoreTypeOk
<1> QED BY <1>1, <1>2, <1>3, <1>4, StoreShareSafe

\* The record of a request, and what handling it does to the two stores.
LEMMA HandleRecordDoes ==
    ASSUME StoreInv, NEW p \in Host, NEW status \in {201, 403, 500}, HandleRecord(p, status)
    PROVE  LET r == conn[p]
               n == split[r.uuid].name
               recorded == [secrets EXCEPT ![p][n] = RecordOf(r)]
           IN /\ r # None /\ r.kind = "record" /\ r \in Conn /\ split[r.uuid] \in Split
              /\ UNCHANGED <<up, shares, sharesDta, split>> /\ SharesStayOnDisk
              /\ conn' = [conn EXCEPT ![p] = None]
              /\ RecordOf(r).uuid = r.uuid /\ RecordOf(r) \in Record
              /\ \/ /\ secrets' = recorded
                    /\ secretsDta' = [secretsDta EXCEPT ![p] = recorded[p]]
                    /\ acked' = acked \/ acked' = acked \cup {r.uuid}
                 \/ /\ secrets' = recorded /\ UNCHANGED <<secretsDta, acked>>
                 \/ UNCHANGED <<secrets, secretsDta, acked>>
<1> DEFINE r == conn[p]
<1> DEFINE n == split[r.uuid].name
<1>1. /\ r # None /\ r.kind = "record"
      /\ StoreSecretMetadata(p, Cert[HostOf[r.client]], n, RecordOf(r), status)
      /\ conn' = [conn EXCEPT ![p] = None]
      /\ UNCHANGED split
      /\ \/ acked' = (IF Confirms(status) THEN acked \cup {r.uuid} ELSE acked)
         \/ acked' = acked
  BY DEF HandleRecord, clientVars
<1>2. r \in Conn /\ split[r.uuid] \in Split
  BY <1>1 DEF StoreInv, SecretStoreTypeOk, ConnectionsSound, Conn
<1>3. RecordOf(r).uuid = r.uuid /\ RecordOf(r) \in Record
  BY <1>2 DEF RecordOf, Record, Split, Conn
<1>4. UNCHANGED <<up, shares, sharesDta>> /\ SharesStayOnDisk
  BY <1>1 DEF StoreSecretMetadata, serverVars, SharesStayOnDisk
<1>5. Confirms(status) => status = 201
  BY DEF Confirms
<1>6. \/ /\ secrets' = [secrets EXCEPT ![p][n] = RecordOf(r)]
         /\ \/ status = 201 /\ secretsDta' = [secretsDta EXCEPT ![p] = secrets'[p]]
            \/ status = 500 /\ UNCHANGED secretsDta
      \/ status # 201 /\ UNCHANGED <<secrets, secretsDta>>
  BY <1>1, <1>3 DEF StoreSecretMetadata, PersistSecrets, serverVars
<1>7. \/ /\ secrets' = [secrets EXCEPT ![p][n] = RecordOf(r)]
         /\ secretsDta' = [secretsDta EXCEPT ![p] = [secrets EXCEPT ![p][n] = RecordOf(r)][p]]
         /\ acked' = acked \/ acked' = acked \cup {r.uuid}
      \/ /\ secrets' = [secrets EXCEPT ![p][n] = RecordOf(r)]
         /\ UNCHANGED <<secretsDta, acked>>
      \/ UNCHANGED <<secrets, secretsDta, acked>>
  <2>1. status # 201 => acked' = acked
    BY <1>1, <1>5
  <2>2. acked' = acked \/ acked' = acked \cup {r.uuid}
    BY <1>1
  <2>3. CASE /\ secrets' = [secrets EXCEPT ![p][n] = RecordOf(r)]
             /\ status = 201 /\ secretsDta' = [secretsDta EXCEPT ![p] = secrets'[p]]
    BY <2>2, <2>3
  <2>4. CASE /\ secrets' = [secrets EXCEPT ![p][n] = RecordOf(r)]
             /\ status = 500 /\ UNCHANGED secretsDta
    BY <2>1, <2>4
  <2>5. CASE status # 201 /\ UNCHANGED <<secrets, secretsDta>>
    BY <2>1, <2>5
  <2> QED BY <1>6, <2>3, <2>4, <2>5
<1> QED BY <1>1, <1>2, <1>3, <1>4, <1>7

-----------------------------------------------------------------------------
(* The refinement.                                                          *)

\* A record that is on its way is recoverable.
LEMMA RecordStep ==
    ASSUME StoreInv, StoreInv', NEW p \in Host, NEW status \in {201, 403, 500},
           HandleRecord(p, status)
    PROVE  Register!Next
<1>0. PICK r : r = conn[p]
  OBVIOUS
<1>10. PICK n : n = split[r.uuid].name
  OBVIOUS
<1>11. PICK recorded : recorded = [secrets EXCEPT ![p][n] = RecordOf(r)]
  OBVIOUS
<1>1. /\ r = conn[p] /\ n = split[r.uuid].name
      /\ recorded = [secrets EXCEPT ![p][n] = RecordOf(r)]
  BY <1>0, <1>10, <1>11
<1>2. /\ r # None /\ r.kind = "record" /\ r \in Conn /\ split[r.uuid] \in Split
      /\ UNCHANGED <<up, shares, sharesDta, split>> /\ SharesStayOnDisk
      /\ RecordOf(r).uuid = r.uuid /\ RecordOf(r) \in Record
      /\ \/ /\ secrets' = recorded
            /\ secretsDta' = [secretsDta EXCEPT ![p] = recorded[p]]
            /\ acked' = acked \/ acked' = acked \cup {r.uuid}
         \/ /\ secrets' = recorded /\ UNCHANGED <<secretsDta, acked>>
         \/ UNCHANGED <<secrets, secretsDta, acked>>
  BY <1>1, HandleRecordDoes
<1>3. r.uuid \in UUID /\ n \in Name /\ r.saved \in Nat /\ split[r.uuid] # None
  BY <1>1, <1>2, NoneIsNoConn DEF Conn, Split
<1>4. r.uuid \in Recoverable
  <2>1. split[r.uuid].treshold <= r.saved /\ r.saved <= Cardinality(Holders(r.uuid))
    BY <1>1, <1>2 DEF StoreInv, RecordsInFlightRecoverable
  <2>2. split[r.uuid].treshold \in Nat /\ Cardinality(Holders(r.uuid)) \in Nat
    BY <1>2, <1>3, HoldersGrow DEF Split
  <2> QED BY <1>3, <2>1, <2>2 DEF Recoverable
<1>5. Recoverable' = Recoverable
  BY <1>2 DEF Recoverable, Holders
<1>6. CASE UNCHANGED <<secrets, secretsDta, acked>>
  BY <1>2, <1>6, Publishing
<1>7. CASE secrets' = recorded
  <2>1. secrets \in [Host -> [Name -> Record \cup {None}]]
        /\ secretsDta \in [Host -> [Name -> Record \cup {None}]]
    BY DEF StoreInv, SecretStoreTypeOk, ServerTypeOk
  <2>2. VersionOf(RecordOf(r)) = r.uuid
    BY <1>2, NoneIsNoRecord DEF VersionOf
  <2>3. Current' = [Current EXCEPT ![p][n] = r.uuid]
    <3>1. \A h \in Host, m \in Name :
            secrets'[h][m] = IF h = p /\ m = n THEN RecordOf(r) ELSE secrets[h][m]
      BY <1>1, <1>3, <1>7, <2>1
    <3>2. \A h \in Host, m \in Name :
            VersionOf(secrets'[h][m])
              = IF h = p /\ m = n THEN r.uuid ELSE VersionOf(secrets[h][m])
      BY <2>2, <3>1
    <3>3. \A h \in Host :
            [m \in Name |-> VersionOf(secrets'[h][m])]
              = IF h = p THEN [[m \in Name |-> VersionOf(secrets[h][m])] EXCEPT ![n] = r.uuid]
                ELSE [m \in Name |-> VersionOf(secrets[h][m])]
      <4> SUFFICES ASSUME NEW h \in Host
                   PROVE  [m \in Name |-> VersionOf(secrets'[h][m])]
                            = IF h = p
                              THEN [[m \in Name |-> VersionOf(secrets[h][m])] EXCEPT ![n] = r.uuid]
                              ELSE [m \in Name |-> VersionOf(secrets[h][m])]
        OBVIOUS
      <4>1. CASE h = p
        <5> DEFINE new == [m \in Name |-> VersionOf(secrets'[h][m])]
        <5> DEFINE old == [m \in Name |-> VersionOf(secrets[h][m])]
        <5>1. \A m \in Name : new[m] = IF m = n THEN r.uuid ELSE old[m]
          BY <3>2, <4>1
        <5>2. new = [m \in Name |-> new[m]] /\ old = [m \in Name |-> old[m]]
          OBVIOUS
        <5> HIDE DEF new, old
        <5>3. new = [old EXCEPT ![n] = r.uuid]
          BY <1>3, <5>1, <5>2
        <5> QED BY <4>1, <5>3 DEF new, old
      <4>2. CASE h # p
        BY <3>2, <4>2
      <4> QED BY <4>1, <4>2
    <3> DEFINE old(h) == [m \in Name |-> VersionOf(secrets[h][m])]
    <3> DEFINE new(h) == [m \in Name |-> VersionOf(secrets'[h][m])]
    <3>4. \A h \in Host : new(h) = IF h = p THEN [old(h) EXCEPT ![n] = r.uuid] ELSE old(h)
      BY <3>3
    <3>5. Current = [h \in Host |-> old(h)] /\ Current' = [h \in Host |-> new(h)]
      BY DEF Current
    <3> HIDE DEF old, new
    <3> QED BY <3>4, <3>5
  <2>4. CASE /\ secretsDta' = [secretsDta EXCEPT ![p] = recorded[p]]
             /\ acked' = acked \/ acked' = acked \cup {r.uuid}
    <3>1. \A h \in Host : secretsDta'[h] = IF h = p THEN secrets'[p] ELSE secretsDta[h]
      BY <1>7, <2>1, <2>4
    <3>2. Durable' = [Durable EXCEPT ![p] = Current'[p]]
      <4> DEFINE old(h) == [m \in Name |-> VersionOf(secretsDta[h][m])]
      <4> DEFINE new(h) == [m \in Name |-> VersionOf(secretsDta'[h][m])]
      <4> DEFINE now == [m \in Name |-> VersionOf(secrets'[p][m])]
      <4>1. \A h \in Host : new(h) = IF h = p THEN now ELSE old(h)
        BY <3>1
      <4>2. /\ Durable = [h \in Host |-> old(h)] /\ Durable' = [h \in Host |-> new(h)]
            /\ Current'[p] = now
        BY DEF Durable, Current
      <4> HIDE DEF old, new, now
      <4> QED BY <4>1, <4>2
    <3>3. Register!Commit(p, n, r.uuid)
      BY <1>4, <1>5, <2>3, <2>4, <3>2 DEF Register!Commit, Current, Durable
    <3> QED BY <1>3, <3>3 DEF Register!Next
  <2>5. CASE UNCHANGED <<secretsDta, acked>>
    <3>1. Durable' = Durable
      BY <2>5 DEF Durable
    <3>2. Register!CommitUntilRestart(p, n, r.uuid)
      BY <1>4, <1>5, <2>3, <2>5, <3>1 DEF Register!CommitUntilRestart, Current, Durable
    <3> QED BY <1>3, <3>2 DEF Register!Next
  <2> QED BY <1>2, <1>7, <2>4, <2>5
<1> QED BY <1>2, <1>6, <1>7

LEMMA CrashStep ==
    ASSUME StoreInv, StoreInv', NEW h \in Host, Crash(h) \/ Start(h)
    PROVE  Register!Next /\ SharesStayOnDisk /\ UNCHANGED <<split, acked>>
<1>1. UNCHANGED <<sharesDta, secretsDta, split, acked>>
  BY DEF Crash, Start, CrashServer, StartServer, clientVars
<1>2. Recoverable' = Recoverable /\ Durable' = Durable /\ SharesStayOnDisk
  BY <1>1 DEF Recoverable, Holders, Durable, SharesStayOnDisk
<1>3. secrets \in [Host -> [Name -> Record \cup {None}]]
  BY DEF StoreInv, SecretStoreTypeOk, ServerTypeOk
<1>4. CASE Crash(h)
  <2>1. secrets' = [secrets EXCEPT ![h] = EmptySecrets]
    BY <1>4 DEF Crash, CrashServer
  <2>2. \A g \in Host, n \in Name :
          secrets'[g][n] = IF g = h THEN None ELSE secrets[g][n]
    BY <1>3, <2>1 DEF EmptySecrets
  <2>3. Current' = [Current EXCEPT ![h] = [n \in Name |-> None]]
    BY <2>2 DEF Current, VersionOf
  <2>4. Register!Down(h)
    BY <1>1, <1>2, <2>3 DEF Register!Down, Register!Nothing, Current, Durable
  <2> QED BY <1>1, <1>2, <2>4 DEF Register!Next
<1>5. CASE Start(h)
  <2>1. secrets' = [secrets EXCEPT ![h] = secretsDta[h]]
    BY <1>5 DEF Start, StartServer
  <2>2. \A g \in Host : secrets'[g] = IF g = h THEN secretsDta[h] ELSE secrets[g]
    BY <1>3, <2>1
  <2>3. Current' = [Current EXCEPT ![h] = Durable[h]]
    BY <2>2 DEF Current, Durable
  <2>4. Register!Restart(h)
    BY <1>1, <1>2, <2>3 DEF Register!Restart, Current, Durable
  <2> QED BY <1>1, <1>2, <2>4 DEF Register!Next
<1> QED BY <1>4, <1>5


LEMMA RegisterInit == Init => Register!Init
<1> SUFFICES ASSUME Init PROVE Register!Init
  OBVIOUS
<1>1. split = [u \in UUID |-> None] /\ acked = {}
  BY DEF Init
<1>2. /\ secrets = [h \in Host |-> [n \in Name |-> None]]
      /\ secretsDta = [h \in Host |-> [n \in Name |-> None]]
  BY DEF Init, ServerInit, EmptySecrets
<1>3. Recoverable = {}
  BY <1>1 DEF Recoverable
<1>4. /\ Current = [h \in Host |-> [n \in Name |-> None]]
      /\ Durable = [h \in Host |-> [n \in Name |-> None]]
  BY <1>2 DEF Current, Durable, VersionOf
<1> QED BY <1>1, <1>3, <1>4 DEF Register!Init, Register!Nothing, Current, Durable

LEMMA RegisterStep ==
    ASSUME StoreInv, StoreInv', [Next]_vars
    PROVE  [Register!Next]_Register!vars
<1>1. ASSUME NEW c \in Client, NEW n \in Name, NEW u \in UUID, NEW targets \in SUBSET Host,
             NEW t \in Treshold, StoreSecret(c, n, u, targets, t)
      PROVE  Register!Next
  <2>1. UNCHANGED <<secrets, secretsDta, sharesDta, acked>> /\ SharesStayOnDisk
    BY <1>1 DEF StoreSecret, serverVars, SharesStayOnDisk
  <2>2. \A w \in UUID : split[w] # None => split'[w] = split[w]
    BY <1>1 DEF StoreSecret, StoreInv, SecretStoreTypeOk
  <2> QED BY <2>1, <2>2, Publishing
<1>2. ASSUME NEW c \in Client, QuietServers(c) \/ SendRecord(c) \/ \E p \in Host : SendShare(c, p)
      PROVE  Register!Next
  <2>1. UNCHANGED <<serverVars, split, acked>>
    BY <1>2, QuietServersKeep DEF SendRecord, SendShare
  <2>2. SharesStayOnDisk
    BY <2>1 DEF serverVars, SharesStayOnDisk
  <2> QED BY <2>1, <2>2, Publishing DEF serverVars
<1>3. ASSUME NEW p \in Host, NEW status, HandleShare(p, status)
      PROVE  Register!Next
  BY <1>3, HandleShareKeeps, Publishing
<1>4. ASSUME NEW p \in Host, NEW status \in {201, 403, 500}, HandleRecord(p, status)
      PROVE  Register!Next
  BY <1>4, RecordStep
<1>5. ASSUME NEW h \in Host, Crash(h) \/ Start(h)
      PROVE  Register!Next
  BY <1>5, CrashStep
<1>6. CASE UNCHANGED vars
  <2>1. UNCHANGED <<secrets, secretsDta, sharesDta, split, acked>>
    BY <1>6 DEF vars, serverVars, clientVars
  <2>2. Recoverable' = Recoverable /\ Current' = Current /\ Durable' = Durable
    BY <2>1 DEF Recoverable, Holders, Current, Durable
  <2> QED BY <2>1, <2>2 DEF Register!vars, Current, Durable
<1>7. CASE Next
  BY <1>1, <1>2, <1>3, <1>4, <1>5, <1>7, StepKinds
<1> QED BY <1>6, <1>7

\* The commands and the servers implement the register: a version a host
\* names, now or after a restart, was recoverable when it was committed, and
\* one whose store-secret printed OK was committed for good.
THEOREM RegisterImplemented == Spec => ImplementsRegister
<1>1. Init => Register!Init
  BY RegisterInit
<1>2. StoreInv /\ StoreInv' /\ [Next]_vars => [Register!Next]_Register!vars
  BY RegisterStep
<1> QED BY <1>1, <1>2, StoreInvariant, PTL DEF Spec, ImplementsRegister, Register!Spec

-----------------------------------------------------------------------------
(***************************************************************************)
(* Part 3: which version is stored and fetched.  The argument:              *)
(*   - a request is a client's of the host that split its version, a share  *)
(*     goes to a trusted peer and a record to the own server (RequestsOwn), *)
(*     so what peers hold and what is on record is what that host split     *)
(*     (SharesAsSplit, RecordsOwn);                                         *)
(*   - a version is not published any more once it is on record             *)
(*     (PublishedFirst), so a peer that had no share for get-secret will    *)
(*     not get one (AskedAnswered);                                         *)
(*   - nobody stores a version that was over (OverSettled), so one that an  *)
(*     acknowledged version has replaced stays replaced (AckedLast).        *)
(***************************************************************************)

\* _shares_and_treshold() refuses every other split.
SplitsValid ==
    \A u \in UUID : split[u] # None =>
        2 <= split[u].treshold /\ split[u].treshold <= split[u].shares

\* The shares peers hold are those of split versions, each at a trusted peer
\* of the host that split it, whose certificate names it.
SharesAsSplit ==
    \A p \in Host, u \in UUID : \A d \in {shares[p][u], sharesDta[p][u]} \ {None} :
        /\ d = ShareFor(u, p)
        /\ p \in TrustedPeers(split[u].host)
        /\ OwnerMatches(Cert[split[u].host], OwnName[split[u].host])

\* Who publishes a version, where, and who records it.
RequestsOwn ==
    /\ \A c \in Client : Storing(c) => split[uuid[c]].host = HostOf[c]
    /\ \A c \in Client : pc[c] = "publish" => todo[c] \subseteq TrustedPeers(HostOf[c])
    /\ \A h \in Host : conn[h] # None =>
          /\ split[conn[h].uuid].host = HostOf[conn[h].client]
          /\ conn[h].kind = "record" => HostOf[conn[h].client] = h
          /\ conn[h].kind = "share" => h \in TrustedPeers(HostOf[conn[h].client])

\* What a host has on record it split itself, under that name.
RecordsOwn ==
    \A h \in Host, n \in Name : \A r \in Records(h, n) :
        split[r.uuid] # None /\ split[r.uuid].host = h /\ split[r.uuid].name = n

\* A version that is still published is not on record, nor about to be, and
\* nobody fetches it.
PublishedFirst ==
    \A c \in Client : pc[c] = "publish" =>
        /\ \A h \in Host : conn[h] # None /\ conn[h].kind = "record" =>
              conn[h].uuid # uuid[c]
        /\ \A h \in Host, n \in Name : \A r \in Records(h, n) : r.uuid # uuid[c]
        /\ \A d \in Client : pc[d] = "collect" => uuid[d] # uuid[c]

\* What a decoder holds are shares of the version it fetches, of peers it has
\* asked already, and at most a treshold of them.
CollectedBy(c) ==
    IF pc[c] = "collect"
    THEN /\ split[uuid[c]] # None
         /\ split[uuid[c]].host = HostOf[c] /\ split[uuid[c]].name = asked[c]
         /\ \A d \in got[c] : d = ShareFor(uuid[c], d.x) /\ d.x \in Host \ todo[c]
         /\ IsFiniteSet(got[c]) /\ Cardinality(got[c]) <= split[uuid[c]].treshold
         /\ result[c] = "none"
    ELSE got[c] = {}

CollectedOwn == \A c \in Client : CollectedBy(c)

\* Peer p has no share of version u, and is not about to get one.
Unserved(p, u) ==
    /\ NotYetSeen(p, u)
    /\ ~(conn[p] # None /\ conn[p].kind = "share" /\ conn[p].uuid = u)

\* A peer that was asked and answered gave its share, or has none and will
\* not get one.
AnsweredTo(c) ==
    pc[c] = "collect" =>
        \A p \in TrustedPeers(HostOf[c]) \ (todo[c] \cup missed[c]) :
            ShareFor(uuid[c], p) \in got[c] \/ Unserved(p, uuid[c])

AskedAnswered == \A c \in Client : AnsweredTo(c)

\* A version that was over when another was split is never stored again.
OverSettled ==
    \A v \in UUID : split[v] # None => \A w \in split[v].over :
        /\ split[w] # None /\ w # v
        /\ \A c \in Client : Storing(c) => uuid[c] # w

\* Once v is acknowledged, a version it replaced is neither on record nor on
\* its way there.
AckedLast ==
    \A v \in acked : split[v] # None /\ \A w \in split[v].over :
        split[w].host = split[v].host /\ split[w].name = split[v].name =>
            /\ \A r \in Records(split[v].host, split[v].name) : r.uuid # w
            /\ \A h \in Host : conn[h] # None /\ conn[h].kind = "record" => conn[h].uuid # w

\* Inductive together with StoreInv.
VersionInv ==
    /\ SplitsValid /\ SharesAsSplit /\ RequestsOwn /\ RecordsOwn /\ PublishedFirst
    /\ CollectedOwn /\ AskedAnswered /\ OverSettled /\ AckedLast

-----------------------------------------------------------------------------
(* What most steps leave alone, and the parts of the invariant that hold on *)
(* after a step for that reason.                                            *)

SplitKept == \A u \in UUID : split[u] # None => split'[u] = split[u]

\* No host has a share, or a record, that it did not have before.
SharesQuiet ==
    \A p \in Host, u \in UUID :
        /\ shares'[p][u] \in {None, shares[p][u], sharesDta[p][u]}
        /\ sharesDta'[p][u] \in {None, shares[p][u], sharesDta[p][u]}

RecordsQuiet == \A h \in Host, n \in Name : Records(h, n)' \subseteq Records(h, n)

\* No new request, and nobody starts to store or to fetch.
RequestsQuiet ==
    \A h \in Host : conn'[h] # None =>
        /\ conn[h] # None
        /\ conn'[h].client = conn[h].client /\ conn'[h].kind = conn[h].kind
        /\ conn'[h].uuid = conn[h].uuid

\* No new request that records.
RecordRequestsQuiet ==
    \A h \in Host : conn'[h] # None /\ conn'[h].kind = "record" =>
        conn[h] # None /\ conn[h].kind = "record" /\ conn'[h].uuid = conn[h].uuid

StorersQuiet ==
    \A c \in Client :
        /\ pc'[c] \in {"publish", "record"} =>
              pc[c] \in {"publish", "record"} /\ uuid'[c] = uuid[c]
        /\ pc'[c] = "publish" => pc[c] = "publish" /\ todo'[c] \subseteq todo[c]

CollectorQuiet(c) ==
    IF pc'[c] = "collect"
    THEN /\ pc[c] = "collect" /\ uuid'[c] = uuid[c] /\ todo'[c] = todo[c]
         /\ got'[c] = got[c] /\ asked'[c] = asked[c] /\ missed'[c] = missed[c]
         /\ result'[c] = result[c]
    ELSE got'[c] = {}

CollectorsQuiet == \A c \in Client : CollectorQuiet(c)

\* Peers hold shares of versions that were split.
LEMMA StoredIsSplit ==
  ASSUME StoreInv, NEW p \in Host, NEW u \in UUID,
         shares[p][u] # None \/ sharesDta[p][u] # None
  PROVE  split[u] # None
BY DEF StoreInv, UnsentUnseen, NotYetSeen

\* What does not change in a split changes no share of it.
LEMMA SameShare ==
  ASSUME NEW u \in UUID, split'[u] = split[u]
  PROVE  \A p : ShareFor(u, p)' = ShareFor(u, p)
BY DEF ShareFor, Column

\* No part of the invariant is lost while what it is about stays.
LEMMA SharesStayAsSplit ==
  ASSUME StoreInv, SharesAsSplit, SplitKept, SharesQuiet
  PROVE  SharesAsSplit'
<1> SUFFICES ASSUME NEW p \in Host, NEW u \in UUID,
                    NEW d \in {shares'[p][u], sharesDta'[p][u]} \ {None}
             PROVE  /\ d = ShareFor(u, p)'
                    /\ p \in TrustedPeers(split'[u].host)
                    /\ OwnerMatches(Cert[split'[u].host], OwnName[split'[u].host])
  BY DEF SharesAsSplit, TrustedPeers, OwnerMatches
<1>1. d \in {shares[p][u], sharesDta[p][u]} \ {None}
  BY DEF SharesQuiet
<1>2. split[u] # None
  BY <1>1, StoredIsSplit
<1>3. split'[u] = split[u]
  BY <1>2 DEF SplitKept
<1>4. ShareFor(u, p)' = ShareFor(u, p)
  BY <1>3, SameShare
<1>5. /\ d = ShareFor(u, p)
      /\ p \in TrustedPeers(split[u].host)
      /\ OwnerMatches(Cert[split[u].host], OwnName[split[u].host])
  BY <1>1 DEF SharesAsSplit
<1> QED BY <1>3, <1>4, <1>5

LEMMA RequestsStayOwn ==
  ASSUME StoreInv, RequestsOwn, SplitKept, RequestsQuiet, StorersQuiet
  PROVE  RequestsOwn'
<1>1. ASSUME NEW c \in Client, pc'[c] \in {"publish", "record"}
      PROVE  split'[uuid'[c]].host = HostOf[c]
  <2>1. pc[c] \in {"publish", "record"} /\ uuid'[c] = uuid[c]
    BY <1>1 DEF StorersQuiet
  <2>2. uuid[c] \in UUID /\ split[uuid[c]] # None
    BY <2>1 DEF StoreInv, SecretStoreTypeOk, VersionsOwned, Storing
  <2>3. split[uuid[c]].host = HostOf[c]
    BY <2>1 DEF RequestsOwn, Storing
  <2> QED BY <2>1, <2>2, <2>3 DEF SplitKept
<1>2. ASSUME NEW c \in Client, pc'[c] = "publish"
      PROVE  todo'[c] \subseteq TrustedPeers(HostOf[c])
  BY <1>2 DEF StorersQuiet, RequestsOwn
<1>3. ASSUME NEW h \in Host, conn'[h] # None
      PROVE  /\ split'[conn'[h].uuid].host = HostOf[conn'[h].client]
             /\ conn'[h].kind = "record" => HostOf[conn'[h].client] = h
             /\ conn'[h].kind = "share" => h \in TrustedPeers(HostOf[conn'[h].client])
  <2>1. /\ conn[h] # None
        /\ conn'[h].client = conn[h].client /\ conn'[h].kind = conn[h].kind
        /\ conn'[h].uuid = conn[h].uuid
    BY <1>3 DEF RequestsQuiet
  <2>2. conn[h].uuid \in UUID /\ split[conn[h].uuid] # None
    BY <2>1 DEF StoreInv, SecretStoreTypeOk, ConnectionsSound, Conn
  <2>3. split'[conn[h].uuid] = split[conn[h].uuid]
    BY <2>2 DEF SplitKept
  <2> QED BY <2>1, <2>3 DEF RequestsOwn
<1> QED BY <1>1, <1>2, <1>3 DEF RequestsOwn, Storing, TrustedPeers

LEMMA RecordsStayOwn ==
  ASSUME StoreInv, RecordsOwn, SplitKept, RecordsQuiet
  PROVE  RecordsOwn'
<1> SUFFICES ASSUME NEW h \in Host, NEW n \in Name, NEW r \in Records(h, n)'
             PROVE  /\ split'[r.uuid] # None
                    /\ split'[r.uuid].host = h /\ split'[r.uuid].name = n
  BY DEF RecordsOwn
<1>1. r \in Records(h, n)
  BY DEF RecordsQuiet
<1>2. r \in Record
  BY <1>1 DEF Records, StoreInv, SecretStoreTypeOk, ServerTypeOk
<1>3. r.uuid \in UUID
  BY <1>2 DEF Record
<1>4. split[r.uuid] # None /\ split[r.uuid].host = h /\ split[r.uuid].name = n
  BY <1>1 DEF RecordsOwn
<1> QED BY <1>3, <1>4 DEF SplitKept

LEMMA StaysPublishedFirst ==
  ASSUME PublishedFirst, RecordRequestsQuiet, RecordsQuiet, StorersQuiet,
         \A d \in Client : pc'[d] = "collect" => pc[d] = "collect" /\ uuid'[d] = uuid[d]
  PROVE  PublishedFirst'
<1> SUFFICES ASSUME NEW c \in Client, pc'[c] = "publish"
             PROVE  /\ \A h \in Host : conn'[h] # None /\ conn'[h].kind = "record" =>
                          conn'[h].uuid # uuid'[c]
                    /\ \A h \in Host, n \in Name : \A r \in Records(h, n)' :
                          r.uuid # uuid'[c]
                    /\ \A d \in Client : pc'[d] = "collect" => uuid'[d] # uuid'[c]
  BY DEF PublishedFirst
<1>1. pc[c] = "publish" /\ uuid'[c] = uuid[c]
  BY DEF StorersQuiet
<1>2. /\ \A h \in Host : conn[h] # None /\ conn[h].kind = "record" =>
            conn[h].uuid # uuid[c]
      /\ \A h \in Host, n \in Name : \A r \in Records(h, n) : r.uuid # uuid[c]
      /\ \A d \in Client : pc[d] = "collect" => uuid[d] # uuid[c]
  BY <1>1 DEF PublishedFirst
<1>3. \A h \in Host : conn'[h] # None /\ conn'[h].kind = "record" => conn'[h].uuid # uuid'[c]
  BY <1>1, <1>2 DEF RecordRequestsQuiet
<1>4. \A h \in Host, n \in Name : \A r \in Records(h, n)' : r.uuid # uuid'[c]
  BY <1>1, <1>2 DEF RecordsQuiet
<1> QED BY <1>1, <1>2, <1>3, <1>4

LEMMA StaysOverSettled ==
  ASSUME OverSettled, UNCHANGED split, StorersQuiet
  PROVE  OverSettled'
BY DEF OverSettled, Storing, StorersQuiet

LEMMA StaysAckedLast ==
  ASSUME AckedLast, UNCHANGED <<split, acked>>, RecordsQuiet, RecordRequestsQuiet,
         StoreInv
  PROVE  AckedLast'
<1> SUFFICES ASSUME NEW v \in acked
             PROVE  split[v] # None /\ \A w \in split[v].over :
                      split[w].host = split[v].host /\ split[w].name = split[v].name =>
                        /\ \A r \in Records(split[v].host, split[v].name)' : r.uuid # w
                        /\ \A h \in Host : conn'[h] # None /\ conn'[h].kind = "record" =>
                              conn'[h].uuid # w
  BY DEF AckedLast, Records
<1>1. split[v] # None
  BY DEF AckedLast
<1>2. split[v].host \in Host /\ split[v].name \in Name
  BY <1>1 DEF StoreInv, SecretStoreTypeOk, Split
<1> SUFFICES ASSUME NEW w \in split[v].over,
                    split[w].host = split[v].host, split[w].name = split[v].name
             PROVE  /\ \A r \in Records(split[v].host, split[v].name)' : r.uuid # w
                    /\ \A h \in Host : conn'[h] # None /\ conn'[h].kind = "record" =>
                          conn'[h].uuid # w
  BY <1>1
<1>3. /\ \A r \in Records(split[v].host, split[v].name) : r.uuid # w
      /\ \A h \in Host : conn[h] # None /\ conn[h].kind = "record" => conn[h].uuid # w
  BY DEF AckedLast
<1>4. \A h \in Host, n \in Name : Records(h, n)' \subseteq Records(h, n)
  BY DEF RecordsQuiet
<1>5. PICK h, n : h = split[v].host /\ n = split[v].name
  OBVIOUS
<1>6. Records(h, n)' \subseteq Records(h, n)
  BY <1>2, <1>4, <1>5
<1>7. \A r \in Records(split[v].host, split[v].name)' : r.uuid # w
  BY <1>3, <1>5, <1>6 DEF Records
<1>8. \A g \in Host : conn'[g] # None /\ conn'[g].kind = "record" => conn'[g].uuid # w
  BY <1>3 DEF RecordRequestsQuiet
<1> QED BY <1>7, <1>8

LEMMA StaysCollected ==
  ASSUME StoreInv, NEW c \in Client, CollectedBy(c), SplitKept, CollectorQuiet(c)
  PROVE  CollectedBy(c)'
<1> SUFFICES ASSUME pc'[c] = "collect"
             PROVE  /\ split'[uuid'[c]] # None
                    /\ split'[uuid'[c]].host = HostOf[c]
                    /\ split'[uuid'[c]].name = asked'[c]
                    /\ \A d \in got'[c] : d = ShareFor(uuid[c], d.x)'
                                          /\ d.x \in Host \ todo'[c]
                    /\ IsFiniteSet(got'[c])
                    /\ Cardinality(got'[c]) <= split'[uuid'[c]].treshold
                    /\ result'[c] = "none"
  BY DEF CollectedBy, CollectorQuiet, ShareFor, Column
<1>1. /\ pc[c] = "collect" /\ uuid'[c] = uuid[c] /\ todo'[c] = todo[c]
      /\ got'[c] = got[c] /\ asked'[c] = asked[c] /\ result'[c] = result[c]
  BY DEF CollectorQuiet
<1>2. /\ split[uuid[c]] # None
      /\ split[uuid[c]].host = HostOf[c] /\ split[uuid[c]].name = asked[c]
      /\ \A d \in got[c] : d = ShareFor(uuid[c], d.x) /\ d.x \in Host \ todo[c]
      /\ IsFiniteSet(got[c]) /\ Cardinality(got[c]) <= split[uuid[c]].treshold
      /\ result[c] = "none"
  BY <1>1 DEF CollectedBy
<1>3. uuid[c] \in UUID
  BY <1>1 DEF StoreInv, SecretStoreTypeOk
<1>4. split'[uuid[c]] = split[uuid[c]]
  BY <1>2, <1>3 DEF SplitKept
<1>5. \A p : ShareFor(uuid[c], p)' = ShareFor(uuid[c], p)
  BY <1>4, <1>1 DEF ShareFor, Column
<1> QED BY <1>1, <1>2, <1>4, <1>5

LEMMA StaysAnswered ==
  ASSUME StoreInv, NEW c \in Client, CollectedBy(c), AnsweredTo(c), SplitKept,
         CollectorQuiet(c), NEW u \in UUID, u = uuid[c],
         \A p \in Host : Unserved(p, u) => Unserved(p, u)'
  PROVE  AnsweredTo(c)'
<1> SUFFICES ASSUME pc'[c] = "collect",
                    NEW p \in TrustedPeers(HostOf[c]) \ (todo'[c] \cup missed'[c])
             PROVE  ShareFor(uuid[c], p)' \in got'[c] \/ Unserved(p, uuid[c])'
  BY DEF AnsweredTo, TrustedPeers
<1>1. /\ pc[c] = "collect" /\ uuid'[c] = uuid[c] /\ todo'[c] = todo[c]
      /\ got'[c] = got[c] /\ missed'[c] = missed[c]
  BY DEF CollectorQuiet
<1>2. split[u] # None /\ p \in Host
  BY <1>1 DEF CollectedBy, TrustedPeers
<1>3. split'[u] = split[u]
  BY <1>2 DEF SplitKept
<1>4. ShareFor(uuid[c], p)' = ShareFor(uuid[c], p)
  BY <1>1, <1>3 DEF ShareFor, Column
<1>5. ShareFor(u, p) \in got[c] \/ Unserved(p, u)
  BY <1>1 DEF AnsweredTo
<1>6. ASSUME Unserved(p, u)'
      PROVE  Unserved(p, uuid[c])'
  BY <1>1, <1>6 DEF Unserved, NotYetSeen
<1> QED BY <1>1, <1>2, <1>4, <1>5, <1>6

\* No peer gets a share from quiet servers with quiet requests.
LEMMA StaysUnserved ==
  ASSUME SharesQuiet, RequestsQuiet, NEW u \in UUID, NEW p \in Host, Unserved(p, u)
  PROVE  Unserved(p, u)'
BY DEF SharesQuiet, RequestsQuiet, Unserved, NotYetSeen

\* Every client's decoder, when no peer is served that was not.
LEMMA DecodersStay ==
  ASSUME StoreInv, CollectedOwn, AskedAnswered, SplitKept, CollectorsQuiet,
         \A u \in UUID, p \in Host :
            (\E c \in Client : pc[c] = "collect" /\ uuid[c] = u) /\ Unserved(p, u)
                => Unserved(p, u)'
  PROVE  CollectedOwn' /\ AskedAnswered'
<1> SUFFICES ASSUME NEW c \in Client PROVE CollectedBy(c)' /\ AnsweredTo(c)'
  BY DEF CollectedOwn, AskedAnswered
<1>1. CollectedBy(c) /\ AnsweredTo(c) /\ CollectorQuiet(c)
  BY DEF CollectedOwn, AskedAnswered, CollectorsQuiet
<1>2. CollectedBy(c)'
  BY <1>1, StaysCollected
<1>3. CASE pc[c] = "collect"
  <2>1. uuid[c] \in UUID
    BY <1>3 DEF StoreInv, SecretStoreTypeOk
  <2>2. PICK u \in UUID : u = uuid[c]
    BY <2>1
  <2>3. \A p \in Host : Unserved(p, u) => Unserved(p, u)'
    BY <1>3, <2>2
  <2> QED BY <1>1, <1>2, <2>2, <2>3, StaysAnswered
<1>4. CASE pc[c] # "collect"
  BY <1>1, <1>2, <1>4 DEF AnsweredTo, CollectorQuiet
<1> QED BY <1>2, <1>3, <1>4

\* A step that leaves all of it alone.
LEMMA QuietVersions ==
  ASSUME StoreInv, VersionInv, UNCHANGED <<split, acked>>,
         SharesQuiet, RecordsQuiet, RequestsQuiet, StorersQuiet, CollectorsQuiet
  PROVE  VersionInv'
<1>1. SplitKept /\ SplitsValid'
  BY DEF SplitKept, VersionInv, SplitsValid
<1>2. \A d \in Client : pc'[d] = "collect" => pc[d] = "collect" /\ uuid'[d] = uuid[d]
  BY DEF CollectorsQuiet, CollectorQuiet
<1>3. SharesAsSplit' /\ RequestsOwn' /\ RecordsOwn'
  BY <1>1, SharesStayAsSplit, RequestsStayOwn, RecordsStayOwn DEF VersionInv
<1>4. PublishedFirst' /\ OverSettled' /\ AckedLast'
  BY <1>2, StaysPublishedFirst, StaysOverSettled, StaysAckedLast
     DEF VersionInv, RequestsQuiet, RecordRequestsQuiet
<1>5. CollectedOwn' /\ AskedAnswered'
  BY <1>1, StaysUnserved, DecodersStay DEF VersionInv
<1> QED BY <1>1, <1>3, <1>4, <1>5 DEF VersionInv

-----------------------------------------------------------------------------
(* The steps of a client on its own.                                        *)

\* A client that exits holds no shares any more.
LEMMA ExitLeaves ==
  ASSUME StoreInv, CollectedOwn, NEW c \in Client, NEW outcome, Exit(c, outcome)
  PROVE  StorersQuiet /\ CollectorsQuiet
<1>1. \A d \in Client :
        IF d = c THEN pc'[d] = "idle" /\ got'[d] = {}
        ELSE /\ pc'[d] = pc[d] /\ uuid'[d] = uuid[d] /\ todo'[d] = todo[d]
             /\ got'[d] = got[d] /\ asked'[d] = asked[d] /\ missed'[d] = missed[d]
             /\ result'[d] = result[d]
  BY DEF Exit, StoreInv, SecretStoreTypeOk
<1>2. \A d \in Client : pc[d] # "collect" => got[d] = {}
  BY DEF CollectedOwn, CollectedBy
<1> QED BY <1>1, <1>2 DEF StorersQuiet, CollectorsQuiet, CollectorQuiet

LEMMA AbandonLeaves ==
  ASSUME StoreInv, NEW c \in Client, Abandon(c)
  PROVE  RequestsQuiet
<1> SUFFICES ASSUME NEW h \in Host, conn'[h] # None
             PROVE  /\ conn[h] # None
                    /\ conn'[h].client = conn[h].client /\ conn'[h].kind = conn[h].kind
                    /\ conn'[h].uuid = conn[h].uuid
  BY DEF RequestsQuiet
<1>1. conn'[h] = IF wait[c] = h /\ conn[h] # None /\ conn[h].client = c
                 THEN [conn[h] EXCEPT !.live = FALSE] ELSE conn[h]
  BY DEF Abandon
<1>2. conn[h] # None => conn[h] \in Conn
  BY DEF StoreInv, SecretStoreTypeOk
<1> QED BY <1>1, <1>2 DEF Conn

LEMMA ServersLeft ==
  ASSUME UNCHANGED serverVars
  PROVE  SharesQuiet /\ RecordsQuiet
BY DEF serverVars, SharesQuiet, RecordsQuiet, Records

\* Every step of a client on its own, but those of get-secret.
LEMMA ClientLeaves ==
  ASSUME StoreInv, VersionInv, NEW c \in Client,
         \/ \E p \in Host : SkipPeer(c, p)
         \/ GiveUpShare(c) \/ FinishPublishing(c) \/ GiveUpRecord(c)
         \/ FinishGet(c) \/ Kill(c)
  PROVE  VersionInv'
<1> USE DEF getVars
<1>1. UNCHANGED <<serverVars, split, acked>>
  BY QuietServersKeep DEF QuietServers
<1>2. SharesQuiet /\ RecordsQuiet
  BY <1>1, ServersLeft
<1>3. \A d \in Client : pc[d] # "collect" => got[d] = {}
  BY DEF VersionInv, CollectedOwn, CollectedBy
<1>4. CollectedOwn
  BY DEF VersionInv
<1>5. ASSUME UNCHANGED conn PROVE RequestsQuiet
  BY <1>5 DEF RequestsQuiet
<1>6. ASSUME NEW p \in Host, SkipPeer(c, p)
      PROVE  RequestsQuiet /\ StorersQuiet /\ CollectorsQuiet
  <2>1. /\ pc[c] = "publish" /\ \A d \in Client : todo'[d] \subseteq todo[d]
        /\ \A d \in Client : d # c => todo'[d] = todo[d]
        /\ UNCHANGED <<conn, pc, uuid, got, asked, missed, result>>
    BY <1>6 DEF SkipPeer, StoreInv, SecretStoreTypeOk
  <2> QED BY <1>3, <1>5, <2>1 DEF StorersQuiet, CollectorsQuiet, CollectorQuiet
<1>7. CASE GiveUpShare(c)
  <2>1. Abandon(c) /\ UNCHANGED <<pc, uuid, todo, got, asked, missed, result>>
    BY <1>7 DEF GiveUpShare
  <2>2. RequestsQuiet /\ StorersQuiet /\ CollectorsQuiet
    BY <1>3, <2>1, AbandonLeaves DEF StorersQuiet, CollectorsQuiet, CollectorQuiet
  <2> QED BY <1>1, <1>2, <2>2, QuietVersions
<1>8. CASE FinishPublishing(c)
  <2>1. UNCHANGED conn
    BY <1>8 DEF FinishPublishing
  <2>2. CASE Exit(c, "notsafe")
    BY <1>1, <1>2, <1>4, <1>5, <2>1, <2>2, ExitLeaves, QuietVersions
  <2>3. CASE /\ pc[c] = "publish" /\ pc' = [pc EXCEPT ![c] = "record"]
             /\ UNCHANGED <<uuid, todo, saved, getVars, result>>
    <3>1. \A d \in Client : pc'[d] = IF d = c THEN "record" ELSE pc[d]
      BY <2>3 DEF StoreInv, SecretStoreTypeOk
    <3>2. StorersQuiet /\ CollectorsQuiet
      BY <1>3, <2>3, <3>1 DEF StorersQuiet, CollectorsQuiet, CollectorQuiet
    <3> QED BY <1>1, <1>2, <1>5, <2>1, <3>2, QuietVersions
  <2> QED BY <1>8, <2>2, <2>3 DEF FinishPublishing
<1>9. CASE GiveUpRecord(c)
  <2>1. Abandon(c) /\ Exit(c, "unrecorded")
    BY <1>9 DEF GiveUpRecord
  <2>2. RequestsQuiet
    BY <2>1, AbandonLeaves
  <2>3. StorersQuiet /\ CollectorsQuiet
    BY <1>4, <2>1, ExitLeaves
  <2> QED BY <1>1, <1>2, <2>2, <2>3, QuietVersions
<1>10. CASE FinishGet(c)
  <2>1. RequestsQuiet /\ StorersQuiet /\ CollectorsQuiet
    BY <1>4, <1>5, <1>10, ExitLeaves DEF FinishGet
  <2> QED BY <1>1, <1>2, <2>1, QuietVersions
<1>11. CASE Kill(c)
  <2>1. Abandon(c) /\ Exit(c, "none")
    BY <1>11 DEF Kill
  <2>2. RequestsQuiet
    BY <2>1, AbandonLeaves
  <2>3. StorersQuiet /\ CollectorsQuiet
    BY <1>4, <2>1, ExitLeaves
  <2> QED BY <1>1, <1>2, <2>2, <2>3, QuietVersions
<1>12. ASSUME NEW p \in Host, SkipPeer(c, p) PROVE VersionInv'
  BY <1>1, <1>2, <1>6, <1>12, QuietVersions
<1> QED BY <1>7, <1>8, <1>9, <1>10, <1>11, <1>12

-----------------------------------------------------------------------------
(* get-secret.                                                              *)

\* A step of get-secret, as far as it concerns everything but its decoder.
LEMMA GetStep ==
  ASSUME StoreInv, VersionInv, NEW c \in Client,
         UNCHANGED <<serverVars, conn, split, acked>>,
         \A d \in Client : d # c =>
            /\ pc'[d] = pc[d] /\ uuid'[d] = uuid[d] /\ todo'[d] = todo[d]
            /\ got'[d] = got[d] /\ asked'[d] = asked[d] /\ missed'[d] = missed[d]
            /\ result'[d] = result[d],
         pc'[c] = "collect", CollectedBy(c)', AnsweredTo(c)',
         \A d \in Client : pc[d] = "publish" => uuid'[c] # uuid[d]
  PROVE  VersionInv'
<1>1. SharesQuiet /\ RecordsQuiet /\ RequestsQuiet /\ StorersQuiet
  BY ServersLeft DEF RequestsQuiet, StorersQuiet
<1>2. SplitKept /\ SplitsValid'
  BY DEF SplitKept, VersionInv, SplitsValid
<1>3. SharesAsSplit' /\ RequestsOwn' /\ RecordsOwn' /\ OverSettled' /\ AckedLast'
  BY <1>1, <1>2, SharesStayAsSplit, RequestsStayOwn, RecordsStayOwn,
     StaysOverSettled, StaysAckedLast
     DEF VersionInv, RequestsQuiet, RecordRequestsQuiet
<1>4. PublishedFirst'
  <2>1. ASSUME NEW e \in Client, pc'[e] = "publish"
        PROVE  /\ e # c /\ pc[e] = "publish" /\ uuid'[e] = uuid[e]
               /\ \A d \in Client : pc'[d] = "collect" => uuid'[d] # uuid'[e]
    BY <2>1 DEF VersionInv, PublishedFirst
  <2>2. UNCHANGED <<secrets, secretsDta>>
    BY DEF serverVars
  <2> QED BY <2>1, <2>2 DEF VersionInv, PublishedFirst, Records
<1>5. \A d \in Client : d # c => CollectedBy(d)' /\ AnsweredTo(d)'
  <2> SUFFICES ASSUME NEW d \in Client, d # c PROVE CollectedBy(d)' /\ AnsweredTo(d)'
    OBVIOUS
  <2>1. CollectedBy(d) /\ AnsweredTo(d)
    BY DEF VersionInv, CollectedOwn, AskedAnswered
  <2>2. CollectorQuiet(d)
    BY <2>1 DEF CollectorQuiet, CollectedBy
  <2>3. UNCHANGED <<shares, sharesDta, conn, split>>
    BY DEF serverVars
  <2>4. AnsweredTo(d)'
    BY <2>1, <2>3 DEF AnsweredTo, TrustedPeers, ShareFor, Column, Unserved, NotYetSeen
  <2> QED BY <1>2, <2>1, <2>2, <2>4, StaysCollected
<1> QED BY <1>2, <1>3, <1>4, <1>5 DEF VersionInv, CollectedOwn, AskedAnswered

\* The version on record is the host's own, of the name asked for.
LEMMA LookupKeeps ==
  ASSUME StoreInv, VersionInv, NEW c \in Client, NEW n \in Name, Lookup(c, n)
  PROVE  VersionInv'
<1>1. CASE Exit(c, "nometadata") /\ UNCHANGED <<serverVars, conn, split, acked>>
  <2>1. StorersQuiet /\ CollectorsQuiet
    BY <1>1, ExitLeaves DEF VersionInv
  <2>2. SharesQuiet /\ RecordsQuiet /\ RequestsQuiet
    BY <1>1, ServersLeft DEF RequestsQuiet
  <2> QED BY <1>1, <2>1, <2>2, QuietVersions
<1>2. CASE ~(Exit(c, "nometadata") /\ UNCHANGED <<serverVars, conn, split, acked>>)
  <2> DEFINE h == HostOf[c]
  <2> DEFINE r == secrets[HostOf[c]][n]
  <2>1. /\ pc[c] = "idle"
        /\ GetSecretMetadataStatus(h, Cert[h], n) = 200
        /\ pc' = [pc EXCEPT ![c] = "collect"]
        /\ uuid' = [uuid EXCEPT ![c] = r.uuid]
        /\ todo' = [todo EXCEPT ![c] = TrustedPeers(h)]
        /\ asked' = [asked EXCEPT ![c] = n]
        /\ result' = [result EXCEPT ![c] = "none"]
        /\ UNCHANGED <<got, missed, serverVars, conn, split, acked>>
    BY <1>2 DEF Lookup
  <2>2. h \in Host /\ r \in Records(h, n)
    BY <2>1, DeploymentAssumption DEF GetSecretMetadataStatus, Records
  <2>3. r \in Record /\ r.uuid \in UUID
    BY <2>1, <2>2 DEF GetSecretMetadataStatus, StoreInv, SecretStoreTypeOk, ServerTypeOk, Record
  <2>4. split[r.uuid] # None /\ split[r.uuid].host = h /\ split[r.uuid].name = n
    BY <2>2 DEF VersionInv, RecordsOwn
  <2>5. /\ pc'[c] = "collect" /\ uuid'[c] = r.uuid /\ todo'[c] = TrustedPeers(h)
        /\ asked'[c] = n /\ result'[c] = "none" /\ got'[c] = {}
    BY <2>1 DEF StoreInv, SecretStoreTypeOk, VersionInv, CollectedOwn, CollectedBy
  <2>6. CollectedBy(c)'
    <3>1. IsFiniteSet({}) /\ Cardinality({}) = 0
      BY FS_EmptySet
    <3>2. split[r.uuid] \in Split
      BY <2>3, <2>4 DEF StoreInv, SecretStoreTypeOk
    <3>3. Cardinality({}) <= split[r.uuid].treshold
      BY <3>1, <3>2 DEF Split
    <3> QED BY <2>1, <2>4, <2>5, <3>1, <3>3 DEF CollectedBy
  <2>7. AnsweredTo(c)'
    BY <2>5 DEF AnsweredTo, TrustedPeers
  <2>8. \A d \in Client : pc[d] = "publish" => uuid'[c] # uuid[d]
    BY <2>2, <2>5 DEF VersionInv, PublishedFirst
  <2>9. \A d \in Client : d # c =>
          /\ pc'[d] = pc[d] /\ uuid'[d] = uuid[d] /\ todo'[d] = todo[d]
          /\ got'[d] = got[d] /\ asked'[d] = asked[d] /\ missed'[d] = missed[d]
          /\ result'[d] = result[d]
    BY <2>1 DEF StoreInv, SecretStoreTypeOk
  <2> HIDE DEF h, r
  <2> QED BY <2>1, <2>5, <2>6, <2>7, <2>8, <2>9, GetStep
<1> QED BY <1>1, <1>2

LEMMA MissPeerKeeps ==
  ASSUME StoreInv, VersionInv, NEW c \in Client, NEW p \in Host, MissPeer(c, p)
  PROVE  VersionInv'
<1>1. /\ pc[c] = "collect"
      /\ todo' = [todo EXCEPT ![c] = @ \ {p}]
      /\ missed' = [missed EXCEPT ![c] = @ \cup {p}]
      /\ UNCHANGED <<serverVars, conn, split, pc, uuid, got, asked, result, acked>>
  BY DEF MissPeer
<1>2. todo'[c] = todo[c] \ {p} /\ missed'[c] = missed[c] \cup {p}
  BY <1>1 DEF StoreInv, SecretStoreTypeOk
<1>3. \A d \in Client : d # c => todo'[d] = todo[d] /\ missed'[d] = missed[d]
  BY <1>1 DEF StoreInv, SecretStoreTypeOk
<1>4. CollectedBy(c) /\ AnsweredTo(c)
  BY DEF VersionInv, CollectedOwn, AskedAnswered
<1>5. CollectedBy(c)'
  BY <1>1, <1>2, <1>4 DEF CollectedBy, ShareFor, Column
<1>6. AnsweredTo(c)'
  BY <1>1, <1>2, <1>4 DEF AnsweredTo, TrustedPeers, ShareFor, Column, Unserved, NotYetSeen, serverVars
<1>7. \A d \in Client : pc[d] = "publish" => uuid'[c] # uuid[d]
  BY <1>1 DEF VersionInv, PublishedFirst
<1> QED BY <1>1, <1>3, <1>5, <1>6, <1>7, GetStep

\* A free peer that holds the share serves it, and the decoder takes it.
LEMMA FetchShareKeeps ==
  ASSUME StoreInv, VersionInv, NEW c \in Client, NEW p \in Host, FetchShare(c, p)
  PROVE  VersionInv'
<1> DEFINE u == uuid[c]
<1> DEFINE d == shares[p][uuid[c]]
<1>1. /\ pc[c] = "collect" /\ p \in todo[c] /\ ~ReadyToDecode(got[c]) /\ Free(p)
      /\ todo' = [todo EXCEPT ![c] = @ \ {p}]
      /\ got' = IF GetShareStatus(p, Cert[HostOf[c]], u) = 200
                THEN [got EXCEPT ![c] = PopulateDecoder(@, d, asked[c], OwnName[HostOf[c]])]
                ELSE got
      /\ UNCHANGED <<serverVars, conn, split, pc, uuid, asked, missed, result, acked>>
  BY DEF FetchShare
<1>2. todo'[c] = todo[c] \ {p} /\ \A e \in Client : e # c => todo'[e] = todo[e]
  BY <1>1 DEF StoreInv, SecretStoreTypeOk
<1>3. \A e \in Client : e # c => got'[e] = got[e]
  BY <1>1 DEF StoreInv, SecretStoreTypeOk
<1>4. CollectedBy(c) /\ AnsweredTo(c)
  BY DEF VersionInv, CollectedOwn, AskedAnswered
<1>5. /\ u \in UUID /\ split[u] # None /\ split[u] \in Split
      /\ split[u].host = HostOf[c] /\ split[u].name = asked[c]
      /\ \A e \in got[c] : e = ShareFor(u, e.x) /\ e.x \in Host \ todo[c]
      /\ IsFiniteSet(got[c]) /\ Cardinality(got[c]) <= split[u].treshold
      /\ result[c] = "none"
  BY <1>1, <1>4 DEF CollectedBy, StoreInv, SecretStoreTypeOk
<1>6. /\ split[u].treshold \in Nat /\ split[u].shares \in Nat
      /\ 2 <= split[u].treshold /\ split[u].treshold <= split[u].shares
  BY <1>5 DEF Split, VersionInv, SplitsValid
<1>7. CASE d = None
  <2>1. got' = got
    BY <1>1, <1>7 DEF GetShareStatus
  <2>2. Unserved(p, u)
    <3>1. up[p] /\ conn[p] = None
      BY <1>1 DEF Free
    <3>2. sharesDta[p][u] = None
      BY <1>5, <1>7, <3>1 DEF StoreInv, DiskInMemory
    <3> QED BY <1>7, <3>1, <3>2 DEF Unserved, NotYetSeen
  <2>3. CollectedBy(c)'
    BY <1>1, <1>2, <1>4, <2>1 DEF CollectedBy, ShareFor, Column
  <2>4. AnsweredTo(c)'
    BY <1>1, <1>2, <1>4, <2>1, <2>2
       DEF AnsweredTo, TrustedPeers, ShareFor, Column, Unserved, NotYetSeen, serverVars
  <2>5. \A e \in Client : pc[e] = "publish" => uuid'[c] # uuid[e]
    BY <1>1 DEF VersionInv, PublishedFirst
  <2> HIDE DEF u, d
  <2> QED BY <1>1, <1>2, <1>3, <2>3, <2>4, <2>5, GetStep
<1>8. CASE d # None
  <2>1. d = ShareFor(u, p) /\ OwnerMatches(Cert[HostOf[c]], OwnName[HostOf[c]])
    BY <1>5, <1>8 DEF VersionInv, SharesAsSplit
  <2>2. /\ d.uuid = u /\ d.owner = OwnName[HostOf[c]] /\ d.name = asked[c]
        /\ d.treshold = split[u].treshold /\ d.shares = split[u].shares /\ d.x = p
    BY <1>5, <2>1 DEF ShareFor, Column
  <2>3. GetShareStatus(p, Cert[HostOf[c]], u) = 200
    BY <1>8, <2>1, <2>2 DEF GetShareStatus
  <2>4. WellFormed(d)
    BY <1>6, <2>2, DeploymentAssumption DEF WellFormed
  <2>5. \A e \in got[c] :
          /\ e.uuid = u /\ e.name = asked[c]
          /\ e.treshold = split[u].treshold /\ e.shares = split[u].shares /\ e.x # p
    BY <1>1, <1>5 DEF ShareFor, Column
  <2>6. Consistent(got[c], d, asked[c], OwnName[HostOf[c]])
    BY <2>2, <2>5 DEF Consistent
  <2>7. got'[c] = got[c] \cup {d}
    BY <1>1, <2>3, <2>4, <2>6 DEF PopulateDecoder, StoreInv, SecretStoreTypeOk
  <2>8. IsFiniteSet(got[c] \cup {d}) /\ Cardinality(got[c] \cup {d}) <= split[u].treshold
    <3>1. Cardinality(got[c]) \in Nat
      BY <1>5, FS_CardinalityType
    <3>2. Cardinality(got[c]) < split[u].treshold
      <4>1. CASE got[c] = {}
        BY <1>6, <4>1, FS_EmptySet
      <4>2. ASSUME NEW e \in got[c] PROVE Cardinality(got[c]) < split[u].treshold
        <5>1. ~(Cardinality(got[c]) >= e.treshold)
          BY <1>1 DEF ReadyToDecode
        <5> QED BY <1>6, <2>5, <3>1, <5>1
      <4> QED BY <4>1, <4>2
    <3> HIDE DEF u, d
    <3>3. /\ IsFiniteSet(got[c] \cup {d})
          /\ Cardinality(got[c] \cup {d}) \in {Cardinality(got[c]), Cardinality(got[c]) + 1}
      BY <1>5, FS_AddElement
    <3> QED BY <1>6, <3>1, <3>2, <3>3
  <2>9. CollectedBy(c)'
    <3>1. \A e \in got[c] \cup {d} : e = ShareFor(u, e.x) /\ e.x \in Host \ (todo[c] \ {p})
      BY <1>5, <2>1, <2>2
    <3> QED BY <1>1, <1>2, <1>5, <2>7, <2>8, <3>1 DEF CollectedBy, ShareFor, Column
  <2>10. AnsweredTo(c)'
    <3>1. ASSUME NEW q \in TrustedPeers(HostOf[c]) \ ((todo[c] \ {p}) \cup missed[c])
          PROVE  \/ ShareFor(u, q) \in got[c] \cup {d}
                 \/ Unserved(q, u)
      <4>1. CASE q = p
        BY <2>1, <4>1
      <4>2. CASE q # p
        BY <1>1, <1>4, <4>2 DEF AnsweredTo
      <4> QED BY <4>1, <4>2
    <3> QED BY <1>1, <1>2, <2>7, <3>1
        DEF AnsweredTo, TrustedPeers, ShareFor, Column, Unserved, NotYetSeen, serverVars
  <2>11. \A e \in Client : pc[e] = "publish" => uuid'[c] # uuid[e]
    BY <1>1 DEF VersionInv, PublishedFirst
  <2> HIDE DEF u, d
  <2> QED BY <1>1, <1>2, <1>3, <2>9, <2>10, <2>11, GetStep
<1> QED BY <1>7, <1>8

-----------------------------------------------------------------------------
(* store-secret.                                                            *)

\* The uuid of a new version is on no record, in no request and in nobody's
\* hands.
LEMMA StoreSecretKeeps ==
  ASSUME StoreInv, VersionInv, NEW c \in Client, NEW n \in Name, NEW u \in UUID,
         NEW targets \in SUBSET Host, NEW t \in Treshold,
         StoreSecret(c, n, u, targets, t)
  PROVE  VersionInv'
<1> DEFINE version == [host |-> HostOf[c], name |-> n, treshold |-> t,
                       shares |-> Cardinality(targets), over |-> Over]
<1>1. /\ pc[c] = "idle" /\ split[u] = None
      /\ targets \subseteq TrustedPeers(HostOf[c])
      /\ 2 <= t /\ t <= Cardinality(targets)
      /\ split' = [split EXCEPT ![u] = version]
      /\ pc' = [pc EXCEPT ![c] = "publish"]
      /\ uuid' = [uuid EXCEPT ![c] = u]
      /\ todo' = [todo EXCEPT ![c] = targets]
      /\ result' = [result EXCEPT ![c] = "none"]
      /\ UNCHANGED <<serverVars, conn, got, asked, missed, acked>>
  BY DEF StoreSecret, getVars, ValidSplit
<1>2. /\ SplitKept /\ split'[u] = version
      /\ \A w \in UUID : w # u => split'[w] = split[w]
  BY <1>1 DEF SplitKept, StoreInv, SecretStoreTypeOk
<1>3. \A d \in Client :
        IF d = c THEN pc'[d] = "publish" /\ uuid'[d] = u /\ todo'[d] = targets
        ELSE /\ pc'[d] = pc[d] /\ uuid'[d] = uuid[d] /\ todo'[d] = todo[d]
             /\ result'[d] = result[d]
  BY <1>1 DEF StoreInv, SecretStoreTypeOk
<1>4. SharesQuiet /\ RecordsQuiet /\ RequestsQuiet /\ RecordRequestsQuiet
  BY <1>1, ServersLeft DEF RequestsQuiet, RecordRequestsQuiet
<1>5. CollectorsQuiet
  <2>1. \A d \in Client : pc[d] # "collect" => got[d] = {}
    BY DEF VersionInv, CollectedOwn, CollectedBy
  <2> QED BY <1>1, <1>3, <2>1 DEF CollectorsQuiet, CollectorQuiet
<1>6. SplitsValid'
  BY <1>1, <1>2 DEF VersionInv, SplitsValid
<1>7. SharesAsSplit' /\ RecordsOwn' /\ CollectedOwn' /\ AskedAnswered'
  BY <1>2, <1>4, <1>5, SharesStayAsSplit, RecordsStayOwn, StaysUnserved, DecodersStay
     DEF VersionInv
<1>8. RequestsOwn'
  <2>1. ASSUME NEW d \in Client, d # c, pc[d] \in {"publish", "record"}
        PROVE  split'[uuid[d]].host = HostOf[d]
    <3>1. uuid[d] \in UUID /\ split[uuid[d]] # None
      BY <2>1 DEF StoreInv, SecretStoreTypeOk, VersionsOwned, Storing
    <3> QED BY <1>2, <2>1, <3>1 DEF SplitKept, VersionInv, RequestsOwn, Storing
  <2>2. ASSUME NEW d \in Client, pc'[d] \in {"publish", "record"}
        PROVE  split'[uuid'[d]].host = HostOf[d]
    BY <1>2, <1>3, <2>1, <2>2
  <2>3. ASSUME NEW d \in Client, pc'[d] = "publish"
        PROVE  todo'[d] \subseteq TrustedPeers(HostOf[d])
    BY <1>1, <1>3, <2>3 DEF VersionInv, RequestsOwn
  <2>4. ASSUME NEW h \in Host, conn[h] # None
        PROVE  /\ split'[conn[h].uuid].host = HostOf[conn[h].client]
               /\ conn[h].kind = "record" => HostOf[conn[h].client] = h
               /\ conn[h].kind = "share" => h \in TrustedPeers(HostOf[conn[h].client])
    <3>1. conn[h].uuid \in UUID /\ split[conn[h].uuid] # None
      BY <2>4 DEF StoreInv, SecretStoreTypeOk, ConnectionsSound, Conn
    <3>2. split'[conn[h].uuid] = split[conn[h].uuid]
      BY <1>2, <3>1 DEF SplitKept
    <3> QED BY <2>4, <3>2 DEF VersionInv, RequestsOwn
  <2> QED BY <1>1, <2>2, <2>3, <2>4 DEF RequestsOwn, Storing, TrustedPeers
<1>9. PublishedFirst'
  <2> SUFFICES ASSUME NEW e \in Client, pc'[e] = "publish"
               PROVE  /\ \A h \in Host : conn[h] # None /\ conn[h].kind = "record" =>
                            conn[h].uuid # uuid'[e]
                      /\ \A h \in Host, m \in Name : \A r \in Records(h, m) :
                            r.uuid # uuid'[e]
                      /\ \A d \in Client : pc'[d] = "collect" => uuid'[d] # uuid'[e]
    BY <1>1 DEF PublishedFirst, Records, serverVars
  <2>1. CASE e = c
    <3>1. \A h \in Host : conn[h] # None => conn[h].uuid # u
      BY <1>1 DEF StoreInv, ConnectionsSound
    <3>2. \A h \in Host, m \in Name : \A r \in Records(h, m) : r.uuid # u
      BY <1>1 DEF VersionInv, RecordsOwn
    <3>3. \A d \in Client : pc[d] = "collect" => uuid[d] # u
      BY <1>1 DEF VersionInv, CollectedOwn, CollectedBy
    <3> QED BY <1>3, <2>1, <3>1, <3>2, <3>3
  <2>2. CASE e # c
    BY <1>3, <2>2 DEF VersionInv, PublishedFirst
  <2> QED BY <2>1, <2>2
<1>10. OverSettled'
  <2> SUFFICES ASSUME NEW v \in UUID, split'[v] # None, NEW w \in split'[v].over
               PROVE  /\ split'[w] # None /\ w # v
                      /\ \A d \in Client :
                            pc'[d] \in {"publish", "record"} => uuid'[d] # w
    BY DEF OverSettled, Storing
  <2>1. /\ w \in UUID /\ split[w] # None /\ w # v
        /\ \A d \in Client : pc[d] \in {"publish", "record"} => uuid[d] # w
    <3>1. CASE v = u
      BY <1>1, <1>2, <3>1 DEF Over
    <3>2. CASE v # u
      <4>1. split[v] # None /\ w \in split[v].over
        BY <1>2, <3>2
      <4>2. w \in UUID
        BY <4>1 DEF StoreInv, SecretStoreTypeOk, Split
      <4> QED BY <4>1, <4>2 DEF VersionInv, OverSettled, Storing
    <3> QED BY <3>1, <3>2
  <2>2. w # u /\ split'[w] # None
    BY <1>1, <1>2, <2>1
  <2> QED BY <1>3, <2>1, <2>2
<1>11. AckedLast'
  <2> SUFFICES ASSUME NEW v \in acked
               PROVE  split'[v] # None /\ \A w \in split'[v].over :
                        split'[w].host = split'[v].host /\ split'[w].name = split'[v].name =>
                          /\ \A r \in Records(split'[v].host, split'[v].name) : r.uuid # w
                          /\ \A h \in Host : conn[h] # None /\ conn[h].kind = "record" =>
                                conn[h].uuid # w
    BY <1>1 DEF AckedLast, Records, serverVars
  <2>1. v \in UUID /\ split[v] # None
    BY DEF StoreInv, SecretStoreTypeOk, VersionInv, AckedLast
  <2>2. split'[v] = split[v]
    BY <1>2, <2>1 DEF SplitKept
  <2>3. \A w \in split[v].over : split'[w] = split[w]
    <3> SUFFICES ASSUME NEW w \in split[v].over PROVE split'[w] = split[w]
      OBVIOUS
    <3>1. split[w] # None
      BY <2>1 DEF VersionInv, OverSettled
    <3>2. w \in UUID
      BY <2>1 DEF StoreInv, SecretStoreTypeOk, Split
    <3> QED BY <1>2, <3>1, <3>2 DEF SplitKept
  <2> QED BY <2>1, <2>2, <2>3 DEF VersionInv, AckedLast
<1> QED BY <1>6, <1>7, <1>8, <1>9, <1>10, <1>11 DEF VersionInv

\* A request of a client for the version it stores.
LEMMA SendKeeps ==
  ASSUME StoreInv, VersionInv, NEW c \in Client, NEW p \in Host,
         SendShare(c, p) \/ (p = HostOf[c] /\ SendRecord(c))
  PROVE  VersionInv'
<1> DEFINE kind == IF pc[c] = "publish" THEN "share" ELSE "record"
<1>1. /\ pc[c] \in {"publish", "record"} /\ conn[p] = None
      /\ UNCHANGED <<serverVars, split, pc, uuid, got, asked, missed, result, acked>>
  BY DEF SendShare, SendRecord, Free, getVars
<1>2. \A h \in Host : IF h = p THEN /\ conn'[h].client = c /\ conn'[h].uuid = uuid[c]
                                    /\ conn'[h].kind = kind
                      ELSE conn'[h] = conn[h]
  <2>1. CASE SendShare(c, p)
    <3>1. pc[c] = "publish"
          /\ conn' = [conn EXCEPT ![p] = [client |-> c, live |-> TRUE, kind |-> "share",
                                          uuid |-> uuid[c], saved |-> 0]]
      BY <2>1 DEF SendShare
    <3> QED BY <3>1 DEF StoreInv, SecretStoreTypeOk
  <2>2. CASE p = HostOf[c] /\ SendRecord(c)
    <3>1. pc[c] = "record"
          /\ conn' = [conn EXCEPT ![p] = [client |-> c, live |-> TRUE, kind |-> "record",
                                          uuid |-> uuid[c], saved |-> Cardinality(saved[c])]]
      BY <2>2 DEF SendRecord
    <3> QED BY <3>1 DEF StoreInv, SecretStoreTypeOk
  <2> QED BY <2>1, <2>2
<1>3. /\ \A d \in Client : todo'[d] \subseteq todo[d]
      /\ \A d \in Client : d # c => todo'[d] = todo[d]
      /\ pc[c] = "publish" => p \in todo[c]
      /\ pc[c] = "record" => p = HostOf[c]
  BY DEF SendShare, SendRecord, StoreInv, SecretStoreTypeOk
<1>4. uuid[c] \in UUID /\ split[uuid[c]] # None /\ split[uuid[c]].host = HostOf[c]
  BY <1>1 DEF StoreInv, SecretStoreTypeOk, VersionsOwned, Storing, VersionInv, RequestsOwn
<1>5. SharesQuiet /\ RecordsQuiet /\ StorersQuiet /\ SplitKept /\ SplitsValid'
  BY <1>1, <1>3, ServersLeft DEF StorersQuiet, SplitKept, VersionInv, SplitsValid
<1>6. CollectorsQuiet
  <2>1. \A d \in Client : pc[d] # "collect" => got[d] = {}
    BY DEF VersionInv, CollectedOwn, CollectedBy
  <2> QED BY <1>1, <1>3, <2>1 DEF CollectorsQuiet, CollectorQuiet
<1>7. SharesAsSplit' /\ RecordsOwn' /\ OverSettled'
  BY <1>1, <1>5, SharesStayAsSplit, RecordsStayOwn, StaysOverSettled DEF VersionInv
<1>8. RequestsOwn'
  <2>1. \A d \in Client : pc[d] = "publish" => todo'[d] \subseteq TrustedPeers(HostOf[d])
    BY <1>3 DEF VersionInv, RequestsOwn
  <2>2. ASSUME NEW h \in Host, conn'[h] # None
        PROVE  /\ split[conn'[h].uuid].host = HostOf[conn'[h].client]
               /\ conn'[h].kind = "record" => HostOf[conn'[h].client] = h
               /\ conn'[h].kind = "share" => h \in TrustedPeers(HostOf[conn'[h].client])
    <3>1. CASE h = p
      BY <1>1, <1>2, <1>3, <1>4, <3>1 DEF VersionInv, RequestsOwn
    <3>2. CASE h # p
      BY <1>2, <2>2, <3>2 DEF VersionInv, RequestsOwn
    <3> QED BY <3>1, <3>2
  <2> QED BY <1>1, <2>1, <2>2 DEF VersionInv, RequestsOwn, Storing, TrustedPeers
<1>9. CollectedOwn' /\ AskedAnswered'
  <2>1. ASSUME NEW u \in UUID, NEW q \in Host, Unserved(q, u),
               NEW d \in Client, pc[d] = "collect", uuid[d] = u
        PROVE  Unserved(q, u)'
    <3>1. kind = "share" => uuid[c] # u
      BY <1>1, <2>1 DEF VersionInv, PublishedFirst
    <3> HIDE DEF kind
    <3> QED BY <1>1, <1>2, <2>1, <3>1 DEF Unserved, NotYetSeen, serverVars
  <2> QED BY <1>5, <1>6, <2>1, DecodersStay DEF VersionInv
<1>10. PublishedFirst'
  <2> SUFFICES ASSUME NEW e \in Client, pc[e] = "publish"
               PROVE  \A h \in Host : conn'[h] # None /\ conn'[h].kind = "record" =>
                            conn'[h].uuid # uuid[e]
    BY <1>1 DEF VersionInv, PublishedFirst, Records, serverVars
  <2> SUFFICES ASSUME NEW h \in Host, conn'[h] # None, conn'[h].kind = "record"
               PROVE  conn'[h].uuid # uuid[e]
    OBVIOUS
  <2>1. CASE h = p
    BY <1>1, <1>2, <2>1 DEF StoreInv, VersionsOwned, Storing
  <2>2. CASE h # p
    BY <1>2, <2>2 DEF VersionInv, PublishedFirst
  <2> QED BY <2>1, <2>2
<1>11. AckedLast'
  <2> SUFFICES ASSUME NEW v \in acked, NEW w \in split[v].over,
                      split[w].host = split[v].host, split[w].name = split[v].name,
                      NEW h \in Host, conn'[h] # None, conn'[h].kind = "record"
               PROVE  conn'[h].uuid # w
    BY <1>1 DEF VersionInv, AckedLast, Records, serverVars
  <2>1. v \in UUID /\ split[v] # None
    BY DEF StoreInv, SecretStoreTypeOk, VersionInv, AckedLast
  <2>2. uuid[c] # w
    BY <1>1, <2>1 DEF VersionInv, OverSettled, Storing
  <2>3. CASE h = p
    BY <1>2, <2>2, <2>3
  <2>4. CASE h # p
    BY <1>2, <2>4 DEF VersionInv, AckedLast
  <2> QED BY <2>3, <2>4
<1> QED BY <1>5, <1>7, <1>8, <1>9, <1>10, <1>11 DEF VersionInv

-----------------------------------------------------------------------------
(* The servers.                                                             *)

\* Requests that are done or lost are no more.
LEMMA RequestDone ==
  ASSUME StoreInv, NEW p \in Host, conn' = [conn EXCEPT ![p] = None]
  PROVE  RequestsQuiet /\ RecordRequestsQuiet
<1>1. \A h \in Host : conn'[h] = IF h = p THEN None ELSE conn[h]
  BY DEF StoreInv, SecretStoreTypeOk
<1> QED BY <1>1 DEF RequestsQuiet, RecordRequestsQuiet

\* Clients that do nothing, or exit.
LEMMA ClientsStay ==
  ASSUME CollectedOwn, UNCHANGED <<pc, uuid, todo, got, asked, missed, result>>
  PROVE  StorersQuiet /\ CollectorsQuiet
<1>1. \A d \in Client : pc[d] # "collect" => got[d] = {}
  BY DEF CollectedOwn, CollectedBy
<1> QED BY <1>1 DEF StorersQuiet, CollectorsQuiet, CollectorQuiet

\* store_share keeps one more share, and only for the host that it names.
LEMMA HandleShareKeepsVersions ==
  ASSUME StoreInv, VersionInv, NEW p \in Host, NEW status, HandleShare(p, status)
  PROVE  VersionInv'
<1> DEFINE r == conn[p]
<1> DEFINE v == conn[p].uuid
<1> DEFINE cn == Cert[HostOf[conn[p].client]]
<1> DEFINE body == ShareFor(conn[p].uuid, p)
<1>1. /\ r # None /\ r.kind = "share"
      /\ StoreShare(p, cn, v, body, status)
      /\ conn' = [conn EXCEPT ![p] = None]
      /\ UNCHANGED <<split, pc, uuid, todo, got, asked, missed, result, acked>>
  BY DEF HandleShare, getVars
<1>2. /\ v \in UUID /\ split[v] # None /\ split[v].host = HostOf[r.client]
      /\ p \in TrustedPeers(split[v].host)
  BY <1>1 DEF StoreInv, SecretStoreTypeOk, ConnectionsSound, Conn, VersionInv, RequestsOwn
<1>3. UNCHANGED <<secrets, secretsDta>>
  BY HandleShareKeeps
<1>4. /\ RecordsQuiet /\ RequestsQuiet /\ RecordRequestsQuiet
      /\ StorersQuiet /\ CollectorsQuiet /\ SplitKept /\ SplitsValid'
  BY <1>1, <1>3, RequestDone, ClientsStay
     DEF RecordsQuiet, Records, SplitKept, VersionInv, SplitsValid
<1>5. \A q \in Host, u \in UUID :
        \/ /\ shares'[q][u] \in {None, shares[q][u], sharesDta[q][u]}
           /\ sharesDta'[q][u] \in {None, shares[q][u], sharesDta[q][u]}
        \/ /\ q = p /\ u = v /\ OwnerMatches(cn, body.owner)
           /\ {shares'[q][u], sharesDta'[q][u]}
                 \subseteq {None, shares[q][u], sharesDta[q][u], body}
  <2>1. CASE UNCHANGED serverVars
    BY <2>1 DEF serverVars
  <2>2. CASE OwnerMatches(cn, body.owner) /\ StoreNewShare(p, v, body, status)
    <3>1. shares' = [shares EXCEPT ![p][v] = body]
      BY <2>2 DEF StoreNewShare
    <3>2. \A q \in Host, u \in UUID :
            shares'[q][u] = IF q = p /\ u = v THEN body ELSE shares[q][u]
      BY <1>2, <3>1 DEF StoreInv, SecretStoreTypeOk, ServerTypeOk
    <3>3. sharesDta' = [sharesDta EXCEPT ![p] = shares'[p]] \/ UNCHANGED sharesDta
      BY <2>2 DEF StoreNewShare, PersistShares
    <3>4. \A q \in Host, u \in UUID : sharesDta'[q][u] \in {sharesDta[q][u], shares'[q][u]}
      <4>1. DOMAIN sharesDta = Host /\ sharesDta = [q \in Host |-> sharesDta[q]]
        BY DEF StoreInv, SecretStoreTypeOk, ServerTypeOk
      <4>2. \A q \in Host : sharesDta'[q] \in {sharesDta[q], shares'[q]}
        BY <3>3, <4>1
      <4> QED BY <4>2
    <3> HIDE DEF body, v, cn
    <3> QED BY <2>2, <3>2, <3>4
  <2> QED BY <1>1, <2>1, <2>2 DEF StoreShare
<1>6. SharesAsSplit'
  <2> SUFFICES ASSUME NEW q \in Host, NEW u \in UUID,
                      NEW d \in {shares'[q][u], sharesDta'[q][u]} \ {None}
               PROVE  /\ d = ShareFor(u, q)
                      /\ q \in TrustedPeers(split[u].host)
                      /\ OwnerMatches(Cert[split[u].host], OwnName[split[u].host])
    BY <1>1 DEF SharesAsSplit, TrustedPeers, OwnerMatches, ShareFor, Column
  <2>1. CASE d \in {shares[q][u], sharesDta[q][u]}
    BY <2>1 DEF VersionInv, SharesAsSplit
  <2>2. CASE q = p /\ u = v /\ OwnerMatches(cn, body.owner) /\ d = body
    <3>1. body.owner = OwnName[split[v].host]
      BY DEF ShareFor, Column
    <3> QED BY <1>2, <2>2, <3>1
  <2> HIDE DEF body, v, cn
  <2> QED BY <1>5, <2>1, <2>2
<1>7. CollectedOwn' /\ AskedAnswered'
  <2>1. ASSUME NEW u \in UUID, NEW q \in Host, Unserved(q, u)
        PROVE  Unserved(q, u)'
    <3>1. ~(q = p /\ u = v)
      BY <1>1, <2>1 DEF Unserved
    <3>2. /\ shares'[q][u] \in {None, shares[q][u], sharesDta[q][u]}
          /\ sharesDta'[q][u] \in {None, shares[q][u], sharesDta[q][u]}
      BY <1>5, <3>1
    <3>3. NotYetSeen(q, u)'
      BY <2>1, <3>2 DEF Unserved, NotYetSeen
    <3> QED BY <1>4, <2>1, <3>3 DEF Unserved, RequestsQuiet
  <2> QED BY <1>4, <2>1, DecodersStay DEF VersionInv
<1>8. RequestsOwn' /\ RecordsOwn' /\ OverSettled' /\ AckedLast'
  BY <1>1, <1>4, RequestsStayOwn, RecordsStayOwn, StaysOverSettled, StaysAckedLast
     DEF VersionInv
<1>9. PublishedFirst'
  <2>1. \A d \in Client : pc'[d] = "collect" => pc[d] = "collect" /\ uuid'[d] = uuid[d]
    BY <1>1
  <2> QED BY <1>4, <2>1, StaysPublishedFirst DEF VersionInv
<1> QED BY <1>4, <1>6, <1>7, <1>8, <1>9 DEF VersionInv

\* A record replaces the one of its name; once that is acknowledged, no other
\* is left of that name, in memory or in the file.
LEMMA HandleRecordKeepsVersions ==
  ASSUME StoreInv, VersionInv, NEW p \in Host, NEW status \in {201, 403, 500},
         HandleRecord(p, status)
  PROVE  VersionInv'
<1>0. PICK r : r = conn[p]
  OBVIOUS
<1>10. PICK n : n = split[r.uuid].name
  OBVIOUS
<1>11. PICK recorded : recorded = [secrets EXCEPT ![p][n] = RecordOf(r)]
  OBVIOUS
<1>1. /\ r = conn[p] /\ n = split[r.uuid].name
      /\ recorded = [secrets EXCEPT ![p][n] = RecordOf(r)]
  BY <1>0, <1>10, <1>11
<1>2. /\ r # None /\ r.kind = "record" /\ r \in Conn /\ split[r.uuid] \in Split
      /\ UNCHANGED <<up, shares, sharesDta, split>>
      /\ conn' = [conn EXCEPT ![p] = None]
      /\ RecordOf(r).uuid = r.uuid /\ RecordOf(r) \in Record
      /\ \/ /\ secrets' = recorded
            /\ secretsDta' = [secretsDta EXCEPT ![p] = recorded[p]]
            /\ acked' = acked \/ acked' = acked \cup {r.uuid}
         \/ /\ secrets' = recorded /\ UNCHANGED <<secretsDta, acked>>
         \/ UNCHANGED <<secrets, secretsDta, acked>>
  BY <1>1, HandleRecordDoes
<1>3. /\ r.uuid \in UUID /\ n \in Name /\ split[r.uuid] # None
      /\ split[r.uuid].host = p
  BY <1>1, <1>2, NoneIsNoConn DEF Conn, Split, VersionInv, RequestsOwn
<1>4. /\ StorersQuiet /\ CollectorsQuiet
      /\ RequestsQuiet /\ RecordRequestsQuiet /\ SharesQuiet /\ SplitKept /\ SplitsValid'
  <2>1. \/ \E outcome : Exit(r.client, outcome)
        \/ UNCHANGED <<pc, uuid, todo, got, asked, missed, result>>
    BY <1>1 DEF HandleRecord, clientVars, getVars
  <2>2. r.client \in Client
    BY <1>2 DEF Conn
  <2>3. StorersQuiet /\ CollectorsQuiet
    BY <2>1, <2>2, ExitLeaves, ClientsStay DEF VersionInv
  <2>4. RequestsQuiet /\ RecordRequestsQuiet
    BY <1>2, RequestDone
  <2>5. SharesQuiet /\ SplitKept
    BY <1>2 DEF SharesQuiet, SplitKept
  <2>6. SplitsValid'
    BY <1>2 DEF VersionInv, SplitsValid
  <2> QED BY <2>3, <2>4, <2>5, <2>6
<1>5. CASE UNCHANGED <<secrets, secretsDta, acked>>
  <2>1. RecordsQuiet
    BY <1>5 DEF RecordsQuiet, Records
  <2> QED BY <1>2, <1>4, <1>5, <2>1, QuietVersions
<1>6. CASE secrets' = recorded
  <2>1. secrets \in [Host -> [Name -> Record \cup {None}]]
        /\ secretsDta \in [Host -> [Name -> Record \cup {None}]]
    BY DEF StoreInv, SecretStoreTypeOk, ServerTypeOk
  <2>2. \A h \in Host, m \in Name :
          secrets'[h][m] = IF h = p /\ m = n THEN RecordOf(r) ELSE secrets[h][m]
    BY <1>1, <1>3, <1>6, <2>1
  <2>3. \/ /\ \A h \in Host : secretsDta'[h] = IF h = p THEN secrets'[p] ELSE secretsDta[h]
           /\ acked' = acked \/ acked' = acked \cup {r.uuid}
        \/ UNCHANGED <<secretsDta, acked>>
    BY <1>2, <1>6, <2>1
  <2>4. \A h \in Host, m \in Name :
          Records(h, m)' \subseteq
            IF h = p /\ m = n THEN Records(h, m) \cup {RecordOf(r)} ELSE Records(h, m)
    BY <2>2, <2>3 DEF Records
  <2>5. SharesAsSplit' /\ RequestsOwn' /\ OverSettled' /\ CollectedOwn' /\ AskedAnswered'
    BY <1>2, <1>4, SharesStayAsSplit, RequestsStayOwn, StaysOverSettled,
       StaysUnserved, DecodersStay DEF VersionInv
  <2>6. RecordsOwn'
    <3> SUFFICES ASSUME NEW h \in Host, NEW m \in Name, NEW s \in Records(h, m)'
                 PROVE  split[s.uuid] # None /\ split[s.uuid].host = h
                        /\ split[s.uuid].name = m
      BY <1>2 DEF RecordsOwn
    <3>1. s \in Records(h, m) \/ (h = p /\ m = n /\ s = RecordOf(r))
      BY <2>4
    <3>2. CASE s \in Records(h, m)
      BY <3>2 DEF VersionInv, RecordsOwn
    <3>3. CASE h = p /\ m = n /\ s = RecordOf(r)
      BY <1>1, <1>2, <1>3, <3>3
    <3> QED BY <3>1, <3>2, <3>3
  <2>7. PublishedFirst'
    <3> SUFFICES ASSUME NEW e \in Client, pc'[e] = "publish"
                 PROVE  /\ \A h \in Host : conn'[h] # None /\ conn'[h].kind = "record" =>
                              conn'[h].uuid # uuid'[e]
                        /\ \A h \in Host, m \in Name : \A s \in Records(h, m)' :
                              s.uuid # uuid'[e]
                        /\ \A d \in Client : pc'[d] = "collect" => uuid'[d] # uuid'[e]
      BY DEF PublishedFirst
    <3>1. pc[e] = "publish" /\ uuid'[e] = uuid[e]
      BY <1>4 DEF StorersQuiet
    <3>2. /\ \A h \in Host : conn[h] # None /\ conn[h].kind = "record" =>
                conn[h].uuid # uuid[e]
          /\ \A h \in Host, m \in Name : \A s \in Records(h, m) : s.uuid # uuid[e]
          /\ \A d \in Client : pc[d] = "collect" => uuid[d] # uuid[e]
      BY <3>1 DEF VersionInv, PublishedFirst
    <3>3. \A h \in Host : conn'[h] # None /\ conn'[h].kind = "record" =>
            conn'[h].uuid # uuid'[e]
      BY <1>4, <3>1, <3>2 DEF RecordRequestsQuiet
    <3>4. RecordOf(r).uuid # uuid[e]
      BY <1>1, <1>2, <3>2
    <3>5. \A h \in Host, m \in Name : \A s \in Records(h, m)' : s.uuid # uuid'[e]
      <4> SUFFICES ASSUME NEW h \in Host, NEW m \in Name, NEW s \in Records(h, m)'
                   PROVE  s.uuid # uuid'[e]
        OBVIOUS
      <4>1. s \in Records(h, m) \/ s = RecordOf(r)
        BY <2>4
      <4> QED BY <3>1, <3>2, <3>4, <4>1
    <3>6. \A d \in Client : pc'[d] = "collect" => uuid'[d] # uuid'[e]
      BY <1>4, <3>1, <3>2 DEF CollectorsQuiet, CollectorQuiet
    <3> QED BY <3>3, <3>5, <3>6
  <2>8. AckedLast'
    <3> SUFFICES ASSUME NEW v \in acked'
                 PROVE  split[v] # None /\ \A w \in split[v].over :
                          split[w].host = split[v].host /\ split[w].name = split[v].name =>
                            /\ \A s \in Records(split[v].host, split[v].name)' : s.uuid # w
                            /\ \A h \in Host : conn'[h] # None /\ conn'[h].kind = "record" =>
                                  conn'[h].uuid # w
      BY <1>2 DEF AckedLast, Records
    <3>1. split[v] # None /\ v \in UUID
      BY <1>3, <2>3 DEF StoreInv, SecretStoreTypeOk, VersionInv, AckedLast
    <3> SUFFICES ASSUME NEW w \in split[v].over,
                        split[w].host = split[v].host, split[w].name = split[v].name
                 PROVE  /\ \A s \in Records(split[v].host, split[v].name)' : s.uuid # w
                        /\ \A h \in Host : conn'[h] # None /\ conn'[h].kind = "record" =>
                              conn'[h].uuid # w
      BY <3>1
    <3>2. split[v].host \in Host /\ split[v].name \in Name /\ w \in UUID /\ w # v
          /\ split[w] # None
      BY <3>1 DEF StoreInv, SecretStoreTypeOk, Split, VersionInv, OverSettled
    <3>3. PICK g, m : g = split[v].host /\ m = split[v].name
      OBVIOUS
    <3>4. g \in Host /\ m \in Name
      BY <3>2, <3>3
    <3>5. CASE v \in acked
      <4>1. /\ \A s \in Records(split[v].host, split[v].name) : s.uuid # w
            /\ \A h \in Host : conn[h] # None /\ conn[h].kind = "record" => conn[h].uuid # w
        BY <3>5 DEF VersionInv, AckedLast
      <4>2. RecordOf(r).uuid # w
        BY <1>1, <1>2, <4>1
      <4>3. Records(g, m)' \subseteq Records(g, m) \cup {RecordOf(r)}
        BY <2>4, <3>4
      <4>4. \A s \in Records(g, m)' : s.uuid # w
        BY <3>3, <4>1, <4>2, <4>3
      <4>5. \A s \in Records(split[v].host, split[v].name)' : s.uuid # w
        BY <1>2, <3>3, <4>4 DEF Records
      <4>6. \A h \in Host : conn'[h] # None /\ conn'[h].kind = "record" => conn'[h].uuid # w
        BY <1>4, <4>1 DEF RecordRequestsQuiet
      <4> QED BY <4>5, <4>6
    <3>6. CASE v \notin acked
      <4>1. /\ v = r.uuid
            /\ \A h \in Host : secretsDta'[h] = IF h = p THEN secrets'[p] ELSE secretsDta[h]
        BY <2>3, <3>6
      <4>2. g = p /\ m = n
        BY <1>1, <1>3, <3>3, <4>1
      <4>3. Records(g, m)' \subseteq {RecordOf(r)}
        BY <1>3, <2>2, <4>1, <4>2 DEF Records
      <4>4. RecordOf(r).uuid # w
        BY <1>2, <3>2, <4>1
      <4>5. \A s \in Records(split[v].host, split[v].name)' : s.uuid # w
        BY <1>2, <3>3, <4>3, <4>4 DEF Records
      <4>6. ASSUME NEW h \in Host, conn'[h] # None, conn'[h].kind = "record"
            PROVE  conn'[h].uuid # w
        <5>1. /\ conn[h] # None /\ conn[h].kind = "record" /\ conn'[h].uuid = conn[h].uuid
              /\ h # p
          BY <1>2, <1>4, <4>6 DEF RecordRequestsQuiet, StoreInv, SecretStoreTypeOk
        <5>2. split[conn[h].uuid].host = h
          BY <5>1 DEF VersionInv, RequestsOwn
        <5> QED BY <3>3, <4>2, <5>1, <5>2
      <4> QED BY <4>5, <4>6
    <3> QED BY <3>5, <3>6
  <2> QED BY <1>4, <2>5, <2>6, <2>7, <2>8 DEF VersionInv
<1> QED BY <1>2, <1>5, <1>6

LEMMA CrashStartKeepVersions ==
  ASSUME StoreInv, VersionInv, NEW h \in Host, Crash(h) \/ Start(h)
  PROVE  VersionInv'
<1>1. UNCHANGED <<split, acked, pc, uuid, todo, got, asked, missed, result>>
  BY DEF Crash, Start, clientVars, getVars
<1>2. ServerTypeOk /\ DiskInMemory
  BY DEF StoreInv, SecretStoreTypeOk
<1>3. RequestsQuiet
  <2>1. CASE Crash(h)
    BY <2>1, RequestDone DEF Crash
  <2>2. CASE Start(h)
    BY <2>2 DEF Start, RequestsQuiet
  <2> QED BY <2>1, <2>2
<1>4. SharesQuiet /\ RecordsQuiet
  <2>1. CASE Crash(h)
    <3>1. CrashServer(h)
      BY <2>1 DEF Crash
    <3> QED BY <1>2, <3>1, CrashSafe DEF SharesQuiet, RecordsQuiet, Records
  <2>2. CASE Start(h)
    <3>1. StartServer(h)
      BY <2>2 DEF Start
    <3> QED BY <1>2, <3>1, StartSafe DEF SharesQuiet, RecordsQuiet, Records
  <2> QED BY <2>1, <2>2
<1>5. StorersQuiet /\ CollectorsQuiet
  BY <1>1, ClientsStay DEF VersionInv
<1> QED BY <1>1, <1>3, <1>4, <1>5, QuietVersions

-----------------------------------------------------------------------------
(* The theorems.                                                            *)

LEMMA VersionInit == Init => VersionInv
<1> SUFFICES ASSUME Init PROVE VersionInv
  OBVIOUS
<1>1. /\ split = [u \in UUID |-> None] /\ conn = [h \in Host |-> None] /\ acked = {}
      /\ pc = [c \in Client |-> "idle"] /\ got = [c \in Client |-> {}]
      /\ \A p \in Host, u \in UUID : shares[p][u] = None /\ sharesDta[p][u] = None
      /\ \A h \in Host, n \in Name : secrets[h][n] = None /\ secretsDta[h][n] = None
  BY DEF Init, ServerInit, EmptyShares, EmptySecrets
<1> QED BY <1>1 DEF VersionInv, SplitsValid, SharesAsSplit, RequestsOwn, RecordsOwn, Records,
        PublishedFirst, CollectedOwn, CollectedBy, AskedAnswered, AnsweredTo,
        OverSettled, AckedLast, Storing

LEMMA VersionStep ==
  ASSUME StoreInv, VersionInv, [Next]_vars
  PROVE  VersionInv'
<1>1. ASSUME NEW c \in Client, NEW n \in Name, NEW u \in UUID, NEW targets \in SUBSET Host,
             NEW t \in Treshold, StoreSecret(c, n, u, targets, t)
      PROVE  VersionInv'
  BY <1>1, StoreSecretKeeps
<1>2. ASSUME NEW c \in Client, QuietServers(c)
      PROVE  VersionInv'
  BY <1>2, ClientLeaves, LookupKeeps, FetchShareKeeps, MissPeerKeeps DEF QuietServers
<1>3. ASSUME NEW c \in Client, SendRecord(c) \/ \E p \in Host : SendShare(c, p)
      PROVE  VersionInv'
  BY <1>3, SendKeeps, DeploymentAssumption
<1>4. ASSUME NEW p \in Host, NEW status, HandleShare(p, status)
      PROVE  VersionInv'
  BY <1>4, HandleShareKeepsVersions
<1>5. ASSUME NEW p \in Host, NEW status \in {201, 403, 500}, HandleRecord(p, status)
      PROVE  VersionInv'
  BY <1>5, HandleRecordKeepsVersions
<1>6. ASSUME NEW h \in Host, Crash(h) \/ Start(h)
      PROVE  VersionInv'
  BY <1>6, CrashStartKeepVersions
<1>7. CASE UNCHANGED vars
  <2>1. UNCHANGED <<serverVars, conn, split, acked, pc, uuid, todo, got, asked, missed, result>>
    BY <1>7 DEF vars, clientVars, getVars
  <2>2. SharesQuiet /\ RecordsQuiet /\ RequestsQuiet /\ StorersQuiet /\ CollectorsQuiet
    BY <2>1, ServersLeft, ClientsStay DEF RequestsQuiet, VersionInv
  <2> QED BY <2>1, <2>2, QuietVersions
<1>8. CASE Next
  BY <1>1, <1>2, <1>3, <1>4, <1>5, <1>6, <1>8, StepKinds
<1> QED BY <1>7, <1>8

LEMMA VersionInvariant == Spec => [](StoreInv /\ VersionInv)
<1>1. Init => VersionInv
  BY VersionInit
<1>2. StoreInv /\ VersionInv /\ [Next]_vars => VersionInv'
  BY VersionStep
<1> QED BY <1>1, <1>2, StoreInvariant, PTL DEF Spec

\* Once store-secret printed OK for a version, no version that was over before
\* it was split is on record, in memory or in secrets.dta: no late request,
\* failed save or restart brings it back.
THEOREM NothingStale == Spec => []NoStaleRecord
<1>1. VersionInv => NoStaleRecord
  BY DEF VersionInv, AckedLast, NoStaleRecord
<1> QED BY <1>1, VersionInvariant, PTL

\* A decoder of get-secret that is ready holds exactly a treshold of different
\* shares, as they were split, of a version of its own host and the name it
\* was asked for.
THEOREM DecoderHoldsOwn == Spec => []DecodesOwnVersion
<1>1. StoreInv /\ VersionInv => DecodesOwnVersion
  <2> SUFFICES ASSUME StoreInv, VersionInv, NEW c \in Client, ReadyToDecode(got[c])
               PROVE  /\ split[uuid[c]].host = HostOf[c] /\ split[uuid[c]].name = asked[c]
                      /\ Cardinality({d.x : d \in got[c]}) = split[uuid[c]].treshold
                      /\ \A d \in got[c] : d = ShareFor(uuid[c], d.x)
    BY DEF DecodesOwnVersion
  <2>1. PICK e \in got[c] : Cardinality(got[c]) >= e.treshold
    BY DEF ReadyToDecode
  <2>2. /\ pc[c] = "collect" /\ uuid[c] \in UUID /\ split[uuid[c]] # None
        /\ split[uuid[c]].host = HostOf[c] /\ split[uuid[c]].name = asked[c]
        /\ \A d \in got[c] : d = ShareFor(uuid[c], d.x)
        /\ IsFiniteSet(got[c]) /\ Cardinality(got[c]) <= split[uuid[c]].treshold
    BY <2>1 DEF VersionInv, CollectedOwn, CollectedBy, StoreInv, SecretStoreTypeOk
  <2>3. e.treshold = split[uuid[c]].treshold
    BY <2>2 DEF ShareFor, Column
  <2>4. split[uuid[c]].treshold \in Nat
    BY <2>2 DEF StoreInv, SecretStoreTypeOk, Split
  <2>5. Cardinality(got[c]) = split[uuid[c]].treshold
    BY <2>1, <2>2, <2>3, <2>4, FS_CardinalityType
  <2>6. Cardinality({d.x : d \in got[c]}) = Cardinality(got[c])
    <3> DEFINE f == [d \in got[c] |-> d.x]
    <3>1. f \in Bijection(got[c], {d.x : d \in got[c]})
      BY <2>2 DEF Bijection, Injection, Surjection, IsInjective
    <3>2. ExistsBijection(got[c], {d.x : d \in got[c]})
      BY <3>1 DEF ExistsBijection
    <3> QED BY <2>2, <3>2, FS_Bijection
  <2> QED BY <2>2, <2>5, <2>6
<1> QED BY <1>1, VersionInvariant, PTL

\* Every holder that was not missed gave its share; the decoder has all of
\* these, and they are fewer than it needs.
LEMMA HoldersAnswered ==
  ASSUME StoreInv, VersionInv, NEW c \in Client,
         pc[c] = "collect", todo[c] = {}, ~ReadyToDecode(got[c])
  PROVE  Cardinality(Holders(uuid[c]) \ missed[c]) < split[uuid[c]].treshold
<1> DEFINE u == uuid[c]
<1> DEFINE present == Holders(u) \ missed[c]
<1> DEFINE given == {ShareFor(u, p) : p \in present}
<1>1. /\ CollectedBy(c) /\ AnsweredTo(c) /\ u \in UUID
      /\ split[u] # None /\ split[u].host = HostOf[c] /\ split[u] \in Split
      /\ \A d \in got[c] : d = ShareFor(u, d.x)
      /\ IsFiniteSet(got[c])
  BY DEF VersionInv, CollectedOwn, AskedAnswered, CollectedBy, StoreInv, SecretStoreTypeOk
<1>2. /\ split[u].treshold \in Nat /\ 2 <= split[u].treshold
      /\ Cardinality(got[c]) \in Nat
  BY <1>1, FS_CardinalityType DEF Split, VersionInv, SplitsValid
<1>3. Cardinality(got[c]) < split[u].treshold
  <2>1. CASE got[c] = {}
    BY <1>2, <2>1, FS_EmptySet
  <2>2. ASSUME NEW e \in got[c] PROVE Cardinality(got[c]) < split[u].treshold
    <3>1. e.treshold = split[u].treshold
      BY <1>1 DEF ShareFor, Column
    <3>2. ~(Cardinality(got[c]) >= e.treshold)
      BY DEF ReadyToDecode
    <3> QED BY <1>2, <3>1, <3>2
  <2> QED BY <2>1, <2>2
<1>4. given \subseteq got[c]
  <2> SUFFICES ASSUME NEW p \in present PROVE ShareFor(u, p) \in got[c]
    OBVIOUS
  <2>1. p \in Host /\ sharesDta[p][u] # None /\ p \notin missed[c]
    BY DEF Holders
  <2>2. p \in TrustedPeers(HostOf[c])
    BY <1>1, <2>1 DEF VersionInv, SharesAsSplit
  <2>3. ~Unserved(p, u)
    BY <2>1 DEF Unserved, NotYetSeen
  <2> QED BY <1>1, <2>1, <2>2, <2>3 DEF AnsweredTo
<1>5. IsFiniteSet(present)
  BY DeploymentAssumption, FS_Subset DEF Holders
<1>6. Cardinality(present) = Cardinality(given)
  <2> DEFINE f == [p \in present |-> ShareFor(u, p)]
  <2>1. f \in Bijection(present, given)
    BY DEF Bijection, Injection, Surjection, IsInjective, ShareFor, Column
  <2>2. ExistsBijection(present, given)
    BY <2>1 DEF ExistsBijection
  <2> HIDE DEF present, given
  <2> QED BY <1>5, <2>2, FS_Bijection
<1>7. /\ Cardinality(given) \in Nat
      /\ Cardinality(given) <= Cardinality(got[c])
  <2> HIDE DEF given
  <2> QED BY <1>1, <1>4, FS_Subset, FS_CardinalityType
<1> HIDE DEF u, present, given
<1> QED BY <1>2, <1>3, <1>6, <1>7 DEF u, present

\* A step that says "toofew" to a client that collects is its own last one.
LEMMA TooFewIsLast ==
  ASSUME StoreInv, VersionInv, [Next]_vars,
         NEW c \in Client, pc[c] = "collect", result'[c] = "toofew"
  PROVE  todo[c] = {} /\ ~ReadyToDecode(got[c])
<1>0. result[c] # "toofew"
  BY DEF VersionInv, CollectedOwn, CollectedBy
<1>1. \A d \in Client : \A outcome :
        Exit(d, outcome) => result'[c] = IF d = c THEN outcome ELSE result[c]
  BY DEF Exit, StoreInv, SecretStoreTypeOk
<1>2. ASSUME NEW d \in Client, NEW n \in Name, NEW u \in UUID, NEW targets \in SUBSET Host,
             NEW t \in Treshold, StoreSecret(d, n, u, targets, t)
      PROVE  FALSE
  <2>1. result' = [result EXCEPT ![d] = "none"]
    BY <1>2 DEF StoreSecret
  <2> QED BY <1>0, <2>1 DEF StoreInv, SecretStoreTypeOk
<1>3. ASSUME UNCHANGED result PROVE FALSE
  BY <1>0, <1>3
<1>4. ASSUME NEW d \in Client, QuietServers(d)
      PROVE  todo[c] = {} /\ ~ReadyToDecode(got[c])
  <2>1. ASSUME NEW p \in Host, SkipPeer(d, p) \/ FetchShare(d, p) \/ MissPeer(d, p)
        PROVE  FALSE
    BY <1>3, <2>1 DEF SkipPeer, FetchShare, MissPeer
  <2>2. CASE GiveUpShare(d)
    BY <1>3, <2>2 DEF GiveUpShare
  <2>3. CASE FinishPublishing(d)
    BY <1>0, <1>1, <2>3 DEF FinishPublishing
  <2>4. CASE GiveUpRecord(d)
    BY <1>0, <1>1, <2>4 DEF GiveUpRecord
  <2>5. CASE FinishGet(d)
    <3>1. CASE ReadyToDecode(got[d]) /\ Exit(d, IF Decodes(got[d]) THEN "got" ELSE "garbled")
      BY <1>0, <1>1, <3>1
    <3>2. CASE ~ReadyToDecode(got[d]) /\ todo[d] = {} /\ Exit(d, "toofew")
      BY <1>0, <1>1, <3>2
    <3> QED BY <2>5, <3>1, <3>2 DEF FinishGet
  <2>6. CASE Kill(d)
    BY <1>0, <1>1, <2>6 DEF Kill
  <2>7. ASSUME NEW n \in Name, Lookup(d, n) PROVE FALSE
    <3>1. Exit(d, "nometadata") \/ result' = [result EXCEPT ![d] = "none"]
      BY <2>7 DEF Lookup
    <3>2. CASE Exit(d, "nometadata")
      BY <1>0, <1>1, <3>2
    <3>3. CASE result' = [result EXCEPT ![d] = "none"]
      BY <1>0, <3>3 DEF StoreInv, SecretStoreTypeOk
    <3> QED BY <3>1, <3>2, <3>3
  <2> QED BY <1>4, <2>1, <2>2, <2>3, <2>4, <2>5, <2>6, <2>7 DEF QuietServers
<1>5. ASSUME NEW d \in Client, SendRecord(d) \/ \E p \in Host : SendShare(d, p)
      PROVE  FALSE
  BY <1>3, <1>5 DEF SendRecord, SendShare
<1>6. ASSUME NEW p \in Host, NEW status, HandleShare(p, status)
      PROVE  FALSE
  BY <1>3, <1>6 DEF HandleShare
<1>7. ASSUME NEW p \in Host, NEW status \in {201, 403, 500}, HandleRecord(p, status)
      PROVE  FALSE
  <2>1. conn[p].client \in Client
    BY <1>7 DEF HandleRecord, StoreInv, SecretStoreTypeOk, Conn
  <2>2. CASE Exit(conn[p].client, IF Confirms(status) THEN "stored" ELSE "unrecorded")
    BY <1>0, <1>1, <2>1, <2>2
  <2>3. CASE UNCHANGED clientVars
    BY <1>3, <2>3 DEF clientVars
  <2> QED BY <1>7, <2>2, <2>3 DEF HandleRecord
<1>8. ASSUME NEW h \in Host, Crash(h) \/ Start(h)
      PROVE  FALSE
  BY <1>3, <1>8 DEF Crash, Start, clientVars
<1>9. CASE UNCHANGED vars
  BY <1>3, <1>9 DEF vars, clientVars
<1>10. CASE Next
  BY <1>2, <1>4, <1>5, <1>6, <1>7, <1>8, <1>10, StepKinds
<1> QED BY <1>9, <1>10

\* get-secret gives up only when fewer than treshold of the peers that hold a
\* share of the version answered it.
THEOREM MissingPeersTolerated == Spec => GetToleratesMissingPeers
<1>1. StoreInv /\ VersionInv /\ [Next]_vars =>
        [\A c \in Client :
            pc[c] = "collect" /\ result'[c] = "toofew" =>
                Cardinality(Holders(uuid[c]) \ missed[c]) < split[uuid[c]].treshold]_vars
  BY HoldersAnswered, TooFewIsLast
<1> QED BY <1>1, VersionInvariant, PTL DEF Spec, GetToleratesMissingPeers

-----------------------------------------------------------------------------
(***************************************************************************)
(* Part 4: commands come to an end.  ToGo bounds what a command has left to *)
(* do; every step it takes makes it less, and nobody else's makes it more.  *)
(***************************************************************************)

\* No step concerns this command.
Still(c) == UNCHANGED <<pc[c], uuid[c], todo[c], wait[c], saved[c], got[c], missed[c]>>

LEMMA ToGoIs ==
  ASSUME SecretStoreTypeOk, NEW c \in Client
  PROVE  /\ Cardinality(todo[c]) \in Nat /\ ToGo(c) \in Nat
         /\ pc[c] = "publish" =>
              ToGo(c) = 2 * Cardinality(todo[c]) + (IF wait[c] = None THEN 3 ELSE 4)
         /\ pc[c] = "record" => ToGo(c) = IF wait[c] = None THEN 2 ELSE 1
         /\ pc[c] = "collect" => ToGo(c) = Cardinality(todo[c]) + 1
         /\ pc[c] = "idle" <=> ToGo(c) = 0
<1>1. todo[c] \subseteq Host /\ pc[c] \in {"idle", "publish", "record", "collect"}
  BY DEF SecretStoreTypeOk
<1>2. Cardinality(todo[c]) \in Nat
  BY <1>1, DeploymentAssumption, FS_Subset, FS_CardinalityType
<1> QED BY <1>1, <1>2 DEF ToGo

\* The same after a step.
LEMMA ToGoWillBe ==
  ASSUME SecretStoreTypeOk', NEW c \in Client
  PROVE  /\ Cardinality(todo'[c]) \in Nat /\ ToGo(c)' \in Nat
         /\ pc'[c] = "publish" =>
              ToGo(c)' = 2 * Cardinality(todo'[c]) + (IF wait'[c] = None THEN 3 ELSE 4)
         /\ pc'[c] = "record" => ToGo(c)' = IF wait'[c] = None THEN 2 ELSE 1
         /\ pc'[c] = "collect" => ToGo(c)' = Cardinality(todo'[c]) + 1
         /\ pc'[c] = "idle" <=> ToGo(c)' = 0
<1>1. todo'[c] \subseteq Host /\ pc'[c] \in {"idle", "publish", "record", "collect"}
  BY DEF SecretStoreTypeOk
<1>2. Cardinality(todo'[c]) \in Nat
  BY <1>1, DeploymentAssumption, FS_Subset, FS_CardinalityType
<1> QED BY <1>1, <1>2 DEF ToGo

\* One peer less.
LEMMA PeerDone ==
  ASSUME SecretStoreTypeOk, NEW c \in Client, NEW p \in todo[c],
         todo' = [todo EXCEPT ![c] = @ \ {p}]
  PROVE  Cardinality(todo'[c]) = Cardinality(todo[c]) - 1
<1>1. IsFiniteSet(todo[c]) /\ todo'[c] = todo[c] \ {p}
  BY DeploymentAssumption, FS_Subset DEF SecretStoreTypeOk
<1> QED BY <1>1, FS_RemoveElement

\* The end is the least.
LEMMA EndIsLeast ==
  ASSUME SecretStoreTypeOk, SecretStoreTypeOk', NEW c \in Client,
         pc[c] # "idle", pc'[c] = "idle"
  PROVE  ToGo(c)' < ToGo(c)
<1>1. ToGo(c)' = 0
  BY ToGoWillBe
<1>2. ToGo(c) \in Nat /\ ToGo(c) # 0
  BY ToGoIs
<1> QED BY <1>1, <1>2

LEMMA ClientAdvances ==
  ASSUME StoreInv, StoreInv', NEW c \in Client, ClientStep(c)
  PROVE  pc[c] # "idle" /\ ToGo(c)' < ToGo(c)
<1>0. SecretStoreTypeOk /\ SecretStoreTypeOk'
  BY DEF StoreInv
<1>1. pc[c] # "idle"
  BY DEF ClientStep, SendShare, SkipPeer, GiveUpShare, FinishPublishing, SendRecord,
     GiveUpRecord, FetchShare, MissPeer, FinishGet
<1>2. ASSUME NEW outcome, Exit(c, outcome) PROVE ToGo(c)' < ToGo(c)
  <2>1. pc'[c] = "idle"
    BY <1>0, <1>2 DEF Exit, SecretStoreTypeOk
  <2> QED BY <1>0, <1>1, <2>1, EndIsLeast
<1> DEFINE n == Cardinality(todo[c])
<1> DEFINE m == Cardinality(todo'[c])
<1>3. n \in Nat /\ m \in Nat
  BY <1>0, ToGoIs, ToGoWillBe
<1>4. ASSUME NEW p \in Host, SendShare(c, p) PROVE ToGo(c)' < ToGo(c)
  <2>1. m = n - 1
    BY <1>0, <1>4, PeerDone DEF SendShare
  <2>2. /\ pc[c] = "publish" /\ pc'[c] = "publish" /\ wait[c] = None /\ wait'[c] # None
    BY <1>0, <1>4, DeploymentAssumption DEF SendShare, SecretStoreTypeOk
  <2>3. ToGo(c) = 2 * n + 3 /\ ToGo(c)' = 2 * m + 4
    BY <1>0, <2>2, ToGoIs, ToGoWillBe
  <2> HIDE DEF n, m
  <2> QED BY <1>3, <2>1, <2>3
<1>5. ASSUME NEW p \in Host, SkipPeer(c, p) PROVE ToGo(c)' < ToGo(c)
  <2>1. m = n - 1
    BY <1>0, <1>5, PeerDone DEF SkipPeer
  <2>2. pc[c] = "publish" /\ pc'[c] = "publish" /\ wait[c] = None /\ wait'[c] = None
    BY <1>5 DEF SkipPeer
  <2>3. ToGo(c) = 2 * n + 3 /\ ToGo(c)' = 2 * m + 3
    BY <1>0, <2>2, ToGoIs, ToGoWillBe
  <2> HIDE DEF n, m
  <2> QED BY <1>3, <2>1, <2>3
<1>6. CASE GiveUpShare(c)
  <2>1. pc[c] = "publish" /\ pc'[c] = "publish" /\ wait[c] # None /\ wait'[c] = None
    BY <1>0, <1>6 DEF GiveUpShare, Abandon, SecretStoreTypeOk
  <2>2. m = n
    BY <1>6 DEF GiveUpShare
  <2>3. ToGo(c) = 2 * n + 4 /\ ToGo(c)' = 2 * m + 3
    BY <1>0, <2>1, ToGoIs, ToGoWillBe
  <2> HIDE DEF n, m
  <2> QED BY <1>1, <1>3, <2>2, <2>3
<1>7. CASE FinishPublishing(c)
  <2>1. CASE Exit(c, "notsafe")
    BY <1>1, <1>2, <2>1
  <2>2. CASE pc' = [pc EXCEPT ![c] = "record"]
    <3>1. pc[c] = "publish" /\ pc'[c] = "record" /\ wait[c] = None /\ wait'[c] = None
      BY <1>0, <1>7, <2>2 DEF FinishPublishing, SecretStoreTypeOk
    <3>2. ToGo(c) = 2 * n + 3 /\ ToGo(c)' = 2
      BY <1>0, <3>1, ToGoIs, ToGoWillBe
    <3> HIDE DEF n, m
    <3> QED BY <1>1, <1>3, <3>2
  <2> QED BY <1>7, <2>1, <2>2 DEF FinishPublishing
<1>8. CASE SendRecord(c)
  <2>1. pc[c] = "record" /\ pc'[c] = "record" /\ wait[c] = None /\ wait'[c] # None
    BY <1>0, <1>8, DeploymentAssumption DEF SendRecord, SecretStoreTypeOk
  <2>2. ToGo(c) = 2 /\ ToGo(c)' = 1
    BY <1>0, <2>1, ToGoIs, ToGoWillBe
  <2> QED BY <1>1, <2>2
<1>9. CASE GiveUpRecord(c)
  BY <1>1, <1>2, <1>9 DEF GiveUpRecord
<1>10. ASSUME NEW p \in Host, FetchShare(c, p) \/ MissPeer(c, p) PROVE ToGo(c)' < ToGo(c)
  <2>1. m = n - 1
    BY <1>0, <1>10, PeerDone DEF FetchShare, MissPeer
  <2>2. pc[c] = "collect" /\ pc'[c] = "collect"
    BY <1>10 DEF FetchShare, MissPeer
  <2>3. ToGo(c) = n + 1 /\ ToGo(c)' = m + 1
    BY <1>0, <2>2, ToGoIs, ToGoWillBe
  <2> HIDE DEF n, m
  <2> QED BY <1>3, <2>1, <2>3
<1>11. CASE FinishGet(c)
  BY <1>1, <1>2, <1>11 DEF FinishGet
<1> QED BY <1>1, <1>4, <1>5, <1>6, <1>7, <1>8, <1>9, <1>10, <1>11 DEF ClientStep

\* A command that ends leaves the others where they are.
LEMMA OthersStill ==
  ASSUME SecretStoreTypeOk, NEW c \in Client, NEW d \in Client, d # c, NEW outcome,
         Exit(d, outcome), wait' = [wait EXCEPT ![d] = None]
  PROVE  Still(c)
BY DEF Exit, Still, SecretStoreTypeOk

\* A client that waits for the answer to a share is still publishing.
LiveSharesSound ==
    \A h \in Host : conn[h] # None /\ conn[h].live /\ conn[h].kind = "share" =>
        pc[conn[h].client] = "publish"

LEMMA LiveSharesStep ==
  ASSUME StoreInv, StoreInv', LiveSharesSound, [Next]_vars
  PROVE  LiveSharesSound'
<1> USE DEF getVars
<1>0. SecretStoreTypeOk /\ SecretStoreTypeOk'
  BY DEF StoreInv
<1> SUFFICES ASSUME NEW h \in Host, conn'[h] # None, conn'[h].live, conn'[h].kind = "share"
             PROVE  pc'[conn'[h].client] = "publish"
  BY DEF LiveSharesSound
<1> DEFINE d == conn'[h].client
<1>1. d \in Client /\ wait'[d] = h /\ pc'[d] \in {"publish", "record"}
  BY <1>0 DEF SecretStoreTypeOk, StoreInv, ConnectionsSound, Storing, Conn
<1>2. \/ conn[h] # None /\ conn[h].live /\ conn[h].kind = "share" /\ conn[h].client = d
      \/ \E p \in Host : SendShare(d, p)
  <2>1. CASE conn' = conn
    BY <2>1
  <2>2. ASSUME NEW p \in Host, conn' = [conn EXCEPT ![p] = None]
        PROVE  conn[h] # None /\ conn[h].live /\ conn[h].kind = "share" /\ conn[h].client = d
    BY <1>0, <2>2 DEF SecretStoreTypeOk
  <2>3. ASSUME NEW c \in Client, Abandon(c)
        PROVE  conn[h] # None /\ conn[h].live /\ conn[h].kind = "share" /\ conn[h].client = d
    <3>1. conn'[h] = IF wait[c] = h /\ conn[h] # None /\ conn[h].client = c
                     THEN [conn[h] EXCEPT !.live = FALSE] ELSE conn[h]
      BY <2>3 DEF Abandon
    <3>2. conn[h] \in Conn \cup {None}
      BY <1>0 DEF SecretStoreTypeOk
    <3> QED BY <3>1, <3>2 DEF Conn
  <2>4. ASSUME NEW c \in Client, NEW p \in Host, SendShare(c, p)
        PROVE  \/ conn[h] # None /\ conn[h].live /\ conn[h].kind = "share" /\ conn[h].client = d
               \/ c = d
    BY <1>0, <2>4 DEF SendShare, SecretStoreTypeOk
  <2>5. ASSUME NEW c \in Client, SendRecord(c)
        PROVE  conn[h] # None /\ conn[h].live /\ conn[h].kind = "share" /\ conn[h].client = d
    BY <1>0, <2>5 DEF SendRecord, SecretStoreTypeOk
  <2>6. CASE UNCHANGED vars
    BY <2>1, <2>6 DEF vars
  <2> HIDE DEF d
  <2>7. ASSUME NEW c \in Client, QuietServers(c)
        PROVE  conn' = conn \/ Abandon(c)
    BY <2>7 DEF QuietServers, SkipPeer, FetchShare, MissPeer, GiveUpShare, FinishPublishing,
       GiveUpRecord, FinishGet, Kill, Lookup
  <2>8. ASSUME NEW p \in Host,
               \/ \E status \in {200, 201, 403, 409, 500} : HandleShare(p, status)
               \/ \E status \in {201, 403, 500} : HandleRecord(p, status)
               \/ Crash(p) \/ Start(p)
        PROVE  conn' = conn \/ conn' = [conn EXCEPT ![p] = None]
    BY <2>8 DEF HandleShare, HandleRecord, Crash, Start
  <2>9. ASSUME NEW c \in Client, NEW n \in Name, NEW u \in UUID, NEW targets \in SUBSET Host,
               NEW t \in Treshold, StoreSecret(c, n, u, targets, t)
        PROVE  conn' = conn
    BY <2>9 DEF StoreSecret
  <2>10. CASE Next
    BY <2>1, <2>2, <2>3, <2>4, <2>5, <2>7, <2>8, <2>9, <2>10, StepKinds
  <2> QED BY <2>6, <2>10
<1>3. ASSUME NEW p \in Host, SendShare(d, p) PROVE pc'[d] = "publish"
  BY <1>3 DEF SendShare
<1>4. CASE conn[h] # None /\ conn[h].live /\ conn[h].kind = "share" /\ conn[h].client = d
  <2>1. pc[d] = "publish" /\ wait[d] = h /\ wait[d] # None
    BY <1>4, DeploymentAssumption DEF LiveSharesSound, StoreInv, ConnectionsSound
  <2> HIDE DEF d
  <2>2. ASSUME pc'[d] = "record" PROVE FALSE
    <3>1. ASSUME NEW c \in Client, QuietServers(c) PROVE FALSE
      BY <1>0, <1>1, <2>1, <2>2, <3>1 DEF QuietServers, SkipPeer, FetchShare, MissPeer,
         GiveUpShare, FinishPublishing, GiveUpRecord, FinishGet, Kill, Lookup, Exit,
         SecretStoreTypeOk
    <3>2. ASSUME NEW c \in Client, SendRecord(c) \/ \E p \in Host : SendShare(c, p)
          PROVE  FALSE
      BY <2>1, <2>2, <3>2 DEF SendRecord, SendShare
    <3>3. ASSUME NEW c \in Client, NEW n \in Name, NEW u \in UUID,
                 NEW targets \in SUBSET Host, NEW t \in Treshold,
                 StoreSecret(c, n, u, targets, t)
          PROVE  FALSE
      BY <1>0, <1>1, <2>1, <2>2, <3>3 DEF StoreSecret, SecretStoreTypeOk
    <3>4. ASSUME NEW p \in Host,
                 \/ \E status \in {200, 201, 403, 409, 500} : HandleShare(p, status)
                 \/ \E status \in {201, 403, 500} : HandleRecord(p, status)
                 \/ Crash(p) \/ Start(p)
          PROVE  FALSE
      <4>1. ASSUME NEW status \in {200, 201, 403, 409, 500}, HandleShare(p, status)
            PROVE  FALSE
        BY <2>1, <2>2, <4>1 DEF HandleShare
      <4>2. ASSUME NEW status \in {201, 403, 500}, HandleRecord(p, status) PROVE FALSE
        BY <1>0, <1>1, <2>1, <2>2, <4>2 DEF HandleRecord, Exit, clientVars, SecretStoreTypeOk
      <4>3. CASE Crash(p) \/ Start(p)
        BY <2>1, <2>2, <4>3 DEF Crash, Start, clientVars
      <4> QED BY <3>4, <4>1, <4>2, <4>3
    <3>7. CASE UNCHANGED vars
      BY <2>1, <2>2, <3>7 DEF vars, clientVars
    <3>8. CASE Next
      BY <3>1, <3>2, <3>3, <3>4, <3>8, StepKinds
    <3> QED BY <3>7, <3>8
  <2> QED BY <1>1, <2>2 DEF d
<1> QED BY <1>2, <1>3, <1>4

LEMMA LiveSharesInvariant == Spec => []LiveSharesSound
<1>1. Init => LiveSharesSound
  BY DEF Init, LiveSharesSound
<1>2. StoreInv /\ StoreInv' /\ LiveSharesSound /\ [Next]_vars => LiveSharesSound'
  BY LiveSharesStep
<1> QED BY <1>1, <1>2, StoreInvariant, PTL DEF Spec

\* What happens to a command that runs.
LEMMA CommandAdvances ==
  ASSUME StoreInv, StoreInv', LiveSharesSound, [Next]_vars, NEW c \in Client, pc[c] # "idle"
  PROVE  ToGo(c)' < ToGo(c) \/ Still(c)
<1> USE DEF getVars
<1>0. SecretStoreTypeOk /\ SecretStoreTypeOk'
  BY DEF StoreInv
<1>1. ASSUME NEW d \in Client, ClientStep(d) PROVE ToGo(c)' < ToGo(c) \/ Still(c)
  <2>1. CASE d = c
    BY <1>1, <2>1, ClientAdvances
  <2>2. CASE d # c
    <3>1. CASE \E p \in Host : SendShare(d, p) \/ SkipPeer(d, p) \/ FetchShare(d, p)
                              \/ MissPeer(d, p)
      BY <1>0, <2>2, <3>1 DEF SendShare, SkipPeer, FetchShare, MissPeer, Still,
         SecretStoreTypeOk
    <3>2. CASE GiveUpShare(d) \/ SendRecord(d)
      BY <1>0, <2>2, <3>2 DEF GiveUpShare, Abandon, SendRecord, Still, SecretStoreTypeOk
    <3>3. CASE FinishPublishing(d) \/ FinishGet(d)
      BY <1>0, <2>2, <3>3 DEF FinishPublishing, FinishGet, Exit, Still, SecretStoreTypeOk
    <3>4. CASE GiveUpRecord(d)
      BY <1>0, <2>2, <3>4, OthersStill DEF GiveUpRecord, Abandon
    <3> QED BY <1>1, <3>1, <3>2, <3>3, <3>4 DEF ClientStep
  <2> QED BY <2>1, <2>2
<1>2. ASSUME NEW d \in Client, Kill(d) PROVE ToGo(c)' < ToGo(c) \/ Still(c)
  <2>1. CASE d = c
    <3>1. pc'[c] = "idle"
      BY <1>0, <1>2, <2>1 DEF Kill, Exit, SecretStoreTypeOk
    <3> QED BY <1>0, <3>1, EndIsLeast
  <2>2. CASE d # c
    BY <1>0, <1>2, <2>2, OthersStill DEF Kill, Abandon
  <2> QED BY <2>1, <2>2
<1>3. ASSUME NEW d \in Client, pc[d] = "idle",
             \/ \E n \in Name, u \in UUID, targets \in SUBSET Host, t \in Treshold :
                  StoreSecret(d, n, u, targets, t)
             \/ \E n \in Name : Lookup(d, n)
      PROVE  Still(c)
  <2>1. d # c
    BY <1>3
  <2> QED BY <1>0, <1>3, <2>1 DEF StoreSecret, Lookup, Exit, Still, SecretStoreTypeOk
<1>4. ASSUME NEW h \in Host, NEW status, HandleShare(h, status)
      PROVE  ToGo(c)' < ToGo(c) \/ Still(c)
  <2>1. CASE conn[h].live /\ conn[h].client = c
    <3>1. pc[c] = "publish" /\ wait[c] = h
      BY <1>4, <2>1 DEF HandleShare, StoreInv, ConnectionsSound, LiveSharesSound
    <3>2. wait[c] # None /\ wait'[c] = None /\ pc' = pc /\ todo' = todo
      BY <1>0, <1>4, <2>1, <3>1, DeploymentAssumption DEF HandleShare, SecretStoreTypeOk
    <3>3. Cardinality(todo[c]) \in Nat /\ Cardinality(todo'[c]) = Cardinality(todo[c])
      BY <1>0, <3>2, ToGoIs
    <3>4. ToGo(c) = 2 * Cardinality(todo[c]) + 4 /\ ToGo(c)' = 2 * Cardinality(todo'[c]) + 3
      BY <1>0, <3>1, <3>2, ToGoIs, ToGoWillBe
    <3> QED BY <3>3, <3>4
  <2>2. CASE ~(conn[h].live /\ conn[h].client = c)
    BY <1>0, <1>4, <2>2 DEF HandleShare, Still, SecretStoreTypeOk
  <2> QED BY <2>1, <2>2
<1>5. ASSUME NEW h \in Host, NEW status, HandleRecord(h, status)
      PROVE  ToGo(c)' < ToGo(c) \/ Still(c)
  <2>1. CASE UNCHANGED clientVars
    BY <2>1 DEF clientVars, Still
  <2>2. ASSUME NEW outcome, conn[h].live, Exit(conn[h].client, outcome),
               wait' = [wait EXCEPT ![conn[h].client] = None]
        PROVE  ToGo(c)' < ToGo(c) \/ Still(c)
    <3>1. conn[h].client \in Client
      BY <1>0, <1>5 DEF HandleRecord, SecretStoreTypeOk, Conn
    <3>2. CASE conn[h].client = c
      <4>1. pc'[c] = "idle"
        BY <1>0, <2>2, <3>2 DEF Exit, SecretStoreTypeOk
      <4> QED BY <1>0, <4>1, EndIsLeast
    <3>3. CASE conn[h].client # c
      BY <1>0, <2>2, <3>1, <3>3, OthersStill
    <3> QED BY <3>2, <3>3
  <2> QED BY <1>5, <2>1, <2>2 DEF HandleRecord
<1>6. ASSUME NEW h \in Host, Crash(h) \/ Start(h) PROVE Still(c)
  BY <1>6 DEF Crash, Start, clientVars, Still
<1>7. CASE UNCHANGED vars
  BY <1>7 DEF vars, clientVars, Still
<1>8. \A d \in Client :
        \/ \E n \in Name, u \in UUID, targets \in SUBSET Host, t \in Treshold :
              StoreSecret(d, n, u, targets, t)
        \/ \E n \in Name : Lookup(d, n)
        => pc[d] = "idle"
  BY DEF StoreSecret, Lookup
<1> QED BY <1>1, <1>2, <1>3, <1>4, <1>5, <1>6, <1>7, <1>8 DEF Next, ServerStep

\* Whatever happens to a command brings it nearer to its end: it does nothing
\* twice, and takes two steps for each peer and three more at most, with any
\* number of other commands, silent servers and crashes around it.
THEOREM CommandsGoForward == Spec => CommandsAdvance
<1>1. StoreInv /\ StoreInv' /\ LiveSharesSound /\ [Next]_vars =>
        [\A c \in Client : pc[c] # "idle" =>
            \/ ToGo(c)' < ToGo(c)
            \/ UNCHANGED <<pc[c], uuid[c], todo[c], wait[c], saved[c], got[c], missed[c]>>]_vars
  BY CommandAdvances DEF Still
<1> QED BY <1>1, StoreInvariant, LiveSharesInvariant, PTL DEF Spec, CommandsAdvance

\* A command that is run gets nearer to its end, or to it, whatever all others
\* do; with that, CommandsEnd is induction on ToGo.  That it can always go on
\* (CommandsGoOn) is for TLC to say.
THEOREM CommandsProgress ==
  ASSUME NEW c \in Client, NEW n \in Nat
  PROVE  Spec /\ WF_vars(ClientStep(c)) /\ []CommandsGoOn =>
           (pc[c] # "idle" /\ ToGo(c) = n ~> pc[c] = "idle" \/ ToGo(c) < n)
<1> DEFINE P == pc[c] # "idle" /\ ToGo(c) = n
<1> DEFINE Q == pc[c] = "idle" \/ ToGo(c) < n
<1>1. P /\ CommandsGoOn => ENABLED <<ClientStep(c)>>_vars
  BY DEF CommandsGoOn
<1>2. StoreInv /\ StoreInv' /\ LiveSharesSound /\ [Next]_vars /\ P => P' \/ Q'
  <2> SUFFICES ASSUME StoreInv, StoreInv', LiveSharesSound, [Next]_vars, P PROVE P' \/ Q'
    OBVIOUS
  <2>1. CASE Still(c)
    <3>1. ToGo(c)' = ToGo(c) /\ pc'[c] = pc[c]
      BY <2>1 DEF Still, ToGo
    <3> QED BY <3>1
  <2> QED BY <2>1, CommandAdvances
<1>3. StoreInv /\ StoreInv' /\ P /\ <<ClientStep(c)>>_vars => Q'
  BY ClientAdvances
<1> HIDE DEF P, Q
<1>4. Spec /\ WF_vars(ClientStep(c)) /\ []CommandsGoOn => (P ~> Q)
  BY <1>1, <1>2, <1>3, StoreInvariant, LiveSharesInvariant, PTL DEF Spec
<1> QED BY <1>4, PTL DEF P, Q
=============================================================================
