--------------------------- MODULE Key1BootProofs ---------------------------
(***************************************************************************)
(* What a network's KEY1s rest on, for any number of hosts and crashes:     *)
(* config.ini names a split only if every other host has its share in its   *)
(* file (MetadataMeansPublished), and the decoder of a booting host only    *)
(* ever gets ready with a treshold of different shares of that very split   *)
(* (BootsWithOwnKey).  As in SecretStoreProofs, a share is posted once, to  *)
(* a server that has not seen it, so a confirmation is a 201 after a save.  *)
(* Then, what holds when nothing fails: all get through setup, one at a     *)
(* time is between its two servers, nobody waits in a circle, and there is  *)
(* always somebody who need not wait.  A boot: no peer that is up is asked  *)
(* in vain.  get-key1: it prints its own host's KEY1, or misses a treshold  *)
(* of answers, whatever goes on between its requests.                       *)
(***************************************************************************)
EXTENDS Key1Client, ServerProofs, FiniteSetTheorems

\* The script has counted p as saved, or config.ini says so for all.
Counted(h, p) == metadata[h] \/ (setup[h] = "publish" /\ p \notin remaining[h])

\* The script has not posted to p yet.
Unsent(h, p) ==
    \/ setup[h] \in {"new", "poll"}
    \/ setup[h] = "publish" /\ p \in remaining[h]

PublishedSound ==
    \A h \in Host : \A p \in Others(h) :
        /\ Counted(h, p) => sharesDta[p][KeyUuid[h]] = Key1Share(h, p)
        /\ Unsent(h, p) => /\ shares[p][KeyUuid[h]] = None
                           /\ sharesDta[p][KeyUuid[h]] = None
        /\ shares[p][KeyUuid[h]] \in {None, Key1Share(h, p)}
        /\ sharesDta[p][KeyUuid[h]] \in {None, Key1Share(h, p)}

CollectedSound ==
    \A h \in Host :
        /\ IsFiniteSet(got[h])
        /\ \A d \in got[h] : \E p \in Others(h) : d = Key1Share(h, p)
        /\ Cardinality(got[h]) <= Treshold(h)

Key1Inv == Key1TypeOk /\ DiskInMemory /\ PublishedSound /\ CollectedSound

\* What the constants give.
LEMMA Key1ShareFacts ==
  ASSUME NEW h \in Host
  PROVE  /\ KeyUuid[h] \in UUID
         /\ Treshold(h) \in Nat /\ Treshold(h) >= 1
         /\ \A p \in Host : /\ Key1Share(h, p) \in Payload
                            /\ Key1Share(h, p) # None
                            /\ Key1Share(h, p).x = p
                            /\ Key1Share(h, p).treshold = Treshold(h)
<1>1. IsFiniteSet(Others(h))
  BY NetworkAssumption, FS_Subset DEF Others
<1>2. ShareCount(h) \in Nat
  BY <1>1, FS_CardinalityType DEF ShareCount
<1>3. Treshold(h) \in Nat /\ Treshold(h) >= 1
  BY <1>2 DEF Treshold
<1>4. \A p \in Host : /\ Key1Share(h, p) \in Payload
                      /\ Key1Share(h, p).x = p
                      /\ Key1Share(h, p).treshold = Treshold(h)
  BY <1>2, <1>3, NetworkAssumption, NamesAssumption DEF Key1Share, Column, Payload
<1> QED BY <1>3, <1>4, NetworkAssumption, NamesAssumption

\* A step in which servers only forget or reload, and no script goes on to
\* count a share or to take one for unsent, keeps what is published.
ServersQuiet ==
    /\ UNCHANGED sharesDta
    /\ \A p \in Host, u \in UUID :
          shares'[p][u] \in {None, shares[p][u], sharesDta[p][u]}

ScriptsQuiet ==
    \A h \in Host : \A p \in Others(h) :
        /\ Counted(h, p)' => Counted(h, p)
        /\ Unsent(h, p)' => Unsent(h, p)

LEMMA QuietKeepsPublished ==
  ASSUME PublishedSound, ServersQuiet, ScriptsQuiet
  PROVE  PublishedSound'
<1> SUFFICES ASSUME NEW h \in Host, NEW p \in Others(h)
             PROVE  /\ Counted(h, p)' => sharesDta'[p][KeyUuid[h]] = Key1Share(h, p)
                    /\ Unsent(h, p)' => /\ shares'[p][KeyUuid[h]] = None
                                        /\ sharesDta'[p][KeyUuid[h]] = None
                    /\ shares'[p][KeyUuid[h]] \in {None, Key1Share(h, p)}
                    /\ sharesDta'[p][KeyUuid[h]] \in {None, Key1Share(h, p)}
  BY DEF PublishedSound, Others, Key1Share, Column, Treshold, ShareCount
<1>1. p \in Host /\ KeyUuid[h] \in UUID
  BY Key1ShareFacts DEF Others
<1> QED BY <1>1 DEF PublishedSound, ServersQuiet, ScriptsQuiet

\* A step in which no decoder gets a share keeps what decoders hold.
LEMMA KeptOrEmptied ==
  ASSUME CollectedSound, \A h \in Host : got'[h] \in {got[h], {}}
  PROVE  CollectedSound'
<1> SUFFICES ASSUME NEW h \in Host
             PROVE  /\ IsFiniteSet(got'[h])
                    /\ \A d \in got'[h] : \E p \in Others(h) : d = Key1Share(h, p)
                    /\ Cardinality(got'[h]) <= Treshold(h)
  BY DEF CollectedSound, Treshold, ShareCount, Others, Key1Share, Column
<1>1. CASE got'[h] = got[h]
  BY <1>1 DEF CollectedSound
<1>2. CASE got'[h] = {}
  BY <1>2, Key1ShareFacts, FS_EmptySet
<1> QED BY <1>1, <1>2

\* The three things a server does besides answering.
LEMMA ServersStepQuietly ==
  ASSUME ServerTypeOk, DiskInMemory, NEW h \in Host,
         UNCHANGED serverVars \/ CrashServer(h) \/ StartServer(h) \/ StopServer(h)
  PROVE  ServerTypeOk' /\ DiskInMemory' /\ ServersQuiet
<1>1. CASE UNCHANGED serverVars
  BY <1>1 DEF serverVars, ServerTypeOk, DiskInMemory, ServersQuiet
<1>2. CASE CrashServer(h)
  BY <1>2, CrashSafe DEF ServersQuiet
<1>3. CASE StartServer(h)
  BY <1>3, StartSafe DEF ServersQuiet
<1> QED BY <1>1, <1>2, <1>3 DEF StopServer

-----------------------------------------------------------------------------

\* Nothing is held, counted or collected at first.
LEMMA Key1Init == Init => Key1Inv
<1> SUFFICES ASSUME Init PROVE Key1Inv
  OBVIOUS
<1> USE DEF Init, EmptyShares, EmptySecrets
<1>1. ServerTypeOk /\ DiskInMemory
  BY DEF ServerTypeOk, DiskInMemory
<1>2. Key1TypeOk
  BY <1>1, NetworkAssumption DEF Key1TypeOk
<1>3. PublishedSound
  BY Key1ShareFacts DEF PublishedSound, Counted, Others
<1>4. CollectedSound
  BY Key1ShareFacts, FS_EmptySet DEF CollectedSound
<1> QED BY <1>1, <1>2, <1>3, <1>4 DEF Key1Inv

\* The steps of setup up to publishing and after it.
LEMMA ScriptKeepsInv ==
  ASSUME Key1Inv, NEW h \in Host,
         \/ RunSetup(h) \/ \E p \in Host : SeeOnline(h, p)
         \/ SaveMetadata(h) \/ ConfirmHandoff(h) \/ AbortSetup(h)
  PROVE  Key1Inv'
<1> USE DEF setupVars, bootVars, playVars
<1>1. /\ UNCHANGED <<service, got, rolling, restarted>>
      /\ UNCHANGED serverVars \/ StartServer(h) \/ StopServer(h)
  BY DEF RunSetup, SeeOnline, SaveMetadata, ConfirmHandoff, AbortSetup
<1>2. ServerTypeOk' /\ DiskInMemory' /\ ServersQuiet
  BY <1>1, ServersStepQuietly DEF Key1Inv, Key1TypeOk
<1>3. CollectedSound'
  BY <1>1, KeptOrEmptied DEF Key1Inv
<1>4. CASE RunSetup(h)
  <2>1. Key1TypeOk'
    BY <1>2, <1>4 DEF RunSetup, Key1Inv, Key1TypeOk, Others
  <2>2. ScriptsQuiet
    BY <1>4 DEF RunSetup, Key1Inv, Key1TypeOk, ScriptsQuiet, Counted, Unsent
  <2> QED BY <1>2, <1>3, <2>1, <2>2, QuietKeepsPublished DEF Key1Inv
<1>5. ASSUME NEW p \in Host, SeeOnline(h, p) PROVE Key1Inv'
  <2>1. Key1TypeOk'
    BY <1>2, <1>5 DEF SeeOnline, Key1Inv, Key1TypeOk, Others
  <2>2. ScriptsQuiet
    BY <1>5 DEF SeeOnline, Key1Inv, Key1TypeOk, ScriptsQuiet, Counted, Unsent
  <2> QED BY <1>2, <1>3, <2>1, <2>2, QuietKeepsPublished DEF Key1Inv
<1>6. CASE SaveMetadata(h)
  <2>1. Key1TypeOk'
    BY <1>2, <1>6 DEF SaveMetadata, Key1Inv, Key1TypeOk
  <2>2. ScriptsQuiet
    BY <1>6 DEF SaveMetadata, Key1Inv, Key1TypeOk, ScriptsQuiet, Counted, Unsent
  <2> QED BY <1>2, <1>3, <2>1, <2>2, QuietKeepsPublished DEF Key1Inv
<1>7. CASE ConfirmHandoff(h)
  <2>1. Key1TypeOk'
    BY <1>2, <1>7 DEF ConfirmHandoff, Key1Inv, Key1TypeOk
  <2>2. ScriptsQuiet
    BY <1>7 DEF ConfirmHandoff, Key1Inv, Key1TypeOk, ScriptsQuiet, Counted, Unsent
  <2> QED BY <1>2, <1>3, <2>1, <2>2, QuietKeepsPublished DEF Key1Inv
<1>8. CASE AbortSetup(h)
  <2>1. Key1TypeOk'
    BY <1>2, <1>8, NetworkAssumption DEF AbortSetup, Key1Inv, Key1TypeOk
  <2>2. ScriptsQuiet
    BY <1>8 DEF AbortSetup, Key1Inv, Key1TypeOk, ScriptsQuiet, Counted, Unsent
  <2> QED BY <1>2, <1>3, <2>1, <2>2, QuietKeepsPublished DEF Key1Inv
<1> QED BY <1>4, <1>5, <1>6, <1>7, <1>8

\* A post of h's share to p, whether or not the script gets the answer: all
\* that can be counted afterwards is a share in p's file.
LEMMA PostKeepsPublished ==
  ASSUME Key1Inv, NEW h \in Host, NEW p \in Host, NEW status,
         setup[h] = "publish", p \in remaining[h],
         StoreShare(p, Cert[h], KeyUuid[h], Key1Share(h, p), status),
         metadata' = metadata,
         \A g \in Host : \A q \in Others(g) :
            /\ Counted(g, q)' => \/ Counted(g, q)
                                 \/ g = h /\ q = p /\ status \in {200, 201}
            /\ Unsent(g, q)' => Unsent(g, q) /\ ~(g = h /\ q = p)
  PROVE  ServerTypeOk' /\ DiskInMemory' /\ PublishedSound'
<1>1. ServerTypeOk /\ DiskInMemory /\ KeyUuid[h] \in UUID /\ Key1Share(h, p) \in Payload
  BY Key1ShareFacts DEF Key1Inv, Key1TypeOk
<1>2. /\ ServerTypeOk' /\ DiskInMemory' /\ SharesStayOnDisk
      /\ \A q \in Host, u \in UUID : q # p \/ u # KeyUuid[h] =>
           /\ shares'[q][u] = shares[q][u]
           /\ sharesDta'[q][u] # None => shares[q][u] # None \/ sharesDta[q][u] # None
  <2> DEFINE cn == Cert[h]
  <2> DEFINE path == KeyUuid[h]
  <2> DEFINE body == Key1Share(h, p)
  <2>1. StoreShare(p, cn, path, body, status) /\ body \in Payload /\ path \in UUID
    BY <1>1
  <2> HIDE DEF cn, path, body
  <2> QED BY <1>1, <2>1, StoreShareSafe
<1>3. \A q \in Host, u \in UUID :
         /\ sharesDta'[q][u] \in {sharesDta[q][u], shares'[q][u]}
         /\ shares'[q][u] \in {shares[q][u], Key1Share(h, p)}
  BY <1>1 DEF StoreShare, StoreNewShare, PersistShares, serverVars, ServerTypeOk
<1> SUFFICES ASSUME NEW g \in Host, NEW q \in Others(g)
             PROVE  /\ Counted(g, q)' => sharesDta'[q][KeyUuid[g]] = Key1Share(g, q)
                    /\ Unsent(g, q)' => /\ shares'[q][KeyUuid[g]] = None
                                        /\ sharesDta'[q][KeyUuid[g]] = None
                    /\ shares'[q][KeyUuid[g]] \in {None, Key1Share(g, q)}
                    /\ sharesDta'[q][KeyUuid[g]] \in {None, Key1Share(g, q)}
  BY <1>2 DEF PublishedSound, Others, Key1Share, Column, Treshold, ShareCount
<1>4. /\ q \in Host /\ KeyUuid[g] \in UUID /\ Key1Share(g, q) # None
      /\ KeyUuid[g] = KeyUuid[h] => g = h
  BY Key1ShareFacts, NetworkAssumption DEF Others
<1>5. /\ Counted(g, q) => sharesDta[q][KeyUuid[g]] = Key1Share(g, q)
      /\ Unsent(g, q) => shares[q][KeyUuid[g]] = None /\ sharesDta[q][KeyUuid[g]] = None
      /\ shares[q][KeyUuid[g]] \in {None, Key1Share(g, q)}
      /\ sharesDta[q][KeyUuid[g]] \in {None, Key1Share(g, q)}
  BY DEF Key1Inv, PublishedSound
<1>6. CASE g = h /\ q = p
  <2>1. shares[p][KeyUuid[h]] = None
    BY <1>5, <1>6 DEF Unsent
  <2>2. status \in {200, 201} => sharesDta'[p][KeyUuid[h]] = Key1Share(h, p)
    BY <1>1, <2>1, NewShareConfirmedIsSaved
  <2>3. Counted(g, q) => sharesDta'[q][KeyUuid[g]] = Key1Share(g, q)
    BY <1>2, <1>4, <1>5 DEF SharesStayOnDisk
  <2> QED BY <1>3, <1>4, <1>5, <1>6, <2>2, <2>3
<1>7. CASE ~(g = h /\ q = p)
  <2>1. shares'[q][KeyUuid[g]] = shares[q][KeyUuid[g]]
    BY <1>2, <1>4, <1>7
  <2>2. Counted(g, q) => sharesDta'[q][KeyUuid[g]] = Key1Share(g, q)
    BY <1>2, <1>4, <1>5 DEF SharesStayOnDisk
  <2> QED BY <1>3, <1>4, <1>5, <1>7, <2>1, <2>2
<1> QED BY <1>6, <1>7

\* A post whose answer is read, and one whose answer is not.
LEMMA PublishKeepsInv ==
  ASSUME Key1Inv, NEW h \in Host, NEW p \in Host,
         \/ \E status \in {200, 201, 403, 409, 500} : PublishShare(h, p, status)
         \/ PublishFails(h, p)
  PROVE  Key1Inv'
<1> USE DEF setupVars, bootVars, playVars
<1>1. CollectedSound'
  BY KeptOrEmptied DEF PublishShare, PublishFails, Key1Inv
<1>2. ASSUME NEW status \in {200, 201, 403, 409, 500}, PublishShare(h, p, status)
      PROVE  Key1Inv'
  <2>1. \A g \in Host : \A q \in Others(g) :
            /\ Counted(g, q)' => \/ Counted(g, q)
                                 \/ g = h /\ q = p /\ status \in {200, 201}
            /\ Unsent(g, q)' => Unsent(g, q) /\ ~(g = h /\ q = p)
    BY <1>2 DEF PublishShare, Confirms, Key1Inv, Key1TypeOk, Counted, Unsent
  <2>2. ServerTypeOk' /\ DiskInMemory' /\ PublishedSound'
    BY <1>2, <2>1, PostKeepsPublished DEF PublishShare
  <2>3. Key1TypeOk'
    BY <1>2, <2>2 DEF PublishShare, Key1Inv, Key1TypeOk
  <2> QED BY <1>1, <2>2, <2>3 DEF Key1Inv
<1>3. CASE PublishFails(h, p)
  <2>1. \A g \in Host : \A q \in Others(g) :
            /\ Counted(g, q)' => Counted(g, q)
            /\ Unsent(g, q)' => Unsent(g, q) /\ ~(g = h /\ q = p)
    BY <1>3 DEF PublishFails, Key1Inv, Key1TypeOk, Counted, Unsent
  <2>2. ServerTypeOk' /\ DiskInMemory' /\ PublishedSound'
    <3>1. CASE UNCHANGED serverVars
      <4>1. ServerTypeOk' /\ DiskInMemory' /\ ServersQuiet
        BY <3>1, ServersStepQuietly DEF Key1Inv, Key1TypeOk
      <4> QED BY <2>1, <4>1, QuietKeepsPublished DEF ScriptsQuiet, Key1Inv
    <3>2. CASE StoreShare(p, Cert[h], KeyUuid[h], Key1Share(h, p), 201)
      BY <1>3, <2>1, <3>2, PostKeepsPublished DEF PublishFails
    <3> QED BY <1>3, <3>1, <3>2 DEF PublishFails
  <2>3. Key1TypeOk'
    BY <1>3, <2>2 DEF PublishFails, Key1Inv, Key1TypeOk
  <2> QED BY <1>1, <2>2, <2>3 DEF Key1Inv
<1> QED BY <1>2, <1>3

\* The service's own steps, the playbook's, and crashes: no script moves but
\* to its end.
LEMMA ServiceKeepsInv ==
  ASSUME Key1Inv, NEW h \in Host,
         \/ StartService(h) \/ FinishBoot(h) \/ PlayStep(h)
         \/ Crash(h) \/ CrashProcess(h) \/ StartFails(h)
         \/ \E p \in Host : CutAnswer(h, p)
  PROVE  Key1Inv'
<1> USE DEF setupVars, bootVars, playVars, PlayStep, UnitFails
<1>1. /\ UNCHANGED <<remaining, metadata>>
      /\ setup' \in {setup, [setup EXCEPT ![h] = "over"]}
      /\ got' \in {got, [got EXCEPT ![h] = {}]}
      /\ \/ UNCHANGED serverVars \/ StartServer(h) \/ StopServer(h)
         \/ \E p \in Host : CrashServer(p)
  BY DEF StartService, FinishBoot, RestartUnit, NextUnit, Unreachable, Crash,
     CrashProcess, CutAnswer, StartFails
<1>2. ServerTypeOk' /\ DiskInMemory' /\ ServersQuiet
  BY <1>1, ServersStepQuietly DEF Key1Inv, Key1TypeOk
<1>3. ScriptsQuiet
  BY <1>1 DEF ScriptsQuiet, Counted, Unsent, Key1Inv, Key1TypeOk
<1>4. CollectedSound'
  <2>1. \A g \in Host : got'[g] \in {got[g], {}}
    BY <1>1 DEF Key1Inv, Key1TypeOk
  <2> QED BY <2>1, KeptOrEmptied DEF Key1Inv
<1>5. Key1TypeOk'
  <2>1. /\ setup' \in [Host -> {"new", "poll", "publish", "gate", "over"}]
        /\ got' \in [Host -> SUBSET Payload]
    BY <1>1 DEF Key1Inv, Key1TypeOk
  <2>2. /\ service' \in [Host -> {"inactive", "activating", "active"}]
        /\ rolling' \in Host \cup {None} /\ restarted' \subseteq Host
        /\ crashes' \in 0 .. MaxCrashes
    BY NetworkAssumption DEF StartService, FinishBoot, RestartUnit, NextUnit,
       Unreachable, Crash, CrashProcess, CutAnswer, StartFails, Key1Inv, Key1TypeOk
  <2> QED BY <1>1, <1>2, <2>1, <2>2 DEF Key1Inv, Key1TypeOk
<1> QED BY <1>2, <1>3, <1>4, <1>5, QuietKeepsPublished DEF Key1Inv

\* A peer's answer: what it holds under the host's uuid is the share it was
\* sent, and the decoder takes no more than the treshold asks for.
LEMMA AskPeerKeepsInv ==
  ASSUME Key1Inv, NEW h \in Host, NEW p \in Host, AskPeer(h, p)
  PROVE  Key1Inv'
<1> USE DEF setupVars, bootVars, playVars
<1> DEFINE d == Key1Share(h, p)
<1>1. /\ ~ReadyToDecode(got[h])
      /\ p \in Others(h)
      /\ shares[p][KeyUuid[h]] # None
      /\ got' = [got EXCEPT ![h] =
                  PopulateDecoder(got[h], shares[p][KeyUuid[h]], Key1, OwnName[h])]
      /\ UNCHANGED <<serverVars, setup, remaining, metadata, service, rolling,
                     restarted, crashes>>
  BY DEF AskPeer, HasShare, TrustedPeers, Others, GetShareStatus
<1>2. shares[p][KeyUuid[h]] = d
  BY <1>1 DEF Key1Inv, PublishedSound
<1>3. d \in Payload /\ d.treshold = Treshold(h) /\ Treshold(h) \in Nat /\ Treshold(h) >= 1
  BY Key1ShareFacts
<1>4. got'[h] \in {got[h], got[h] \cup {d}} /\ \A g \in Host : g # h => got'[g] = got[g]
  BY <1>1, <1>2 DEF PopulateDecoder, Key1Inv, Key1TypeOk
<1>5. ServerTypeOk' /\ DiskInMemory' /\ ServersQuiet
  BY <1>1, ServersStepQuietly DEF Key1Inv, Key1TypeOk
<1>6. ScriptsQuiet
  BY <1>1 DEF ScriptsQuiet, Counted, Unsent
<1>7. got' \in [Host -> SUBSET Payload]
  BY <1>1, <1>3, <1>4 DEF Key1Inv, Key1TypeOk
<1>8. Key1TypeOk'
  BY <1>1, <1>5, <1>7 DEF Key1Inv, Key1TypeOk
<1>9. CollectedSound'
  <2>1. /\ IsFiniteSet(got[h]) /\ Cardinality(got[h]) \in Nat
        /\ Cardinality(got[h]) <= Treshold(h)
        /\ \A e \in got[h] : \E q \in Others(h) : e = Key1Share(h, q)
    BY FS_CardinalityType DEF Key1Inv, CollectedSound
  <2>2. Cardinality(got[h]) < Treshold(h)
    <3>1. CASE got[h] = {}
      BY <1>3, <3>1, FS_EmptySet
    <3>2. ASSUME NEW e \in got[h] PROVE Cardinality(got[h]) < Treshold(h)
      <4>1. e.treshold = Treshold(h)
        BY <2>1, Key1ShareFacts DEF Others
      <4> QED BY <1>1, <1>3, <2>1, <4>1 DEF ReadyToDecode
    <3> QED BY <3>1, <3>2
  <2>3. /\ IsFiniteSet(got[h] \cup {d})
        /\ Cardinality(got[h] \cup {d}) <= Treshold(h)
    <3> HIDE DEF d
    <3>1. /\ IsFiniteSet(got[h] \cup {d})
          /\ Cardinality(got[h] \cup {d})
                \in {Cardinality(got[h]), Cardinality(got[h]) + 1}
      BY <2>1, FS_AddElement
    <3> QED BY <1>3, <2>1, <2>2, <3>1
  <2>4. /\ IsFiniteSet(got'[h]) /\ Cardinality(got'[h]) <= Treshold(h)
        /\ \A e \in got'[h] : \E q \in Others(h) : e = Key1Share(h, q)
    BY <1>1, <1>4, <2>1, <2>3
  <2>5. ASSUME NEW g \in Host
        PROVE  /\ IsFiniteSet(got'[g])
               /\ \A e \in got'[g] : \E q \in Others(g) : e = Key1Share(g, q)
               /\ Cardinality(got'[g]) <= Treshold(g)
    <3>1. CASE g = h
      BY <2>4, <3>1
    <3>2. CASE g # h
      <4>1. got'[g] = got[g]
        BY <1>4, <3>2
      <4> QED BY <4>1 DEF Key1Inv, CollectedSound
    <3> QED BY <3>1, <3>2
  <2> QED BY <2>5 DEF CollectedSound, Treshold, ShareCount, Others, Key1Share, Column
<1> QED BY <1>5, <1>6, <1>8, <1>9, QuietKeepsPublished DEF Key1Inv

\* Every step keeps the invariant.
LEMMA Key1Step == Key1Inv /\ [Next]_vars => Key1Inv'
<1> SUFFICES ASSUME Key1Inv, [Next]_vars PROVE Key1Inv'
  OBVIOUS
<1>1. ASSUME NEW h \in Host, SetupStep(h) PROVE Key1Inv'
  BY <1>1, ScriptKeepsInv, PublishKeepsInv DEF SetupStep
<1>2. ASSUME NEW h \in Host, BootStep(h) PROVE Key1Inv'
  BY <1>2, ServiceKeepsInv, AskPeerKeepsInv DEF BootStep
<1>3. ASSUME NEW h \in Host, PlayStep(h) \/ Failure(h) PROVE Key1Inv'
  BY <1>3, ServiceKeepsInv, ScriptKeepsInv DEF Failure, ProcessFailure
<1>4. CASE UNCHANGED vars
  <2> USE DEF vars, setupVars, bootVars, playVars
  <2>1. CollectedSound'
    BY <1>4, KeptOrEmptied DEF Key1Inv
  <2>2. ServerTypeOk' /\ DiskInMemory'
    BY <1>4 DEF serverVars, Key1Inv, Key1TypeOk, ServerTypeOk, DiskInMemory
  <2>3. ServersQuiet /\ ScriptsQuiet
    BY <1>4 DEF serverVars, ServersQuiet, ScriptsQuiet, Counted, Unsent
  <2>4. Key1TypeOk'
    BY <1>4, <2>2 DEF Key1Inv, Key1TypeOk
  <2> QED BY <2>1, <2>2, <2>3, <2>4, QuietKeepsPublished DEF Key1Inv
<1> QED BY <1>1, <1>2, <1>3, <1>4 DEF Next

\* The inductive invariant of bootstrap, boot and restart.
THEOREM Key1Invariant == Spec => []Key1Inv
BY Key1Init, Key1Step, PTL DEF Spec

\* Every variable keeps its type, for any number of hosts and crashes.
THEOREM Key1Typed == Spec => []Key1TypeOk
<1>1. Key1Inv => Key1TypeOk
  BY DEF Key1Inv
<1> QED BY <1>1, Key1Invariant, PTL

\* What is counted is saved.
LEMMA PublishedByInv == Key1Inv => MetadataMeansPublished
BY DEF Key1Inv, PublishedSound, Counted, MetadataMeansPublished

\* config.ini names a KEY1 split only when every other host has its share on
\* disk (setup_secretweb._publish_key1_to_network before main's config write).
THEOREM MetadataIsPublished == Spec => []MetadataMeansPublished
BY PublishedByInv, Key1Invariant, PTL

\* A decoder takes shares of the host's split only, each once.
LEMMA OwnKeyByInv == Key1Inv => BootsWithOwnKey
<1> SUFFICES ASSUME Key1Inv, NEW h \in Host, ReadyToDecode(got[h])
             PROVE  /\ Cardinality(Contributed(h)) = Treshold(h)
                    /\ \A d \in got[h] : d = Key1Share(h, d.x)
  BY DEF BootsWithOwnKey
<1>1. /\ IsFiniteSet(got[h]) /\ Cardinality(got[h]) \in Nat
      /\ Cardinality(got[h]) <= Treshold(h)
      /\ \A d \in got[h] : \E p \in Others(h) : d = Key1Share(h, p)
  BY FS_CardinalityType DEF Key1Inv, CollectedSound
<1>2. \A d \in got[h] : d = Key1Share(h, d.x) /\ d.treshold = Treshold(h)
  BY <1>1, Key1ShareFacts DEF Others
<1>3. Cardinality(got[h]) = Treshold(h)
  BY <1>1, <1>2, Key1ShareFacts DEF ReadyToDecode
<1>4. Cardinality(Contributed(h)) = Cardinality(got[h])
  <2> DEFINE f == [d \in got[h] |-> d.x]
  <2>1. f \in Bijection(got[h], Contributed(h))
    BY <1>2 DEF Contributed, Bijection, Injection, Surjection, IsInjective
  <2>2. ExistsBijection(got[h], Contributed(h))
    BY <2>1 DEF ExistsBijection
  <2> QED BY <1>1, <2>2, FS_Bijection
<1> QED BY <1>2, <1>3, <1>4

\* A decoder that is ready holds a treshold of different shares of the host's
\* own KEY1 (initiator._collect_key1, shamir.populate_decoder).
THEOREM BootKeyIsOwn == Spec => []BootsWithOwnKey
BY OwnKeyByInv, Key1Invariant, PTL

-----------------------------------------------------------------------------
(* A bootstrap in which nothing fails, and the hand-off read the way that   *)
(* works: a host that still polls for others keeps everybody waiting.       *)

CalmNetwork ==
    /\ MaxCrashes = 0 /\ Faults = {} /\ Waiting = {"gate"}
    /\ \A h \in Host : OwnerMatches(Cert[h], OwnName[h])

\* A host runs its temporary server until it is confirmed, and its service's
\* from when the unit is active.
RunningSound ==
    \A h \in Host :
        /\ setup[h] = "new" => ~up[h]
        /\ setup[h] \in {"poll", "publish", "gate"} => up[h]
        /\ setup[h] = "over" => (up[h] <=> service[h] = "active")
        /\ setup[h] # "over" => service[h] = "inactive" /\ rolling # h
        /\ setup[h] \in {"gate", "over"} => metadata[h]
        /\ remaining[h] \subseteq Others(h)

\* Nobody publishes before all have been seen, and nobody is confirmed before
\* all have published.
LockStep ==
    \A h, p \in Host :
        /\ setup[h] = "poll" /\ p \in Others(h) \ remaining[h] => setup[p] # "new"
        /\ setup[h] \in {"publish", "gate", "over"} => setup[p] # "new"
        /\ setup[h] = "over" => setup[p] \in {"gate", "over"}

CalmInv == RunningSound /\ LockStep /\ AtMostOneInGap

\* While a host publishes, all the others run their temporary servers, and
\* none of them has reason to refuse its share.
LEMMA PublishingConfirmed ==
  ASSUME CalmNetwork, Key1Inv, CalmInv, NEW h \in Host, NEW p \in Host,
         setup[h] = "publish", p \in remaining[h]
  PROVE  /\ ~PublishFails(h, p)
         /\ \A status \in {200, 201, 403, 409, 500} :
               PublishShare(h, p, status) => Confirms(status)
<1>1. setup[p] \in {"poll", "publish", "gate"}
  BY DEF CalmInv, LockStep, Key1Inv, Key1TypeOk
<1>2. up[p]
  BY <1>1 DEF CalmInv, RunningSound
<1>3. ~PublishFails(h, p)
  BY <1>2 DEF PublishFails, CalmNetwork
<1>4. ASSUME NEW status \in {200, 201, 403, 409, 500}, PublishShare(h, p, status)
      PROVE  Confirms(status)
  <2>1. status # 500
    BY <1>4 DEF PublishShare, CalmNetwork
  <2>2. StoreShare(p, Cert[h], KeyUuid[h], Key1Share(h, p), status)
    BY <1>4 DEF PublishShare
  <2>3. OwnerMatches(Cert[h], Key1Share(h, p).owner)
    BY DEF CalmNetwork, Key1Share, Column
  <2>4. shares[p][KeyUuid[h]] \in {None, Key1Share(h, p)}
    <3>1. p \in Others(h)
      BY DEF CalmInv, RunningSound
    <3> QED BY <3>1 DEF Key1Inv, PublishedSound
  <2>5. status # 403 /\ status # 409
    BY <2>2, <2>3, <2>4 DEF StoreShare, StoreNewShare, PersistShares, Conflicts
  <2> QED BY <2>1, <2>5 DEF Confirms
<1> QED BY <1>3, <1>4


\* Nothing has been handed over at first.
LEMMA CalmInit == Init => CalmInv
<1> SUFFICES ASSUME Init PROVE CalmInv
  OBVIOUS
<1>1. RunningSound
  BY NetworkAssumption DEF Init, RunningSound
<1>2. LockStep
  BY DEF Init, LockStep
<1>3. AtMostOneInGap
  BY DEF Init, AtMostOneInGap, InGap
<1> QED BY <1>1, <1>2, <1>3 DEF CalmInv

\* The steps of setup before the hand-off.
LEMMA SetupKeepsCalm ==
  ASSUME CalmNetwork, Key1Inv, CalmInv, NEW h \in Host,
         \/ RunSetup(h) \/ \E p \in Host : SeeOnline(h, p)
         \/ \E p \in Host, status \in {200, 201, 403, 409, 500} : PublishShare(h, p, status)
         \/ \E p \in Host : PublishFails(h, p)
         \/ SaveMetadata(h)
  PROVE  CalmInv'
<1> USE DEF bootVars, playVars
<1>1. /\ RunningSound /\ LockStep /\ AtMostOneInGap
      /\ setup \in [Host -> {"new", "poll", "publish", "gate", "over"}]
      /\ remaining \in [Host -> SUBSET Host] /\ metadata \in [Host -> BOOLEAN]
      /\ up \in [Host -> BOOLEAN]
  BY DEF CalmInv, Key1Inv, Key1TypeOk, ServerTypeOk
<1>2. ASSUME \A g \in Host : setup'[g] = "over" <=> setup[g] = "over",
             UNCHANGED <<service, rolling>>
      PROVE  AtMostOneInGap'
  BY <1>1, <1>2 DEF AtMostOneInGap, InGap
<1>3. CASE RunSetup(h)
  <2>1. /\ UNCHANGED <<service, rolling, metadata>>
        /\ setup[h] = "new" /\ setup'[h] = "poll" /\ up'[h] /\ remaining'[h] = Others(h)
        /\ \A g \in Host : g # h => /\ setup'[g] = setup[g] /\ up'[g] = up[g]
                                    /\ remaining'[g] = remaining[g]
    BY <1>1, <1>3 DEF RunSetup, StartServer
  <2>2. RunningSound'
    BY <1>1, <2>1 DEF RunningSound, Others
  <2>3. LockStep'
    BY <1>1, <2>1 DEF LockStep, Others
  <2>4. AtMostOneInGap'
    BY <1>2, <2>1
  <2> QED BY <2>2, <2>3, <2>4 DEF CalmInv
<1>4. ASSUME NEW p \in Host, SeeOnline(h, p) PROVE CalmInv'
  <2>1. /\ UNCHANGED <<service, rolling, metadata, up>>
        /\ setup[h] = "poll" /\ p \in remaining[h] /\ up[p]
        /\ \/ setup'[h] = "publish" /\ remaining[h] = {p} /\ remaining'[h] = Others(h)
           \/ setup'[h] = "poll" /\ remaining'[h] = remaining[h] \ {p}
        /\ \A g \in Host : g # h => /\ setup'[g] = setup[g]
                                    /\ remaining'[g] = remaining[g]
    BY <1>1, <1>4 DEF SeeOnline, serverVars
  <2>2. setup[p] # "new"
    BY <1>1, <2>1 DEF RunningSound
  <2>3. RunningSound'
    BY <1>1, <2>1 DEF RunningSound, Others
  <2>4. LockStep'
    <3>1. setup'[h] = "publish" => \A q \in Host : setup[q] # "new"
      BY <1>1, <2>1, <2>2 DEF LockStep, Others
    <3> QED BY <1>1, <2>1, <2>2, <3>1 DEF LockStep, Others
  <2>5. AtMostOneInGap'
    BY <1>2, <2>1
  <2> QED BY <2>3, <2>4, <2>5 DEF CalmInv
<1>5. ASSUME NEW p \in Host,
             \/ \E status \in {200, 201, 403, 409, 500} : PublishShare(h, p, status)
             \/ PublishFails(h, p)
      PROVE  CalmInv'
  <2>1. setup[h] = "publish" /\ p \in remaining[h]
    BY <1>5 DEF PublishShare, PublishFails
  <2>2. PICK status \in {200, 201, 403, 409, 500} :
          PublishShare(h, p, status) /\ Confirms(status)
    BY <1>5, <2>1, PublishingConfirmed
  <2>3. /\ UNCHANGED <<service, rolling, metadata, up, setup>>
        /\ \A g \in Host : remaining'[g] \subseteq remaining[g]
    BY <1>1, <2>2 DEF PublishShare, StoreShare, StoreNewShare, PersistShares, serverVars
  <2>4. RunningSound'
    BY <1>1, <2>3 DEF RunningSound, Others
  <2>5. LockStep'
    <3>1. \A g \in Host : setup[g] = "poll" => remaining'[g] = remaining[g]
      BY <1>1, <2>1, <2>2 DEF PublishShare
    <3> QED BY <1>1, <2>3, <3>1 DEF LockStep, Others
  <2>6. AtMostOneInGap'
    BY <1>2, <2>3
  <2> QED BY <2>4, <2>5, <2>6 DEF CalmInv
<1>6. CASE SaveMetadata(h)
  <2>1. /\ UNCHANGED <<service, rolling, remaining, up>>
        /\ setup[h] = "publish" /\ setup'[h] = "gate" /\ metadata'[h]
        /\ \A g \in Host : g # h => setup'[g] = setup[g] /\ metadata'[g] = metadata[g]
    BY <1>1, <1>6 DEF SaveMetadata, serverVars
  <2>2. RunningSound'
    BY <1>1, <2>1 DEF RunningSound, Others
  <2>3. LockStep'
    BY <1>1, <2>1 DEF LockStep, Others
  <2>4. AtMostOneInGap'
    BY <1>2, <2>1
  <2> QED BY <2>2, <2>3, <2>4 DEF CalmInv
<1> QED BY <1>3, <1>4, <1>5, <1>6

\* The hand-off: everybody else waits for the same confirmation or has its
\* service, so nobody else is in the gap.
LEMMA HandoffKeepsCalm ==
  ASSUME CalmNetwork, Key1Inv, CalmInv, NEW h \in Host, ConfirmHandoff(h)
  PROVE  CalmInv'
<1>1. /\ RunningSound /\ LockStep /\ AtMostOneInGap
      /\ setup \in [Host -> {"new", "poll", "publish", "gate", "over"}]
      /\ up \in [Host -> BOOLEAN]
  BY DEF CalmInv, Key1Inv, Key1TypeOk, ServerTypeOk
<1>2. /\ UNCHANGED <<service, rolling, remaining, metadata>>
      /\ setup[h] = "gate" /\ setup'[h] = "over" /\ ~up'[h]
      /\ \A g \in Host : g # h => setup'[g] = setup[g] /\ up'[g] = up[g]
  BY <1>1 DEF ConfirmHandoff, StopServer, CrashServer, serverVars, bootVars, playVars
<1>3. \A p \in Others(h) : \/ setup[p] = "gate"
                           \/ setup[p] = "over" /\ service[p] = "active"
  BY DEF ConfirmHandoff, SafeToHandOff, CalmNetwork
<1>4. RunningSound'
  BY <1>1, <1>2 DEF RunningSound, Others
<1>5. LockStep'
  BY <1>1, <1>2, <1>3 DEF LockStep, Others
<1>6. AtMostOneInGap'
  BY <1>2, <1>3 DEF AtMostOneInGap, InGap, Others
<1> QED BY <1>4, <1>5, <1>6 DEF CalmInv

\* Services and the playbook move only hosts whose scripts are over, and none
\* into the gap.
LEMMA ServicesKeepCalm ==
  ASSUME CalmNetwork, Key1Inv, CalmInv, NEW h \in Host,
         BootStep(h) \/ PlayStep(h)
  PROVE  CalmInv'
<1> USE DEF setupVars, bootVars, playVars
<1>1. /\ RunningSound /\ LockStep /\ AtMostOneInGap
      /\ service \in [Host -> {"inactive", "activating", "active"}]
      /\ up \in [Host -> BOOLEAN] /\ rolling \in Host \cup {None} /\ None \notin Host
  BY NetworkAssumption DEF CalmInv, Key1Inv, Key1TypeOk, ServerTypeOk
<1>2. UNCHANGED <<setup, remaining, metadata>>
  BY DEF BootStep, PlayStep, StartService, AskPeer, FinishBoot, RestartUnit, NextUnit,
     Unreachable
<1>3. LockStep'
  BY <1>1, <1>2 DEF LockStep, Others
<1>4. CASE UNCHANGED <<up, service, rolling>>
  <2>1. RunningSound'
    BY <1>1, <1>2, <1>4 DEF RunningSound, Others
  <2>2. AtMostOneInGap'
    BY <1>1, <1>2, <1>4 DEF AtMostOneInGap, InGap
  <2> QED BY <1>3, <2>1, <2>2 DEF CalmInv
<1>5. CASE StartService(h) \/ FinishBoot(h)
  <2>1. /\ setup[h] = "over" /\ service[h] # "active" /\ ~up[h]
        /\ UNCHANGED rolling
        /\ service'[h] = "active" <=> up'[h]
        /\ \A g \in Host : g # h => service'[g] = service[g] /\ up'[g] = up[g]
    <3>1. setup[h] = "over" /\ service[h] # "active" /\ ~up[h]
      BY <1>1, <1>5 DEF StartService, FinishBoot, RunningSound
    <3>2. Decodes(got[h])
      BY DEF Key1Inv, CollectedSound, Decodes, Key1Share, Column
    <3> QED BY <1>1, <1>5, <3>1, <3>2 DEF StartService, FinishBoot, StartServer, serverVars
  <2>2. RunningSound'
    BY <1>1, <1>2, <2>1 DEF RunningSound, Others
  <2>3. AtMostOneInGap'
    BY <1>1, <1>2, <2>1 DEF AtMostOneInGap, InGap
  <2> QED BY <1>3, <2>2, <2>3 DEF CalmInv
<1>6. CASE RestartUnit(h)
  <2>1. /\ setup[h] = "over" /\ rolling = None /\ rolling' = h
        /\ service'[h] = "activating" /\ ~up'[h]
        /\ \A g \in Host : g # h => service'[g] = service[g] /\ up'[g] = up[g]
    <3>1. setup[h] = "over"
      BY <1>1, <1>6 DEF RestartUnit, RunningSound
    <3> QED BY <1>1, <1>6, <3>1 DEF RestartUnit, StopServer, CrashServer, serverVars
  <2>2. RunningSound'
    BY <1>1, <1>2, <2>1 DEF RunningSound, Others
  <2>3. AtMostOneInGap'
    BY <1>1, <1>2, <2>1 DEF AtMostOneInGap, InGap
  <2> QED BY <1>3, <2>2, <2>3 DEF CalmInv
<1>7. CASE NextUnit(h)
  <2>1. /\ UNCHANGED <<up, service>> /\ rolling = h /\ rolling' = None
        /\ service[h] = "active"
    BY <1>7 DEF NextUnit, serverVars
  <2>2. RunningSound'
    BY <1>1, <1>2, <2>1 DEF RunningSound, Others
  <2>3. AtMostOneInGap'
    BY <1>1, <1>2, <2>1 DEF AtMostOneInGap, InGap
  <2> QED BY <1>3, <2>2, <2>3 DEF CalmInv
<1>8. ASSUME (\E p \in Host : AskPeer(h, p)) \/ Unreachable(h)
      PROVE  UNCHANGED <<up, service, rolling>>
  BY <1>8 DEF AskPeer, Unreachable, serverVars
<1> QED BY <1>4, <1>5, <1>6, <1>7, <1>8 DEF BootStep, PlayStep

\* The inductive invariant of a calm network.
LEMMA CalmInvariant == ASSUME CalmNetwork PROVE Spec => [](Key1Inv /\ CalmInv)
<1>1. Key1Inv /\ CalmInv /\ [Next]_vars => CalmInv'
  <2> SUFFICES ASSUME Key1Inv, CalmInv, [Next]_vars PROVE CalmInv'
    OBVIOUS
  <2>1. ASSUME NEW h \in Host, SetupStep(h) PROVE CalmInv'
    BY <2>1, SetupKeepsCalm, HandoffKeepsCalm DEF SetupStep
  <2>2. ASSUME NEW h \in Host, BootStep(h) \/ PlayStep(h) PROVE CalmInv'
    BY <2>2, ServicesKeepCalm
  <2>3. ASSUME NEW h \in Host, Failure(h) PROVE FALSE
    <3>1. ~(crashes < MaxCrashes)
      BY DEF CalmNetwork, Key1Inv, Key1TypeOk
    <3> QED BY <2>3, <3>1 DEF Failure, Crash, ProcessFailure, CrashProcess, AbortSetup,
         CutAnswer, StartFails
  <2>4. CASE UNCHANGED vars
    <3> USE DEF vars, serverVars, setupVars, bootVars, playVars
    <3>1. RunningSound' /\ LockStep'
      BY <2>4 DEF CalmInv, RunningSound, LockStep, Others
    <3>2. AtMostOneInGap'
      BY <2>4 DEF CalmInv, AtMostOneInGap, InGap
    <3> QED BY <3>1, <3>2 DEF CalmInv
  <2> QED BY <2>1, <2>2, <2>3, <2>4 DEF Next
<1> QED BY <1>1, CalmInit, Key1Invariant, PTL DEF Spec

\* Without faults no setup script stops short of publishing its KEY1, in
\* whatever order the scripts run and the operators confirm them
\* (setup_secretweb._poll_for_hosts_online, _publish_key1_to_network).
THEOREM SetupGoesThrough == ASSUME CalmNetwork PROVE Spec => []SetupSucceeds
<1>1. CalmInv => SetupSucceeds
  BY DEF CalmInv, RunningSound, SetupSucceeds
<1> QED BY <1>1, CalmInvariant, PTL

\* At most one host is between its temporary server and its service
\* (setup_secretweb._manual_systemd_handoff).
THEOREM OneHostInGap == ASSUME CalmNetwork PROVE Spec => []AtMostOneInGap
<1>1. CalmInv => AtMostOneInGap
  BY DEF CalmInv
<1> QED BY <1>1, CalmInvariant, PTL

\* A quorum is left when one of three or more peers is missing.
LEMMA QuorumWithoutOne ==
  ASSUME NEW h \in Host, Cardinality(Host) >= 4, TrustedPeers(h) = Others(h),
         NEW q, \A p \in Others(h) : p # q => up[p]
  PROVE  QuorumUp(h)
<1> DEFINE S == {p \in TrustedPeers(h) : up[p]}
<1>1. /\ IsFiniteSet(Others(h)) /\ ShareCount(h) \in Nat /\ ShareCount(h) >= 3
  <2>1. /\ IsFiniteSet(Host \ {h})
        /\ Cardinality(Host \ {h}) = Cardinality(Host) - 1
    BY NetworkAssumption, FS_RemoveElement
  <2>2. Cardinality(Host) \in Nat
    BY NetworkAssumption
  <2> QED BY <2>1, <2>2 DEF Others, ShareCount
<1>2. /\ IsFiniteSet(Others(h) \ {q})
      /\ Cardinality(Others(h) \ {q}) \in Nat
      /\ Cardinality(Others(h) \ {q}) >= ShareCount(h) - 1
  <2>1. /\ IsFiniteSet(Others(h) \ {q})
        /\ Cardinality(Others(h) \ {q})
              = IF q \in Others(h) THEN Cardinality(Others(h)) - 1
                                   ELSE Cardinality(Others(h))
    <3> DEFINE O == Others(h)
    <3>1. IsFiniteSet(O)
      BY <1>1
    <3> HIDE DEF O
    <3>2. /\ IsFiniteSet(O \ {q})
          /\ Cardinality(O \ {q})
                = IF q \in O THEN Cardinality(O) - 1 ELSE Cardinality(O)
      BY <3>1, FS_RemoveElement
    <3> QED BY <3>2 DEF O
  <2>2. Cardinality(Others(h) \ {q}) >= ShareCount(h) - 1
    BY <1>1, <2>1 DEF ShareCount
  <2> QED BY <2>1, <2>2, FS_CardinalityType
<1>3. Others(h) \ {q} \subseteq S /\ S \subseteq Others(h)
  OBVIOUS
<1>4. /\ IsFiniteSet(S) /\ Cardinality(S) \in Nat
      /\ Cardinality(Others(h) \ {q}) <= Cardinality(S)
  BY <1>1, <1>3, FS_Subset, FS_CardinalityType
<1>5. Treshold(h) <= ShareCount(h) - 1
  BY <1>1 DEF Treshold
<1>6. Treshold(h) \in Nat
  BY Key1ShareFacts
<1>7. Cardinality(S) >= Treshold(h)
  <2> HIDE DEF S
  <2> QED BY <1>1, <1>2, <1>4, <1>5, <1>6
<1> QED BY <1>7 DEF QuorumUp

\* With the four hosts setup asks for and all of them trusted, a host that
\* waits for shares has a quorum of running peers, even while restart.yml runs
\* during the hand-off: only the host in the gap and the one that is restarted
\* are down, and it is one of them (initiator._collect_key1).
THEOREM NobodyWaitsInCircle ==
  ASSUME CalmNetwork, Cardinality(Host) >= 4,
         \A h \in Host : TrustedPeers(h) = Others(h)
  PROVE  Spec => []NobodyWaitsForTheWaiting
<1>1. Key1Inv /\ CalmInv => NobodyWaitsForTheWaiting
  <2> SUFFICES ASSUME Key1Inv, CalmInv, NEW h \in Host, service[h] = "activating"
               PROVE  QuorumUp(h)
    BY DEF NobodyWaitsForTheWaiting
  <2>1. setup[h] = "over"
    BY DEF CalmInv, RunningSound
  <2>2. \A p \in Others(h) : ~up[p] => InGap(p) \/ rolling = p
    BY <2>1 DEF CalmInv, RunningSound, LockStep, InGap, Others
  <2>3. InGap(h) \/ rolling = h
    BY <2>1 DEF InGap
  <2>4. \A p, r \in Others(h) : ~up[p] /\ ~up[r] => p = r
    BY <2>2, <2>3 DEF CalmInv, AtMostOneInGap, Others
  <2>5. PICK q : \A p \in Others(h) : p # q => up[p]
    BY <2>4
  <2> QED BY <2>5, QuorumWithoutOne
<1> QED BY <1>1, CalmInvariant, PTL

-----------------------------------------------------------------------------
(* What a peer has under a host's KEY1 uuid it was able to accept, so it     *)
(* hands it out.                                                            *)

Acceptable(h, p) == WellFormed(Key1Share(h, p)) /\ OwnerMatches(Cert[h], OwnName[h])

\* What is held was accepted, in memory and in files.
AcceptedValid ==
    \A h \in Host : \A p \in Others(h) :
        shares[p][KeyUuid[h]] # None \/ sharesDta[p][KeyUuid[h]] # None => Acceptable(h, p)

\* What servers forget or reload was accepted before.
LEMMA QuietKeepsAccepted ==
  ASSUME AcceptedValid, ServersQuiet
  PROVE  AcceptedValid'
<1> SUFFICES ASSUME NEW h \in Host, NEW p \in Others(h),
                    shares'[p][KeyUuid[h]] # None \/ sharesDta'[p][KeyUuid[h]] # None
             PROVE  Acceptable(h, p)
  BY DEF AcceptedValid, Acceptable, Others, Key1Share, Column, Treshold, ShareCount
<1>1. p \in Host /\ KeyUuid[h] \in UUID
  BY Key1ShareFacts DEF Others
<1> QED BY <1>1 DEF AcceptedValid, ServersQuiet

\* A server takes a share only if its checks allow it.
LEMMA PostKeepsAccepted ==
  ASSUME Key1TypeOk, AcceptedValid, NEW h \in Host, NEW p \in Host, NEW status,
         StoreShare(p, Cert[h], KeyUuid[h], Key1Share(h, p), status)
  PROVE  AcceptedValid'
<1>1. /\ KeyUuid[h] \in UUID
      /\ shares \in [Host -> [UUID -> Payload \cup {None}]]
      /\ sharesDta \in [Host -> [UUID -> Payload \cup {None}]]
  BY Key1ShareFacts DEF Key1TypeOk, ServerTypeOk
<1> SUFFICES ASSUME NEW g \in Host, NEW q \in Others(g),
                    shares'[q][KeyUuid[g]] # None \/ sharesDta'[q][KeyUuid[g]] # None
             PROVE  Acceptable(g, q)
  BY DEF AcceptedValid, Acceptable, Others, Key1Share, Column, Treshold, ShareCount
<1>2. q \in Host /\ KeyUuid[g] \in UUID /\ (KeyUuid[g] = KeyUuid[h] => g = h)
  BY Key1ShareFacts, NetworkAssumption DEF Others
<1>3. shares[q][KeyUuid[g]] # None \/ sharesDta[q][KeyUuid[g]] # None => Acceptable(g, q)
  BY DEF AcceptedValid
<1>4. CASE UNCHANGED serverVars
  BY <1>3, <1>4 DEF serverVars
<1>5. CASE /\ ValidShare(KeyUuid[h], Key1Share(h, p))
           /\ OwnerMatches(Cert[h], Key1Share(h, p).owner)
           /\ StoreNewShare(p, KeyUuid[h], Key1Share(h, p), status)
  <2>1. Acceptable(h, p)
    BY <1>5 DEF Acceptable, ValidShare, Key1Share, Column
  <2>2. q # p \/ g # h => /\ shares'[q][KeyUuid[g]] = shares[q][KeyUuid[g]]
                          /\ sharesDta'[q][KeyUuid[g]]
                               \in {sharesDta[q][KeyUuid[g]], shares'[q][KeyUuid[g]]}
    BY <1>1, <1>2, <1>5 DEF StoreNewShare, PersistShares
  <2> QED BY <1>3, <2>1, <2>2
<1> QED BY <1>4, <1>5 DEF StoreShare

\* All other steps leave servers alone, or start or end one.
LEMMA AcceptedKept ==
  ASSUME Key1Inv, AcceptedValid, [Next]_vars
  PROVE  AcceptedValid'
<1>1. ServerTypeOk /\ DiskInMemory /\ Key1TypeOk
  BY DEF Key1Inv, Key1TypeOk
<1>2. ASSUME NEW h \in Host,
             UNCHANGED serverVars \/ CrashServer(h) \/ StartServer(h) \/ StopServer(h)
      PROVE  AcceptedValid'
  BY <1>1, <1>2, ServersStepQuietly, QuietKeepsAccepted
<1>3. CASE UNCHANGED vars
  <2>1. ServersQuiet
    BY <1>3 DEF vars, serverVars, ServersQuiet
  <2> QED BY <2>1, QuietKeepsAccepted
<1>4. ASSUME NEW h \in Host, SetupStep(h) PROVE AcceptedValid'
  <2>1. ASSUME NEW p \in Host, NEW status, PublishShare(h, p, status)
        PROVE  AcceptedValid'
    BY <1>1, <2>1, PostKeepsAccepted DEF PublishShare
  <2>2. ASSUME NEW p \in Host, PublishFails(h, p)
        PROVE  AcceptedValid'
    BY <1>1, <1>2, <2>2, PostKeepsAccepted DEF PublishFails
  <2>3. CASE RunSetup(h) \/ (\E p \in Host : SeeOnline(h, p)) \/ SaveMetadata(h)
               \/ ConfirmHandoff(h)
    <3>1. UNCHANGED serverVars \/ StartServer(h) \/ StopServer(h)
      BY <2>3 DEF RunSetup, SeeOnline, SaveMetadata, ConfirmHandoff
    <3> QED BY <1>2, <3>1
  <2> QED BY <1>4, <2>1, <2>2, <2>3 DEF SetupStep
<1>5. ASSUME NEW h \in Host, BootStep(h) \/ PlayStep(h) \/ Failure(h)
      PROVE  AcceptedValid'
  <2>1. \/ UNCHANGED serverVars \/ StartServer(h) \/ StopServer(h)
        \/ \E p \in Host : CrashServer(p)
    BY <1>5 DEF BootStep, PlayStep, Failure, StartService, AskPeer, FinishBoot,
       RestartUnit, NextUnit,
       Unreachable, Crash, ProcessFailure, CrashProcess, AbortSetup, CutAnswer,
       StartFails, UnitFails
  <2> QED BY <1>2, <2>1
<1> QED BY <1>3, <1>4, <1>5 DEF Next

\* Nothing is held at first.
LEMMA AcceptedInit == Init => AcceptedValid
BY Key1ShareFacts DEF Init, EmptyShares, AcceptedValid, Others

\* A trusted peer of a host whose KEY1 is published answers if it is up, with
\* the share it was sent.
LEMMA PublishedAnswers ==
  ASSUME Key1Inv, AcceptedValid, NEW h \in Host, metadata[h], NEW p \in TrustedPeers(h)
  PROVE  /\ p \in Host /\ p \in Others(h)
         /\ WellFormed(Key1Share(h, p))
         /\ up[p] => /\ GetShareStatus(p, Cert[h], KeyUuid[h]) = 200
                     /\ shares[p][KeyUuid[h]] = Key1Share(h, p)
<1>1. p \in Host /\ p \in Others(h) /\ KeyUuid[h] \in UUID /\ Key1Share(h, p) # None
  BY Key1ShareFacts DEF TrustedPeers, Others
<1>2. sharesDta[p][KeyUuid[h]] = Key1Share(h, p)
  BY <1>1 DEF Key1Inv, PublishedSound, Counted
<1>3. up[p] => shares[p][KeyUuid[h]] = Key1Share(h, p)
  BY <1>1, <1>2 DEF Key1Inv, DiskInMemory
<1>4. WellFormed(Key1Share(h, p)) /\ OwnerMatches(Cert[h], OwnName[h])
  BY <1>1, <1>2 DEF AcceptedValid, Acceptable
<1>5. Key1Share(h, p).owner = OwnName[h]
  BY DEF Key1Share, Column
<1>6. up[p] => GetShareStatus(p, Cert[h], KeyUuid[h]) = 200
  BY <1>1, <1>3, <1>4, <1>5 DEF GetShareStatus
<1> QED BY <1>1, <1>3, <1>4, <1>6

\* A decoder with fewer shares than the treshold is not ready, one with as many is.
LEMMA ReadyAtTreshold ==
  ASSUME NEW h \in Host, NEW held, IsFiniteSet(held),
         \A d \in held : d.treshold = Treshold(h), Cardinality(held) <= Treshold(h)
  PROVE  ReadyToDecode(held) <=> Cardinality(held) = Treshold(h)
<1>1. Cardinality(held) \in Nat /\ Treshold(h) \in Nat /\ Treshold(h) >= 1
  BY Key1ShareFacts, FS_CardinalityType
<1>2. CASE held = {}
  BY <1>1, <1>2, FS_EmptySet DEF ReadyToDecode
<1>3. ASSUME NEW e \in held PROVE ReadyToDecode(held) <=> Cardinality(held) = Treshold(h)
  BY <1>1 DEF ReadyToDecode
<1> QED BY <1>2, <1>3

\* A share of the same split from another peer fits those a decoder holds.
LEMMA ShareFits ==
  ASSUME NEW h \in Host, NEW p \in Host, WellFormed(Key1Share(h, p)), NEW held,
         \A e \in held : e = Key1Share(h, e.x) /\ e.x # p
  PROVE  /\ PopulateDecoder(held, Key1Share(h, p), Key1, OwnName[h])
                = held \cup {Key1Share(h, p)}
         /\ Key1Share(h, p) \notin held
<1> DEFINE d == Key1Share(h, p)
<1>1. \A e \in held : /\ e.uuid = d.uuid /\ e.name = d.name
                      /\ e.shares = d.shares /\ e.treshold = d.treshold
                      /\ e.x # d.x
  BY DEF Key1Share, Column
<1>2. Consistent(held, d, Key1, OwnName[h])
  BY <1>1 DEF Consistent, Key1Share, Column
<1>3. d \notin held
  BY <1>1
<1> HIDE DEF d
<1>4. WellFormed(d)
  BY DEF d
<1>5. PopulateDecoder(held, d, Key1, OwnName[h]) = held \cup {d}
  BY <1>2, <1>4 DEF PopulateDecoder
<1> QED BY <1>3, <1>5 DEF d

-----------------------------------------------------------------------------
(* What a boot finds: every peer that is up has a share that fits.          *)

\* initiator goes no further without the KEY1 metadata in config.ini, which
\* stays there.
BootedPublished == \A h \in Host : service[h] # "inactive" => metadata[h]

LEMMA BootedPublishedStep ==
  ASSUME Key1TypeOk, BootedPublished, [Next]_vars
  PROVE  BootedPublished'
<1> USE DEF setupVars, bootVars, playVars
<1>1. /\ service \in [Host -> {"inactive", "activating", "active"}]
      /\ metadata \in [Host -> BOOLEAN]
  BY DEF Key1TypeOk
<1>2. ASSUME NEW h \in Host, SetupStep(h) PROVE BootedPublished'
  <2>1. UNCHANGED service /\ \A g \in Host : metadata[g] => metadata'[g]
    BY <1>1, <1>2 DEF SetupStep, RunSetup, SeeOnline, PublishShare, PublishFails,
       SaveMetadata, ConfirmHandoff
  <2> QED BY <2>1 DEF BootedPublished
<1>3. ASSUME NEW h \in Host, BootStep(h) \/ PlayStep(h) \/ Failure(h)
      PROVE  BootedPublished'
  <2>1. /\ UNCHANGED metadata
        /\ \A g \in Host : service'[g] \in {service[g], "inactive"}
                             \/ metadata[g] \/ service[g] = "active"
    BY <1>1, <1>3 DEF BootStep, PlayStep, Failure, StartService, AskPeer, FinishBoot,
       RestartUnit, NextUnit,
       Unreachable, Crash, ProcessFailure, CrashProcess, AbortSetup, CutAnswer,
       StartFails, UnitFails, BootedPublished
  <2> QED BY <2>1 DEF BootedPublished
<1>4. CASE UNCHANGED vars
  BY <1>4 DEF vars, BootedPublished
<1> QED BY <1>2, <1>3, <1>4 DEF Next

\* A peer that has not contributed has another coordinate than those that have,
\* and a share of the same split.
LEMMA PeerHasShare ==
  ASSUME Key1Inv, AcceptedValid, NEW h \in Host, metadata[h],
         NEW p \in TrustedPeers(h) \ Contributed(h), up[p]
  PROVE  HasShare(h, p)
<1>1. /\ p \in Host /\ WellFormed(Key1Share(h, p))
      /\ GetShareStatus(p, Cert[h], KeyUuid[h]) = 200
      /\ shares[p][KeyUuid[h]] = Key1Share(h, p)
  BY PublishedAnswers
<1>2. ASSUME NEW e \in got[h] PROVE e = Key1Share(h, e.x) /\ e.x # p
  <2>1. PICK q \in Others(h) : e = Key1Share(h, q)
    BY DEF Key1Inv, CollectedSound
  <2>2. q \in Host /\ e.x = q /\ e.x \in Contributed(h)
    BY <2>1, Key1ShareFacts DEF Others, Contributed
  <2> QED BY <2>1, <2>2
<1>3. PopulateDecoder(got[h], Key1Share(h, p), Key1, OwnName[h])
         = got[h] \cup {Key1Share(h, p)} /\ Key1Share(h, p) \notin got[h]
  BY <1>1, <1>2, ShareFits
<1> QED BY <1>1, <1>3 DEF HasShare

\* The invariant of boots.
BootInv == Key1Inv /\ AcceptedValid /\ BootedPublished

LEMMA BootInvStep == BootInv /\ [Next]_vars => BootInv'
BY Key1Step, AcceptedKept, BootedPublishedStep DEF BootInv, Key1Inv

LEMMA BootInvariant == Spec => []BootInv
<1>1. Init => BootInv
  BY Key1Init, AcceptedInit DEF BootInv, BootedPublished, Init
<1> QED BY <1>1, BootInvStep, PTL DEF Spec

LEMMA NotInVainByInv == BootInv => NoPeerAskedInVain
BY PeerHasShare DEF BootInv, BootedPublished, NoPeerAskedInVain

\* A boot never asks in vain: whichever trusted peer is up and has not
\* contributed has a share the decoder takes, whatever crashed, was lost or cut
\* off before (initiator._collect_key1, server.get_share).
THEOREM NobodyAskedInVain == Spec => []NoPeerAskedInVain
BY BootInvariant, NotInVainByInv, PTL

\* With a quorum of peers up, a decoder that is not ready has somebody to ask.
LEMMA QuorumHasShare ==
  ASSUME BootInv, NEW h \in Host, service[h] = "activating", QuorumUp(h),
         ~ReadyToDecode(got[h])
  PROVE  \E p \in Host : HasShare(h, p)
<1> DEFINE U == {p \in TrustedPeers(h) : up[p]}
<1> DEFINE G == got[h]
<1>1. /\ IsFiniteSet(G) /\ Cardinality(G) \in Nat /\ Cardinality(G) <= Treshold(h)
      /\ Treshold(h) \in Nat /\ \A d \in G : d.treshold = Treshold(h)
  <2>1. \A d \in G : \E q \in Others(h) : d = Key1Share(h, q)
    BY DEF BootInv, Key1Inv, CollectedSound
  <2>2. \A q \in Others(h) : Key1Share(h, q).treshold = Treshold(h)
    BY Key1ShareFacts DEF Others
  <2> QED BY <2>1, <2>2, Key1ShareFacts, FS_CardinalityType
       DEF BootInv, Key1Inv, CollectedSound
<1> DEFINE X == {d.x : d \in G}
<1>2. Cardinality(G) < Treshold(h)
  <2> HIDE DEF G
  <2>1. Cardinality(G) # Treshold(h)
    BY <1>1, ReadyAtTreshold DEF G
  <2> QED BY <1>1, <2>1
<1>3. IsFiniteSet(X) /\ Cardinality(X) \in Nat /\ Cardinality(X) <= Cardinality(G)
  <2> DEFINE f == [d \in G |-> d.x]
  <2>1. f \in Surjection(G, X)
    BY DEF Surjection
  <2> HIDE DEF G, f, X
  <2> QED BY <1>1, <2>1, FS_Surjection, FS_CardinalityType
<1>4. U \subseteq Host /\ IsFiniteSet(U) /\ Cardinality(U) \in Nat
  <2>1. U \subseteq Host
    BY DEF TrustedPeers
  <2> QED BY <2>1, NetworkAssumption, FS_Subset, FS_CardinalityType
<1>5. Cardinality(U) >= Treshold(h)
  BY DEF QuorumUp
<1> HIDE DEF G, X, U
<1>6. ~(U \subseteq X)
  <2> SUFFICES ASSUME U \subseteq X PROVE FALSE
    OBVIOUS
  <2>1. Cardinality(U) <= Cardinality(X)
    BY <1>3, FS_Subset
  <2> QED BY <1>1, <1>2, <1>3, <1>4, <1>5, <2>1
<1>7. PICK p \in U : p \notin X
  BY <1>6
<1>8. p \in TrustedPeers(h) \ Contributed(h) /\ up[p] /\ p \in Host
  BY <1>4, <1>7 DEF U, X, G, Contributed
<1>9. HasShare(h, p)
  BY <1>8, PeerHasShare DEF BootInv, BootedPublished
<1> QED BY <1>8, <1>9

-----------------------------------------------------------------------------
(* A bootstrap is never stuck.                                              *)

\* A script that still polls has somebody to wait for.
PollsForSome == \A h \in Host : setup[h] = "poll" => remaining[h] # {}

LEMMA PollingGoesOn ==
  ASSUME Cardinality(Host) >= 4
  PROVE  Spec => []PollsForSome
<1> USE DEF setupVars, bootVars, playVars
<1>1. \A h \in Host : Others(h) # {}
  <2> SUFFICES ASSUME NEW h \in Host, Others(h) = {} PROVE FALSE
    OBVIOUS
  <2>1. Others(h) = {}
    OBVIOUS
  <2>2. IsFiniteSet({}) /\ Cardinality({}) = 0
    BY FS_EmptySet
  <2>3. Cardinality(Host \ {h}) = Cardinality(Host) - 1
    BY NetworkAssumption, FS_RemoveElement
  <2>4. Cardinality(Host) \in Nat
    BY NetworkAssumption
  <2>5. Cardinality(Host \ {h}) # 0
    BY <2>3, <2>4
  <2> QED BY <2>1, <2>2, <2>5 DEF Others
<1>2. Init => PollsForSome
  BY DEF Init, PollsForSome
<1>3. Key1Inv /\ PollsForSome /\ [Next]_vars => PollsForSome'
  <2> SUFFICES ASSUME Key1Inv, PollsForSome, [Next]_vars PROVE PollsForSome'
    OBVIOUS
  <2>1. /\ setup \in [Host -> {"new", "poll", "publish", "gate", "over"}]
        /\ remaining \in [Host -> SUBSET Host]
    BY DEF Key1Inv, Key1TypeOk
  <2>2. ASSUME NEW h \in Host, SetupStep(h) PROVE PollsForSome'
    <3>1. /\ \A g \in Host : g # h => setup'[g] = setup[g] /\ remaining'[g] = remaining[g]
          /\ setup'[h] = "poll" => remaining'[h] # {}
      BY <1>1, <2>1, <2>2 DEF SetupStep, RunSetup, SeeOnline, PublishShare, PublishFails,
         SaveMetadata, ConfirmHandoff, PollsForSome
    <3> QED BY <3>1 DEF PollsForSome
  <2>3. ASSUME NEW h \in Host, BootStep(h) \/ PlayStep(h) \/ Failure(h)
        PROVE  PollsForSome'
    <3>1. UNCHANGED remaining /\ \A g \in Host : setup'[g] \in {setup[g], "over"}
      BY <2>1, <2>3 DEF BootStep, PlayStep, Failure, StartService, AskPeer, FinishBoot,
         RestartUnit, NextUnit,
       Unreachable, Crash, ProcessFailure, CrashProcess, AbortSetup, CutAnswer,
       StartFails, UnitFails
    <3> QED BY <3>1 DEF PollsForSome
  <2>4. CASE UNCHANGED vars
    BY <2>4 DEF vars, PollsForSome
  <2> QED BY <2>2, <2>3, <2>4 DEF Next
<1> QED BY <1>2, <1>3, Key1Invariant, PTL DEF Spec

\* A bootstrap in which nothing fails is never stuck, whatever the number of
\* hosts, in whatever order operators run and confirm the scripts, and whenever
\* restart.yml is run: either all hosts are switched over, or what some host
\* waits for is there.  Whoever polls or publishes meets a running server; when
\* all are at the prompt or over, those over have their service or may go on,
\* since their decoders have a quorum to ask; and if they all have it, the next
\* may be confirmed (setup_secretweb._poll_for_hosts_online,
\* _manual_systemd_handoff, initiator._collect_key1).
THEOREM BootstrapNeverStuck ==
  ASSUME CalmNetwork, Cardinality(Host) >= 4,
         \A h \in Host : TrustedPeers(h) = Others(h)
  PROVE  Spec => []BootstrapGoesOn
<1>1. BootInv /\ CalmInv /\ PollsForSome /\ NobodyWaitsForTheWaiting => BootstrapGoesOn
  <2> SUFFICES ASSUME BootInv, CalmInv, PollsForSome, NobodyWaitsForTheWaiting,
                      \A h \in Host : ~MayGoOn(h)
               PROVE  \A h \in Host : service[h] = "active" /\ up[h]
    BY DEF BootstrapGoesOn
  <2>1. /\ setup \in [Host -> {"new", "poll", "publish", "gate", "over"}]
        /\ service \in [Host -> {"inactive", "activating", "active"}]
        /\ RunningSound /\ LockStep
    BY DEF BootInv, Key1Inv, Key1TypeOk, CalmInv
  <2>2. \A h \in Host : setup[h] # "new"
    BY DEF MayGoOn
  <2>3. ASSUME NEW h \in Host, setup[h] \in {"poll", "publish"} PROVE FALSE
    <3>1. \A p \in remaining[h] : up[p]
      <4>1. SUFFICES ASSUME NEW p \in remaining[h] PROVE up[p]
        OBVIOUS
      <4>2. p \in Host /\ setup[p] # "over"
        BY <2>1, <2>3 DEF RunningSound, LockStep, Others
      <4> QED BY <2>1, <2>2, <4>2 DEF RunningSound
    <3> QED BY <2>3, <3>1 DEF MayGoOn, PollsForSome
  <2>4. ASSUME NEW h \in Host, setup[h] = "over" PROVE service[h] = "active" /\ up[h]
    <3>1. service[h] # "inactive"
      BY <2>1, <2>4 DEF RunningSound, MayGoOn
    <3>2. service[h] # "activating"
      BY QuorumHasShare DEF NobodyWaitsForTheWaiting, MayGoOn
    <3> QED BY <2>1, <2>4, <3>1, <3>2 DEF RunningSound
  <2>5. ASSUME NEW h \in Host, setup[h] = "gate" PROVE FALSE
    <3>1. SafeToHandOff(h)
      BY <2>1, <2>2, <2>3, <2>4 DEF SafeToHandOff, Others, CalmNetwork
    <3> QED BY <2>5, <3>1 DEF MayGoOn
  <2> QED BY <2>1, <2>2, <2>3, <2>4, <2>5
<1> QED BY <1>1, BootInvariant, CalmInvariant, PollingGoesOn, NobodyWaitsInCircle, PTL

-----------------------------------------------------------------------------
(* The same from NetworkUp, for hosts setup would have accepted.            *)

\* Three hosts at least, named as their certificates say.
SetUpNetwork ==
  /\ Cardinality(Host) >= 3
  /\ \A h \in Host : OwnerMatches(Cert[h], OwnName[h])

\* A simple majority of two or more is a treshold servers accept.
LEMMA MajorityAcceptable ==
  ASSUME SetUpNetwork, NEW h \in Host, NEW p \in Others(h)
  PROVE  Acceptable(h, p)
<1>1. ShareCount(h) \in Nat /\ ShareCount(h) >= 2
  <2>1. Cardinality(Host \ {h}) = Cardinality(Host) - 1
    BY NetworkAssumption, FS_RemoveElement
  <2> QED BY <2>1, NetworkAssumption DEF ShareCount, Others, SetUpNetwork
<1>2. Treshold(h) >= 2 /\ Treshold(h) <= ShareCount(h)
  BY <1>1 DEF Treshold
<1>3. p \in XCoord
  BY NetworkAssumption DEF Others
<1> QED BY <1>1, <1>2, <1>3 DEF Acceptable, WellFormed, Key1Share, Column, SetUpNetwork

\* A network after its bootstrap is as bootstrap leaves it.
LEMMA NetworkUpInv == SetUpNetwork /\ NetworkUp => Key1Inv /\ AcceptedValid
<1> SUFFICES ASSUME SetUpNetwork, NetworkUp PROVE Key1Inv /\ AcceptedValid
  OBVIOUS
<1>1. ASSUME NEW p \in Host, NEW u \in UUID
      PROVE  /\ sharesDta[p][u] \in Payload \cup {None}
             /\ \A h \in Others(p) : KeyUuid[h] = u => sharesDta[p][u] = Key1Share(h, p)
  <2>1. CASE \E h \in Others(p) : KeyUuid[h] = u
    <3> DEFINE h == CHOOSE g \in Others(p) : KeyUuid[g] = u
    <3>1. h \in Others(p) /\ KeyUuid[h] = u
      BY <2>1
    <3>2. sharesDta[p][u] = Key1Share(h, p)
      BY <2>1 DEF NetworkUp
    <3> HIDE DEF h
    <3>3. \A g \in Others(p) : KeyUuid[g] = u => g = h
      BY <3>1, NetworkAssumption DEF Others
    <3>4. Key1Share(h, p) \in Payload
      BY <3>1, Key1ShareFacts DEF Others
    <3> QED BY <3>2, <3>3, <3>4
  <2>2. CASE ~\E h \in Others(p) : KeyUuid[h] = u
    <3>1. sharesDta[p][u] = None
      BY <2>2 DEF NetworkUp
    <3> QED BY <2>2, <3>1
  <2> QED BY <2>1, <2>2
<1>2. sharesDta \in [Host -> [UUID -> Payload \cup {None}]]
  <2> DEFINE F(p) == [u \in UUID |->
          IF \E h \in Others(p) : KeyUuid[h] = u
          THEN LET h == CHOOSE g \in Others(p) : KeyUuid[g] = u IN Key1Share(h, p)
          ELSE None]
  <2>1. sharesDta = [p \in Host |-> F(p)]
    BY DEF NetworkUp
  <2>2. \A p \in Host : F(p) = [u \in UUID |-> F(p)[u]]
    OBVIOUS
  <2> HIDE DEF F
  <2>3. \A p \in Host : sharesDta[p] = F(p)
    BY <2>1
  <2>4. \A p \in Host : sharesDta[p] \in [UUID -> Payload \cup {None}]
    BY <1>1, <2>2, <2>3
  <2> QED BY <2>1, <2>3, <2>4
<1>3. shares = sharesDta
  BY DEF NetworkUp
<1>4. ServerTypeOk /\ DiskInMemory
  BY <1>2, <1>3 DEF NetworkUp, EmptySecrets, ServerTypeOk, DiskInMemory
<1>5. Key1TypeOk
  BY <1>4, NetworkAssumption DEF NetworkUp, Key1TypeOk
<1>6. \A h \in Host : \A p \in Others(h) : sharesDta[p][KeyUuid[h]] = Key1Share(h, p)
  <2>1. \A h \in Host : \A p \in Others(h) : h \in Others(p) /\ p \in Host /\ KeyUuid[h] \in UUID
    BY Key1ShareFacts DEF Others
  <2> QED BY <1>1, <2>1
<1>7. PublishedSound
  <2>1. \A h \in Host : setup[h] = "over"
    BY DEF NetworkUp
  <2> QED BY <1>3, <1>6, <2>1 DEF PublishedSound, Unsent
<1>8. CollectedSound
  <2>1. \A h \in Host : got[h] = {}
    BY DEF NetworkUp
  <2>2. ASSUME NEW h \in Host
        PROVE  /\ IsFiniteSet(got[h])
               /\ \A d \in got[h] : \E p \in Others(h) : d = Key1Share(h, p)
               /\ Cardinality(got[h]) <= Treshold(h)
    <3>1. IsFiniteSet({}) /\ Cardinality({}) <= Treshold(h)
      BY Key1ShareFacts, FS_EmptySet
    <3> QED BY <2>1, <3>1
  <2> QED BY <2>2 DEF CollectedSound
<1>9. AcceptedValid
  BY MajorityAcceptable DEF AcceptedValid
<1> QED BY <1>4, <1>5, <1>7, <1>8, <1>9 DEF Key1Inv

-----------------------------------------------------------------------------
(* get-key1.                                                                *)

\* To the network, get-key1 is nothing but a server that may die under it.
LEMMA ClientChangesNothing == [ClientNext]_allVars => [Next]_vars
<1> USE DEF Next, Failure
<1>1. CASE ClientStep
  BY <1>1 DEF ClientStep, RunGetKey1, PeerAnswers, PeerSilent, AnswerCut, Finish,
     ProcessFailure
<1>2. ASSUME NEW h \in Host, NetworkStep(h) PROVE [Next]_vars
  BY <1>2 DEF NetworkStep, MachineCrash
<1>3. CASE UNCHANGED allVars
  BY <1>3 DEF allVars
<1> QED BY <1>1, <1>2, <1>3 DEF ClientNext

\* Metadata, once in config.ini, stays there.
LEMMA MetadataStays ==
  ASSUME Key1TypeOk, [Next]_vars, NEW h \in Host, metadata[h]
  PROVE  metadata'[h]
<1> USE DEF setupVars
<1>1. ASSUME NEW g \in Host, SetupStep(g) PROVE metadata'[h]
  BY <1>1 DEF Key1TypeOk, SetupStep, RunSetup, SeeOnline, PublishShare, PublishFails,
     SaveMetadata, ConfirmHandoff
<1>2. ASSUME NEW g \in Host, BootStep(g) \/ PlayStep(g) \/ Failure(g)
      PROVE  UNCHANGED metadata
  BY <1>2 DEF BootStep, PlayStep, Failure, StartService, AskPeer, FinishBoot,
     RestartUnit, NextUnit, Unreachable, Crash, ProcessFailure, CrashProcess,
     AbortSetup, CutAnswer, StartFails
<1>3. CASE UNCHANGED vars
  BY <1>3 DEF vars
<1> QED BY <1>1, <1>2, <1>3 DEF Next

\* The shares of the peers in P.
SharesOf(P) == {Key1Share(ClientHost, p) : p \in P}

\* The peers that have answered.
Answered == TrustedPeers(ClientHost) \ (toAsk \cup silent)

\* Every peer that answered contributed: the decoder misses none but those that
\* were silent, and gets ready with a treshold of shares.
ClientInv ==
    /\ ClientTypeOk
    /\ toAsk \subseteq TrustedPeers(ClientHost) /\ toAsk \cap silent = {}
    /\ IsFiniteSet(obtained) /\ Cardinality(obtained) <= Treshold(ClientHost)
    /\ obtained \subseteq SharesOf(Others(ClientHost))
    /\ command = "asking" => metadata[ClientHost]
    /\ command \in {"asking", "gave up"} => obtained = SharesOf(Answered)
    /\ command = "gave up" => toAsk = {} /\ ~ReadyToDecode(obtained)
    /\ command = "printed" => ReadyToDecode(obtained)

\* Trusted peers are others.
LEMMA TrustedAreOthers ==
  /\ TrustedPeers(ClientHost) \subseteq Others(ClientHost)
  /\ Others(ClientHost) \subseteq Host
  /\ ClientHost \in Host
BY ClientAssumption DEF TrustedPeers, Others

\* A decoder that holds nothing.
LEMMA NothingObtained ==
  /\ IsFiniteSet({}) /\ Cardinality({}) <= Treshold(ClientHost)
  /\ {} \subseteq SharesOf(Others(ClientHost)) /\ {} \subseteq Payload
BY Key1ShareFacts, FS_EmptySet, ClientAssumption

\* Shares of others carry the split's treshold and their peer's coordinate.
LEMMA ObtainedFacts ==
  ASSUME ClientInv
  PROVE  /\ Cardinality(obtained) \in Nat /\ Treshold(ClientHost) \in Nat
         /\ \A d \in obtained : /\ d = Key1Share(ClientHost, d.x) /\ d.x \in Host
                                /\ d.treshold = Treshold(ClientHost)
         /\ ReadyToDecode(obtained) => Cardinality(obtained) = Treshold(ClientHost)
         /\ ~ReadyToDecode(obtained) => Cardinality(obtained) < Treshold(ClientHost)
<1>1. IsFiniteSet(obtained) /\ Cardinality(obtained) <= Treshold(ClientHost)
  BY DEF ClientInv
<1>2. ASSUME NEW d \in obtained
      PROVE  /\ d = Key1Share(ClientHost, d.x) /\ d.x \in Host
             /\ d.treshold = Treshold(ClientHost)
  <2>1. PICK p \in Others(ClientHost) : d = Key1Share(ClientHost, p)
    BY DEF ClientInv, SharesOf
  <2> QED BY <2>1, TrustedAreOthers, Key1ShareFacts
<1>3. ReadyToDecode(obtained) <=> Cardinality(obtained) = Treshold(ClientHost)
  BY <1>1, <1>2, TrustedAreOthers, ReadyAtTreshold
<1>4. Cardinality(obtained) \in Nat /\ Treshold(ClientHost) \in Nat
  BY <1>1, TrustedAreOthers, Key1ShareFacts, FS_CardinalityType
<1>5. Cardinality(obtained) # Treshold(ClientHost)
        => Cardinality(obtained) < Treshold(ClientHost)
  BY <1>1, <1>4
<1> QED BY <1>2, <1>3, <1>4, <1>5

\* Before the first command.
LEMMA ClientInvInit == ClientInit => ClientInv
BY NothingObtained DEF ClientInit, ClientInv, ClientTypeOk

\* While the command waits, or has ended.
LEMMA WaitKeepsClient ==
  ASSUME ClientInv, UNCHANGED clientVars, metadata[ClientHost] => metadata'[ClientHost]
  PROVE  ClientInv'
BY DEF clientVars, ClientInv, ClientTypeOk, Answered, SharesOf, Key1Share, Column,
   Treshold, ShareCount, Others, TrustedPeers, ReadyToDecode

\* When it dies nothing is left.
LEMMA DeathKeepsClient == Dies => ClientInv'
<1> SUFFICES ASSUME Dies
             PROVE  /\ {} \subseteq Host
                    /\ IsFiniteSet({}) /\ Cardinality({}) <= Treshold(ClientHost)
                    /\ {} \subseteq Payload
  BY DEF Dies, ClientInv, ClientTypeOk, Answered, SharesOf, Key1Share, Column,
     Treshold, ShareCount, Others, TrustedPeers, ReadyToDecode
<1> QED BY NothingObtained

\* It begins with an empty decoder, and nobody has answered.
LEMMA RunKeepsClient == RunGetKey1 => ClientInv'
<1> SUFFICES ASSUME RunGetKey1
             PROVE  /\ TrustedPeers(ClientHost) \subseteq Host
                    /\ IsFiniteSet({}) /\ Cardinality({}) <= Treshold(ClientHost)
                    /\ {} \subseteq Payload
  BY DEF RunGetKey1, vars, setupVars, ClientInv, ClientTypeOk, Answered, SharesOf,
     Key1Share, Column, Treshold, ShareCount, Others, TrustedPeers, ReadyToDecode
<1> QED BY NothingObtained, TrustedAreOthers

\* The next peer answers: its share fits.
LEMMA AnswerKeepsClient ==
  ASSUME Key1Inv, AcceptedValid, ClientInv, NEW p \in Host, PeerAnswers(p)
  PROVE  ClientInv'
<1> DEFINE d == Key1Share(ClientHost, p)
<1>1. /\ command = "asking" /\ p \in toAsk /\ ~ReadyToDecode(obtained) /\ up[p]
      /\ p \in TrustedPeers(ClientHost) /\ p \in Others(ClientHost)
      /\ ClientHost \in Host /\ metadata[ClientHost] /\ p \notin silent
      /\ UNCHANGED <<vars, command, silent>> /\ toAsk' = toAsk \ {p}
  BY TrustedAreOthers DEF PeerAnswers, Asks, ClientInv
<1>2. /\ WellFormed(d) /\ ShareStatus(p) = 200
      /\ shares[p][KeyUuid[ClientHost]] = d
  BY <1>1, PublishedAnswers DEF ShareStatus
<1>3. obtained = SharesOf(Answered) /\ Answered \subseteq Others(ClientHost) /\ p \notin Answered
  BY <1>1, TrustedAreOthers DEF ClientInv, Answered
<1>4. \A e \in obtained : e = Key1Share(ClientHost, e.x) /\ e.x # p
  BY <1>1, <1>3, TrustedAreOthers, Key1ShareFacts DEF SharesOf
<1>5. obtained' = obtained \cup {d} /\ d \notin obtained
  BY <1>1, <1>2, <1>4, ShareFits DEF PeerAnswers
<1>6. d \in Payload
  BY <1>1, Key1ShareFacts
<1>7. Cardinality(obtained) < Treshold(ClientHost)
  BY <1>1, ObtainedFacts DEF ClientInv
<1>8. IsFiniteSet(obtained') /\ Cardinality(obtained') <= Treshold(ClientHost)
  <2> HIDE DEF d
  <2>1. IsFiniteSet(obtained) /\ Cardinality(obtained) \in Nat /\ Treshold(ClientHost) \in Nat
    BY ObtainedFacts DEF ClientInv
  <2>2. /\ IsFiniteSet(obtained \cup {d})
        /\ Cardinality(obtained \cup {d}) = Cardinality(obtained) + 1
    BY <1>5, <2>1, FS_AddElement
  <2> QED BY <1>5, <1>7, <2>1, <2>2
<1>9. SharesOf(Answered \cup {p}) = SharesOf(Answered) \cup {d}
  BY DEF SharesOf
<1>10. TrustedPeers(ClientHost) \ (toAsk' \cup silent') = Answered \cup {p}
  BY <1>1 DEF Answered
<1>11. /\ obtained' = SharesOf(TrustedPeers(ClientHost) \ (toAsk' \cup silent'))
       /\ obtained' \subseteq SharesOf(Others(ClientHost))
  <2>1. SharesOf(Answered \cup {p}) \subseteq SharesOf(Others(ClientHost))
    BY <1>1, <1>3 DEF SharesOf
  <2> QED BY <1>3, <1>5, <1>9, <1>10, <2>1
<1>12. /\ toAsk' \subseteq TrustedPeers(ClientHost) /\ toAsk' \cap silent' = {}
       /\ command' = "asking" /\ metadata'[ClientHost]
       /\ toAsk' \subseteq Host /\ silent' \subseteq Host /\ obtained' \subseteq Payload
  BY <1>1, <1>5, <1>6 DEF ClientInv, ClientTypeOk, vars, setupVars
<1> HIDE DEF d
<1> SUFFICES /\ IsFiniteSet(obtained') /\ Cardinality(obtained') <= Treshold(ClientHost)
             /\ obtained' \subseteq SharesOf(Others(ClientHost))
             /\ obtained' = SharesOf(TrustedPeers(ClientHost) \ (toAsk' \cup silent'))
  BY <1>12 DEF ClientInv, ClientTypeOk, Answered, SharesOf, Key1Share, Column,
     Treshold, ShareCount, Others, TrustedPeers
<1> QED BY <1>8, <1>11

\* The next peer does not.
LEMMA SilenceKeepsClient ==
  ASSUME ClientInv, NEW p \in Host, PeerSilent(p)
  PROVE  ClientInv'
<1>1. /\ command = "asking" /\ p \in toAsk /\ UNCHANGED <<vars, command, obtained>>
      /\ toAsk' = toAsk \ {p} /\ silent' = silent \cup {p}
  BY DEF PeerSilent, NextPeer, Asks
<1>2. toAsk' \cup silent' = toAsk \cup silent
  BY <1>1
<1> QED BY <1>1, <1>2 DEF ClientInv, ClientTypeOk, Answered, SharesOf, Key1Share,
     Column, Treshold, ShareCount, Others, TrustedPeers, vars, setupVars

\* No share is damaged, so what is ready decodes.
LEMMA FinishKeepsClient ==
  ASSUME ClientInv, Finish
  PROVE  ClientInv'
<1>1. Decodes(obtained)
  <2>1. \A d \in obtained : \E p \in Others(ClientHost) : d = Key1Share(ClientHost, p)
    BY DEF ClientInv, SharesOf
  <2> QED BY <2>1 DEF Decodes, Key1Share, Column
<1>2. /\ command = "asking" /\ (toAsk = {} \/ ReadyToDecode(obtained))
      /\ command' = IF ReadyToDecode(obtained) THEN "printed" ELSE "gave up"
      /\ toAsk' = {} /\ UNCHANGED <<vars, obtained, silent>>
  BY <1>1 DEF Finish
<1>3. CASE ReadyToDecode(obtained)
  BY <1>2, <1>3 DEF ClientInv, ClientTypeOk, SharesOf, Key1Share, Column, Treshold,
     ShareCount, Others, TrustedPeers, ReadyToDecode
<1>4. CASE ~ReadyToDecode(obtained)
  <2>1. toAsk' = toAsk
    BY <1>2, <1>4
  <2> QED BY <1>2, <1>4, <2>1 DEF ClientInv, ClientTypeOk, Answered, SharesOf,
       Key1Share, Column, Treshold, ShareCount, Others, TrustedPeers, ReadyToDecode
<1> QED BY <1>3, <1>4

\* The invariant of get-key1 among everything else.
OperationInv == BootInv /\ ClientInv

LEMMA OperationInvStep == OperationInv /\ [ClientNext]_allVars => OperationInv'
<1> SUFFICES ASSUME BootInv, ClientInv, [ClientNext]_allVars PROVE BootInv' /\ ClientInv'
  BY DEF OperationInv
<1>1. [Next]_vars /\ BootInv'
  BY ClientChangesNothing, BootInvStep
<1>2. metadata[ClientHost] => metadata'[ClientHost]
  BY <1>1, MetadataStays, ClientAssumption DEF BootInv, Key1Inv
<1>3. CASE ClientStep
  <2>1. ASSUME NEW p \in Host, PeerAnswers(p) PROVE ClientInv'
    BY <2>1, AnswerKeepsClient DEF BootInv
  <2>2. ASSUME NEW p \in Host, PeerSilent(p) PROVE ClientInv'
    BY <2>2, SilenceKeepsClient
  <2>3. ASSUME NEW p \in Host, AnswerCut(p) PROVE ClientInv'
    BY <2>3, DeathKeepsClient DEF AnswerCut
  <2>4. RunGetKey1 \/ Finish => ClientInv'
    BY RunKeepsClient, FinishKeepsClient
  <2> QED BY <1>1, <1>3, <2>1, <2>2, <2>3, <2>4 DEF ClientStep
<1>4. ASSUME NEW h \in Host, NetworkStep(h) PROVE ClientInv'
  <2>1. Dies \/ UNCHANGED clientVars
    BY <1>4 DEF NetworkStep, MachineCrash
  <2> QED BY <1>2, <2>1, DeathKeepsClient, WaitKeepsClient
<1>5. CASE UNCHANGED allVars
  <2>1. UNCHANGED clientVars
    BY <1>5 DEF allVars
  <2> QED BY <1>1, <1>2, <2>1, WaitKeepsClient
<1> QED BY <1>1, <1>3, <1>4, <1>5 DEF ClientNext

LEMMA OperationInvariant == ClientSpec => []OperationInv
<1>1. Init => BootInv
  BY Key1Init, AcceptedInit DEF BootInv, BootedPublished, Init
<1>2. Init /\ ClientInit => OperationInv
  BY <1>1, ClientInvInit DEF OperationInv
<1> QED BY <1>2, OperationInvStep, PTL DEF ClientSpec

\* Different peers have different shares.
LEMMA OwnByInv == OperationInv => GetKey1PrintsOwn
<1> SUFFICES ASSUME ClientInv, command = "printed"
             PROVE  /\ Cardinality({d.x : d \in obtained}) = Treshold(ClientHost)
                    /\ \A d \in obtained : d = Key1Share(ClientHost, d.x)
  BY DEF OperationInv, GetKey1PrintsOwn
<1>1. /\ \A d \in obtained : d = Key1Share(ClientHost, d.x)
      /\ Cardinality(obtained) = Treshold(ClientHost)
      /\ IsFiniteSet(obtained)
  BY ObtainedFacts DEF ClientInv
<1> DEFINE X == {d.x : d \in obtained}
<1>2. Cardinality(X) = Cardinality(obtained)
  <2> DEFINE f == [d \in obtained |-> d.x]
  <2>1. f \in Bijection(obtained, X)
    BY <1>1 DEF Bijection, Injection, Surjection, IsInjective
  <2>2. ExistsBijection(obtained, X)
    BY <2>1 DEF ExistsBijection
  <2> QED BY <1>1, <2>2, FS_Bijection
<1> QED BY <1>1, <1>2

\* Whatever get-key1 prints is put together from a treshold of shares of its own
\* host's KEY1, from different peers, for any number of hosts and whatever went
\* on between its requests (get_key1_cmd, shamir.populate_decoder).
THEOREM GetKey1IsOwn == ClientSpec => []GetKey1PrintsOwn
BY OperationInvariant, OwnByInv, PTL

\* Who was not silent contributed.
LEMMA ToleratesByInv == OperationInv => GetKey1ToleratesMissing
<1> SUFFICES ASSUME ClientInv, command = "gave up"
             PROVE  Cardinality(TrustedPeers(ClientHost) \ silent) < Treshold(ClientHost)
  BY DEF OperationInv, GetKey1ToleratesMissing
<1> DEFINE A == TrustedPeers(ClientHost) \ silent
<1>1. obtained = SharesOf(A) /\ A \subseteq Host
  BY TrustedAreOthers DEF ClientInv, Answered
<1>2. Cardinality(obtained) < Treshold(ClientHost)
  BY ObtainedFacts DEF ClientInv
<1>3. IsFiniteSet(A)
  BY <1>1, NetworkAssumption, FS_Subset
<1>4. Cardinality(A) = Cardinality(obtained)
  <2> DEFINE f == [p \in A |-> Key1Share(ClientHost, p)]
  <2>1. \A p \in A : Key1Share(ClientHost, p).x = p
    BY <1>1, TrustedAreOthers, Key1ShareFacts
  <2>2. f \in Bijection(A, obtained)
    <3> HIDE DEF A
    <3> QED BY <1>1, <2>1 DEF SharesOf, Bijection, Injection, Surjection, IsInjective
  <2>3. ExistsBijection(A, obtained)
    BY <2>2 DEF ExistsBijection
  <2> QED BY <1>3, <2>3, FS_Bijection
<1> QED BY <1>2, <1>4

\* get-key1 fails only if fewer trusted peers than the treshold answered when
\* they were asked, for any number of hosts, any order, and whatever crashed,
\* booted or restarted between its requests: no answer is lost on the way into
\* the decoder (get_key1_cmd, server.get_share).
THEOREM GetKey1Tolerates == ClientSpec => []GetKey1ToleratesMissing
BY OperationInvariant, ToleratesByInv, PTL

\* In operation, too, get-key1 prints its own host's KEY1 or misses a treshold
\* of answers, config.ini names only what is published, a boot decodes the
\* host's own KEY1, and every peer that is up has a share of it for a boot that
\* lacks one, through any crashes and rolling restarts
\* (secretweb_client.get_key1_cmd, initiator._collect_key1).
THEOREM OperationKeepsKey1 ==
  ASSUME SetUpNetwork
  PROVE  ClientOperation
           => [](/\ GetKey1PrintsOwn /\ GetKey1ToleratesMissing
                 /\ MetadataMeansPublished /\ BootsWithOwnKey /\ NoPeerAskedInVain)
<1>1. NetworkUp /\ ClientInit => OperationInv
  <2>1. NetworkUp => BootedPublished
    BY DEF NetworkUp, BootedPublished
  <2> QED BY <2>1, NetworkUpInv, ClientInvInit DEF BootInv, OperationInv
<1>2. OperationInv => MetadataMeansPublished /\ BootsWithOwnKey /\ NoPeerAskedInVain
  BY PublishedByInv, OwnKeyByInv, NotInVainByInv DEF OperationInv, BootInv
<1> QED BY <1>1, <1>2, OperationInvStep, OwnByInv, ToleratesByInv, PTL DEF ClientOperation, OperationInit

=============================================================================
