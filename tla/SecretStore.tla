---------------------------- MODULE SecretStore ----------------------------
(***************************************************************************)
(* secretweb_client.py's store-secret and get-secret run as one-shot        *)
(* processes against the servers of Server.tla, through peer_client.py.     *)
(*                                                                         *)
(* A server accepts, handshakes and handles one connection at a time        *)
(* (bottle's WSGIRefServer with the handshake inside accept), so conn[h] is *)
(* the one request server h is working on.  A POST is in flight between     *)
(* Send.. and Handle..; the client may give up in between (its 10 s socket  *)
(* timeout, a reset when the server dies) and the handler still runs unless *)
(* the server dies.  A GET changes nothing and is taken as one step.        *)
(***************************************************************************)
EXTENDS Peers

CONSTANTS
    Client,     \* CLI processes, each reused for one command after another
    HostOf,     \* the machine a client runs on
    Treshold,   \* the values --treshold is given or defaults to
    MaxCrashes  \* bound: server crashes in a behaviour

ASSUME DeploymentAssumption ==
    /\ IsFiniteSet(Host)
    /\ HostOf \in [Client -> Host]
    /\ Cert \in [Host -> CommonName]
    /\ Host \subseteq XCoord
    /\ None \notin Host
    /\ Treshold \subseteq Nat
    /\ MaxCrashes \in Nat

VARIABLES
    conn,     \* the request each server is working on
    crashes,  \* server crashes so far
    split,    \* history: what each uuid was created for
    pc,       \* where each command is
    uuid,     \* the version it stores or fetches
    todo,     \* trusted peers it has not asked yet
    wait,     \* the server whose answer it waits for
    saved,    \* store-secret: the peers that answered OK
    got,      \* get-secret: the shares its decoder accepted
    asked,    \* get-secret: the --name it was given
    missed,   \* history: the peers get-secret got no answer from
    result,   \* how the last command ended
    acked     \* history: versions whose store-secret printed OK

getVars == <<got, asked, missed>>
clientVars == <<pc, uuid, todo, wait, saved, getVars, result, acked>>
vars == <<serverVars, conn, crashes, split, clientVars>>

Conn == [client : Client, live : BOOLEAN, kind : {"share", "record"},
         uuid : UUID, saved : Nat]
Split == [host : Host, name : Name, treshold : Nat, shares : Nat,
          over : SUBSET UUID]

ASSUME NoneIsNoConn == None \notin Conn /\ None \notin Split

Outcome == {"none", "stored", "notsafe", "unrecorded",
            "nometadata", "toofew", "got", "garbled"}

SecretStoreTypeOk ==
    /\ ServerTypeOk
    /\ conn \in [Host -> Conn \cup {None}]
    /\ crashes \in 0 .. MaxCrashes
    /\ split \in [UUID -> Split \cup {None}]
    /\ pc \in [Client -> {"idle", "publish", "record", "collect"}]
    /\ uuid \in [Client -> UUID \cup {None}]
    /\ \A c \in Client : pc[c] # "idle" => uuid[c] \in UUID
    /\ todo \in [Client -> SUBSET Host]
    /\ wait \in [Client -> Host \cup {None}]
    /\ saved \in [Client -> SUBSET Host]
    /\ got \in [Client -> SUBSET Payload]
    /\ asked \in [Client -> Name \cup {None}]
    /\ missed \in [Client -> SUBSET Host]
    /\ result \in [Client -> Outcome]
    /\ acked \subseteq UUID

Init ==
    /\ ServerInit
    /\ conn = [h \in Host |-> None]
    /\ crashes = 0
    /\ split = [u \in UUID |-> None]
    /\ pc = [c \in Client |-> "idle"]
    /\ uuid = [c \in Client |-> None]
    /\ todo = [c \in Client |-> {}]
    /\ wait = [c \in Client |-> None]
    /\ saved = [c \in Client |-> {}]
    /\ got = [c \in Client |-> {}]
    /\ missed = [c \in Client |-> {}]
    /\ asked = [c \in Client |-> None]
    /\ result = [c \in Client |-> "none"]
    /\ acked = {}

-----------------------------------------------------------------------------
\* The share of version u meant for peer p.
ShareFor(u, p) ==
    Column(split[u].host, split[u].name, u, p, split[u].treshold, split[u].shares)

RecordOf(r) ==
    [uuid |-> r.uuid, treshold |-> split[r.uuid].treshold, shares_saved |-> r.saved]

\* The server is free to take the next connection.
Free(h) == up[h] /\ conn[h] = None

\* A command ends: the process prints how, and is gone with all it knew.
Exit(c, outcome) ==
    /\ pc' = [pc EXCEPT ![c] = "idle"]
    /\ result' = [result EXCEPT ![c] = outcome]
    /\ uuid' = [uuid EXCEPT ![c] = None]
    /\ todo' = [todo EXCEPT ![c] = {}]
    /\ saved' = [saved EXCEPT ![c] = {}]
    /\ got' = [got EXCEPT ![c] = {}]
    /\ asked' = [asked EXCEPT ![c] = None]
    /\ missed' = [missed EXCEPT ![c] = {}]

\* The client stops waiting; the server still works on its request.
Abandon(c) ==
    /\ wait' = [wait EXCEPT ![c] = None]
    /\ conn' = [h \in Host |->
                  IF wait[c] = h /\ conn[h] # None /\ conn[h].client = c
                  THEN [conn[h] EXCEPT !.live = FALSE] ELSE conn[h]]

-----------------------------------------------------------------------------
(* store-secret: publish one share to each of `shares` trusted peers.       *)

\* _shares_and_treshold(): what the defaults and the overrides may give
ValidSplit(peers, shareCount, treshold) ==
    /\ shareCount <= Cardinality(peers)
    /\ 2 <= treshold /\ treshold <= shareCount

\* The versions whose store-secret has exited (or was killed) by now.
Over == {w \in UUID : split[w] # None /\ \A c \in Client :
            pc[c] \in {"publish", "record"} => uuid[c] # w}

\* The peers that get a share are some `shares` of the trusted ones (the
\* code takes the first in hosts.json's order).
StoreSecret(c, n, u, targets, t) ==
    LET h == HostOf[c] IN
    /\ pc[c] = "idle"
    /\ split[u] = None
    /\ targets \subseteq TrustedPeers(h)
    /\ ValidSplit(TrustedPeers(h), Cardinality(targets), t)
    /\ split' = [split EXCEPT ![u] = [host |-> h, name |-> n, treshold |-> t,
                                      shares |-> Cardinality(targets),
                                      over |-> Over]]
    /\ pc' = [pc EXCEPT ![c] = "publish"]
    /\ uuid' = [uuid EXCEPT ![c] = u]
    /\ todo' = [todo EXCEPT ![c] = targets]
    /\ result' = [result EXCEPT ![c] = "none"]
    /\ UNCHANGED <<serverVars, conn, crashes, wait, saved, getVars, acked>>

SendShare(c, p) ==
    /\ pc[c] = "publish" /\ wait[c] = None /\ p \in todo[c]
    /\ Free(p)
    /\ conn' = [conn EXCEPT ![p] = [client |-> c, live |-> TRUE, kind |-> "share",
                                    uuid |-> uuid[c], saved |-> 0]]
    /\ wait' = [wait EXCEPT ![c] = p]
    /\ todo' = [todo EXCEPT ![c] = @ \ {p}]
    /\ UNCHANGED <<serverVars, crashes, split, pc, uuid, saved, getVars, result, acked>>

\* Refused, or no connection within the timeout: FAILED, next peer.
SkipPeer(c, p) ==
    /\ pc[c] = "publish" /\ wait[c] = None /\ p \in todo[c]
    /\ todo' = [todo EXCEPT ![c] = @ \ {p}]
    /\ UNCHANGED <<serverVars, conn, crashes, split,
                   pc, uuid, wait, saved, getVars, result, acked>>

\* The handler runs to its end; a client that still waits reads the answer.
HandleShare(p, status) ==
    LET r == conn[p] IN
    /\ r # None /\ r.kind = "share"
    /\ StoreShare(p, Cert[HostOf[r.client]], r.uuid, ShareFor(r.uuid, p), status)
    /\ conn' = [conn EXCEPT ![p] = None]
    /\ wait' = IF r.live THEN [wait EXCEPT ![r.client] = None] ELSE wait
    /\ saved' = IF r.live /\ Confirms(status)
                THEN [saved EXCEPT ![r.client] = @ \cup {p}] ELSE saved
    /\ UNCHANGED <<crashes, split, pc, uuid, todo, getVars, result, acked>>

\* Bug: no timeout on the socket, only a reset ends the wait.
BugNoTimeout(c) ==
    /\ pc[c] = "publish" /\ wait[c] # None
    /\ ~up[wait[c]]
    /\ Abandon(c)
    /\ UNCHANGED <<serverVars, crashes, split,
                   pc, uuid, todo, saved, getVars, result, acked>>

\* Bug: a share whose answer did not come is posted again.
BugRetryShare(c) ==
    /\ pc[c] = "publish" /\ wait[c] # None
    /\ Abandon(c)
    /\ todo' = [todo EXCEPT ![c] = @ \cup {wait[c]}]
    /\ UNCHANGED <<serverVars, crashes, split, pc, uuid, saved, getVars, result, acked>>

\* The wait for an answer to a share ends without one.
GiveUpShare(c) ==
    /\ pc[c] = "publish" /\ wait[c] # None
    /\ Abandon(c)
    /\ UNCHANGED <<serverVars, crashes, split,
                   pc, uuid, todo, saved, getVars, result, acked>>

\* Bug: one share short of the treshold is enough.
BugOneShort(c) == Cardinality(saved[c]) + 1 >= split[uuid[c]].treshold

\* `if successes < treshold`
EnoughSaved(c) == Cardinality(saved[c]) >= split[uuid[c]].treshold

FinishPublishing(c) ==
    /\ pc[c] = "publish" /\ wait[c] = None /\ todo[c] = {}
    /\ \/ /\ EnoughSaved(c)
          /\ pc' = [pc EXCEPT ![c] = "record"]
          /\ UNCHANGED <<uuid, todo, saved, getVars, result>>
       \/ ~EnoughSaved(c) /\ Exit(c, "notsafe")
    /\ UNCHANGED <<serverVars, conn, crashes, split, wait, acked>>

-----------------------------------------------------------------------------
(* store-secret: record the version at the own server, on 127.0.0.1.        *)

SendRecord(c) ==
    LET h == HostOf[c] IN
    /\ pc[c] = "record" /\ wait[c] = None
    /\ Free(h)
    /\ conn' = [conn EXCEPT ![h] = [client |-> c, live |-> TRUE, kind |-> "record",
                                    uuid |-> uuid[c],
                                    saved |-> Cardinality(saved[c])]]
    /\ wait' = [wait EXCEPT ![c] = h]
    /\ UNCHANGED <<serverVars, crashes, split,
                   pc, uuid, todo, saved, getVars, result, acked>>

HandleRecord(h, status) ==
    LET r == conn[h] IN
    /\ r # None /\ r.kind = "record"
    /\ StoreSecretMetadata(h, Cert[HostOf[r.client]], split[r.uuid].name,
                           RecordOf(r), status)
    /\ conn' = [conn EXCEPT ![h] = None]
    /\ \/ /\ r.live
          /\ wait' = [wait EXCEPT ![r.client] = None]
          /\ Exit(r.client, IF Confirms(status) THEN "stored" ELSE "unrecorded")
          /\ acked' = IF Confirms(status) THEN acked \cup {r.uuid} ELSE acked
       \/ ~r.live /\ UNCHANGED clientVars
    /\ UNCHANGED <<crashes, split>>

\* No connection, or no answer in time: "recording this secret locally failed"
GiveUpRecord(c) ==
    /\ pc[c] = "record"
    /\ Abandon(c)
    /\ Exit(c, "unrecorded")
    /\ UNCHANGED <<serverVars, crashes, split, acked>>

-----------------------------------------------------------------------------
(* get-secret.                                                              *)

\* The own server names the version, and every trusted peer is a candidate;
\* or it answers 404 or 403, or not at all.
Lookup(c, n) ==
    LET h == HostOf[c] IN
    /\ pc[c] = "idle"
    /\ \/ /\ Free(h) /\ GetSecretMetadataStatus(h, Cert[h], n) = 200
          /\ pc' = [pc EXCEPT ![c] = "collect"]
          /\ uuid' = [uuid EXCEPT ![c] = secrets[h][n].uuid]
          /\ todo' = [todo EXCEPT ![c] = TrustedPeers(h)]
          /\ asked' = [asked EXCEPT ![c] = n]
          /\ result' = [result EXCEPT ![c] = "none"]
          /\ UNCHANGED <<saved, got, missed>>
       \/ Exit(c, "nometadata")
    /\ UNCHANGED <<serverVars, conn, crashes, split, wait, acked>>

\* A peer answers: its share goes to the decoder, or it has none for us.
\* The decoder was built with the name asked for and the own typed name.
FetchShare(c, p) ==
    LET h == HostOf[c] IN
    /\ pc[c] = "collect" /\ p \in todo[c] /\ ~ReadyToDecode(got[c])
    /\ Free(p)
    /\ todo' = [todo EXCEPT ![c] = @ \ {p}]
    /\ got' = IF GetShareStatus(p, Cert[h], uuid[c]) = 200
              THEN [got EXCEPT ![c] = PopulateDecoder(@, shares[p][uuid[c]],
                                        asked[c], OwnName[h])]
              ELSE got
    /\ UNCHANGED <<serverVars, conn, crashes, split,
                   pc, uuid, wait, saved, asked, missed, result, acked>>

MissPeer(c, p) ==
    /\ pc[c] = "collect" /\ p \in todo[c] /\ ~ReadyToDecode(got[c])
    /\ todo' = [todo EXCEPT ![c] = @ \ {p}]
    /\ missed' = [missed EXCEPT ![c] = @ \cup {p}]
    /\ UNCHANGED <<serverVars, conn, crashes, split,
                   pc, uuid, wait, saved, got, asked, result, acked>>

FinishGet(c) ==
    /\ pc[c] = "collect"
    /\ \/ /\ ReadyToDecode(got[c])
          /\ Exit(c, IF Decodes(got[c]) THEN "got" ELSE "garbled")
       \/ ~ReadyToDecode(got[c]) /\ todo[c] = {} /\ Exit(c, "toofew")
    /\ UNCHANGED <<serverVars, conn, crashes, split, wait, acked>>

-----------------------------------------------------------------------------
(* Failures: a server dies with the request it was working on, is started   *)
(* again by its initiator, a command is killed or dies of an answer that is *)
(* cut off.                                                                 *)

Crash(h) ==
    /\ crashes < MaxCrashes
    /\ CrashServer(h)
    /\ crashes' = crashes + 1
    /\ conn' = [conn EXCEPT ![h] = None]
    /\ UNCHANGED <<split, clientVars>>

Start(h) == StartServer(h) /\ UNCHANGED <<conn, crashes, split, clientVars>>

Kill(c) ==
    /\ pc[c] # "idle"
    /\ Abandon(c)
    /\ Exit(c, "none")
    /\ UNCHANGED <<serverVars, crashes, split, acked>>

-----------------------------------------------------------------------------
(* What a started command does until it exits.                              *)
ClientStep(c) ==
    \/ \E p \in Host : SendShare(c, p)
    \/ \E p \in Host : SkipPeer(c, p)
    \/ GiveUpShare(c)
    \/ FinishPublishing(c)
    \/ SendRecord(c)
    \/ GiveUpRecord(c)
    \/ \E p \in Host : FetchShare(c, p)
    \/ \E p \in Host : MissPeer(c, p)
    \/ FinishGet(c)

ServerStep(h) ==
    \/ \E status \in {200, 201, 403, 409, 500} : HandleShare(h, status)
    \/ \E status \in {201, 403, 500} : HandleRecord(h, status)

Next ==
    \/ \E c \in Client :
        \/ \E n \in Name, u \in UUID, targets \in SUBSET Host, t \in Treshold :
              StoreSecret(c, n, u, targets, t)
        \/ \E n \in Name : Lookup(c, n)
        \/ ClientStep(c)
        \/ Kill(c)
    \/ \E h \in Host : ServerStep(h) \/ Crash(h) \/ Start(h)

Spec == Init /\ [][Next]_vars

\* Every socket call of peer_client has a timeout, so a command moves on.
FairSpec == Spec /\ \A c \in Client : WF_vars(ClientStep(c))

-----------------------------------------------------------------------------
(* Properties.                                                              *)

\* The hosts whose shares.dta holds a share of version u.
Holders(u) == {p \in Host : sharesDta[p][u] # None}

\* What a host serves for one of its names, or would after a restart.
Records(h, n) == {secrets[h][n], secretsDta[h][n]} \ {None}

\* Every secret a host has on record - in memory or on disk, whatever failed
\* or crashed on the way - has its treshold of shares on the disks of its
\* peers, and at least shares_saved of them (secretweb_client.store_secret_cmd
\* records only after that many peers confirmed).
RecordedRecoverable ==
    \A h \in Host, n \in Name : \A r \in Records(h, n) :
        r.treshold <= r.shares_saved /\ r.shares_saved <= Cardinality(Holders(r.uuid))

-----------------------------------------------------------------------------
(* The inductive strengthening of RecordedRecoverable.                      *)

Storing(c) == pc[c] \in {"publish", "record"}

\* A request is at a running server; while its client waits for it, the
\* client is where it sent it from.
ConnectionsSound ==
    \A h \in Host : conn[h] # None =>
        /\ up[h]
        /\ split[conn[h].uuid] # None
        /\ conn[h].live => /\ Storing(conn[h].client)
                           /\ wait[conn[h].client] = h
                           /\ uuid[conn[h].client] = conn[h].uuid

\* No server has seen a share that has not reached it yet, so the one POST a
\* share is sent with is never answered "already-stored" or "different".
NotYetSeen(p, u) == shares[p][u] = None /\ sharesDta[p][u] = None

UnsentUnseen ==
    /\ \A c \in Client, p \in Host : pc[c] = "publish" /\ p \in todo[c] =>
            /\ NotYetSeen(p, uuid[c])
            /\ conn[p] # None => conn[p].kind = "record" \/ conn[p].uuid # uuid[c]
    /\ \A p \in Host : conn[p] # None /\ conn[p].kind = "share" =>
            NotYetSeen(p, conn[p].uuid)
    /\ \A p \in Host, u \in UUID : split[u] = None => NotYetSeen(p, u)

\* A version belongs to the one command that drew its uuid.
VersionsOwned ==
    /\ \A c \in Client : Storing(c) => split[uuid[c]] # None
    /\ \A c, d \in Client :
            Storing(c) /\ Storing(d) /\ uuid[c] = uuid[d] => c = d

\* What a command has counted is on disk, and enough of it when it records.
SavedHeld ==
    \A c \in Client :
        /\ IF Storing(c) THEN saved[c] \subseteq Holders(uuid[c]) ELSE saved[c] = {}
        /\ pc[c] = "record" => EnoughSaved(c)

RecordsInFlightRecoverable ==
    \A h \in Host : conn[h] # None /\ conn[h].kind = "record" =>
        /\ split[conn[h].uuid].treshold <= conn[h].saved
        /\ conn[h].saved <= Cardinality(Holders(conn[h].uuid))

StoreInv ==
    /\ SecretStoreTypeOk /\ DiskInMemory
    /\ ConnectionsSound /\ UnsentUnseen /\ VersionsOwned /\ SavedHeld
    /\ RecordsInFlightRecoverable /\ RecordedRecoverable

-----------------------------------------------------------------------------
\* A version that was over before a later version of the same secret was even
\* split is never on record again once that later version's store-secret
\* printed OK: no late request, failed save or restart brings it back.
NoStaleRecord ==
    \A v \in acked : \A w \in split[v].over :
        split[w].host = split[v].host /\ split[w].name = split[v].name =>
            \A r \in Records(split[v].host, split[v].name) : r.uuid # w

\* get-secret gives up only if so many peers did not answer that fewer than
\* treshold of the peers that hold a share did: n - treshold missing peers
\* are tolerated, and no answer of a holder is refused or wasted.
GetToleratesMissingPeers ==
    [][\A c \in Client :
        pc[c] = "collect" /\ result'[c] = "toofew" =>
            Cardinality(Holders(uuid[c]) \ missed[c]) < split[uuid[c]].treshold]_vars

\* When get-secret decodes, it holds as many different shares as the treshold
\* asks for, all of one version its own host split under the name it was
\* asked for, each as it was sent to the peer it came from.
DecodesOwnVersion ==
    \A c \in Client : ReadyToDecode(got[c]) =>
        /\ split[uuid[c]].host = HostOf[c] /\ split[uuid[c]].name = asked[c]
        /\ Cardinality({d.x : d \in got[c]}) = split[uuid[c]].treshold
        /\ \A d \in got[c] : d = ShareFor(uuid[c], d.x)

\* A command can always go on: it waits for no server longer than its timeout.
CommandsGoOn == \A c \in Client : pc[c] # "idle" => ENABLED <<ClientStep(c)>>_vars

\* The steps a command has left at most: two for each peer, and three more.
ToGo(c) ==
    CASE pc[c] = "publish" -> 2 * Cardinality(todo[c]) + (IF wait[c] = None THEN 3 ELSE 4)
      [] pc[c] = "record" -> IF wait[c] = None THEN 2 ELSE 1
      [] pc[c] = "collect" -> Cardinality(todo[c]) + 1
      [] pc[c] = "idle" -> 0

\* Whatever happens to a command, an answer, a timeout or a server that dies,
\* brings it nearer to its end or leaves it where it is: no peer is posted to
\* or asked a second time, and no answer waited for again.
CommandsAdvance ==
    [][\A c \in Client : pc[c] # "idle" =>
         \/ ToGo(c)' < ToGo(c)
         \/ UNCHANGED <<pc[c], uuid[c], todo[c], wait[c], saved[c], got[c], missed[c]>>]_vars

\* Every command ends, however many servers are down, busy or silent.
CommandsEnd == \A c \in Client : pc[c] # "idle" ~> pc[c] = "idle"

=============================================================================
