------------------------------ MODULE Key1Boot ------------------------------
(***************************************************************************)
(* How a network gets its KEY1s and gets them back: on every host,          *)
(* setup_secretweb.py publishes the host's KEY1 to all the others and hands *)
(* over to systemd, one host at a time; from then on initiator.py           *)
(* reconstructs KEY1 from its peers at every start of the service, among    *)
(* crashes and ansible/restart.yml's rolling restart.  The files of one     *)
(* host and reruns of the script are in Setup.tla.                          *)
(***************************************************************************)
EXTENDS Peers

CONSTANTS
    KeyUuid,     \* the uuid of each host's split of its KEY1
    Key1,        \* the name all KEY1s are split under
    Waiting,     \* the states of setup the operator counts as "still waiting
                 \* in its own setup script"
    Faults,      \* which faults publishing may meet: "disk", "timeout"
    MaxCrashes   \* bound: crashes and aborted scripts in a behaviour

\* _match_own_host(): the name the operator typed for this host is taken for
\* its own if it names the same host as the certificate.
MatchesOwnHost(h) ==
    HostnameFromCommonName(OwnName[h]) = HostnameFromCommonName(Cert[h])

ASSUME NetworkAssumption ==
    /\ IsFiniteSet(Host) /\ Host \subseteq XCoord /\ None \notin Host
    /\ Cardinality(Host) \in Nat
    /\ Cert \in [Host -> CommonName]
    /\ KeyUuid \in [Host -> UUID]
    /\ \A h, p \in Host : KeyUuid[h] = KeyUuid[p] => h = p
    /\ \A h \in Host : MatchesOwnHost(h)
    /\ Key1 \in Name
    /\ Waiting \subseteq {"poll", "gate"}
    /\ Faults \subseteq {"disk", "timeout"}
    /\ MaxCrashes \in Nat

VARIABLES
    setup,      \* where each host's setup script is
    remaining,  \* the hosts it has not seen online, or not published to, yet
    metadata,   \* config.ini names the KEY1 split (key1-uuid, ...)
    service,    \* the state of the host's systemd unit
    got,        \* the shares initiator's decoder accepted
    rolling,    \* the host restart.yml is restarting
    restarted,  \* the hosts restart.yml is done with
    crashes     \* crashes so far

setupVars == <<setup, remaining, metadata>>
bootVars == <<service, got>>
playVars == <<rolling, restarted>>
vars == <<serverVars, setupVars, bootVars, playVars, crashes>>

Others(h) == Host \ {h}

\* _shares_and_treshold(): a simple majority of the other hosts
ShareCount(h) == Cardinality(Others(h))
Treshold(h) == ShareCount(h) \div 2 + 1

Key1Share(h, p) == Column(h, Key1, KeyUuid[h], p, Treshold(h), ShareCount(h))

Key1TypeOk ==
    /\ ServerTypeOk
    /\ setup \in [Host -> {"new", "poll", "publish", "gate", "over"}]
    /\ remaining \in [Host -> SUBSET Host]
    /\ metadata \in [Host -> BOOLEAN]
    /\ service \in [Host -> {"inactive", "activating", "active"}]
    /\ got \in [Host -> SUBSET Payload]
    /\ rolling \in Host \cup {None}
    /\ restarted \subseteq Host
    /\ crashes \in 0 .. MaxCrashes

\* Nothing has run yet on any host.
Init ==
    /\ up = [h \in Host |-> FALSE]
    /\ shares = [h \in Host |-> EmptyShares]
    /\ sharesDta = [h \in Host |-> EmptyShares]
    /\ secrets = [h \in Host |-> EmptySecrets]
    /\ secretsDta = [h \in Host |-> EmptySecrets]
    /\ setup = [h \in Host |-> "new"]
    /\ remaining = [h \in Host |-> {}]
    /\ metadata = [h \in Host |-> FALSE]
    /\ service = [h \in Host |-> "inactive"]
    /\ got = [h \in Host |-> {}]
    /\ rolling = None
    /\ restarted = {}
    /\ crashes = 0

-----------------------------------------------------------------------------
(* setup_secretweb.main().                                                  *)

\* Bug: the other hosts are waited for before the temporary server is started.
BugPollFirst(h) ==
    /\ setup[h] = "new"
    /\ setup' = [setup EXCEPT ![h] = "poll"]
    /\ remaining' = [remaining EXCEPT ![h] = Others(h)]
    /\ UNCHANGED <<serverVars, metadata, bootVars, playVars, crashes>>

\* The data files are written and the temporary server runs.
RunSetup(h) ==
    /\ setup[h] = "new"
    /\ StartServer(h)
    /\ setup' = [setup EXCEPT ![h] = "poll"]
    /\ remaining' = [remaining EXCEPT ![h] = Others(h)]
    /\ UNCHANGED <<metadata, bootVars, playVars, crashes>>

\* _poll_for_hosts_online(): a host once seen is not asked again.
SeeOnline(h, p) ==
    /\ setup[h] = "poll" /\ p \in remaining[h]
    /\ up[p]
    /\ IF remaining[h] = {p}
       THEN /\ setup' = [setup EXCEPT ![h] = "publish"]
            /\ remaining' = [remaining EXCEPT ![h] = Others(h)]
       ELSE /\ remaining' = [remaining EXCEPT ![h] = @ \ {p}]
            /\ UNCHANGED setup
    /\ UNCHANGED <<serverVars, metadata, bootVars, playVars, crashes>>

\* _publish_key1_to_network(): the first share that is not confirmed ends
\* the script.  (The code goes through the hosts in the order of its list.)
PublishShare(h, p, status) ==
    /\ setup[h] = "publish" /\ p \in remaining[h]
    /\ status = 500 => "disk" \in Faults
    /\ StoreShare(p, Cert[h], KeyUuid[h], Key1Share(h, p), status)
    /\ IF Confirms(status)
       THEN remaining' = [remaining EXCEPT ![h] = @ \ {p}] /\ UNCHANGED setup
       ELSE setup' = [setup EXCEPT ![h] = "over"] /\ UNCHANGED remaining
    /\ UNCHANGED <<metadata, bootVars, playVars, crashes>>

\* No connection, or an answer that comes too late or not at all.
PublishFails(h, p) ==
    /\ setup[h] = "publish" /\ p \in remaining[h]
    /\ \/ ~up[p] /\ UNCHANGED serverVars
       \/ "timeout" \in Faults /\ UNCHANGED serverVars
       \/ /\ "timeout" \in Faults
          /\ StoreShare(p, Cert[h], KeyUuid[h], Key1Share(h, p), 201)
    /\ setup' = [setup EXCEPT ![h] = "over"]
    /\ UNCHANGED <<remaining, metadata, bootVars, playVars, crashes>>

SaveMetadata(h) ==
    /\ setup[h] = "publish" /\ remaining[h] = {}
    /\ metadata' = [metadata EXCEPT ![h] = TRUE]
    /\ setup' = [setup EXCEPT ![h] = "gate"]
    /\ UNCHANGED <<serverVars, remaining, bootVars, playVars, crashes>>

\* stop_server(): a no-op if there is none.
StopServer(h) == IF up[h] THEN CrashServer(h) ELSE UNCHANGED serverVars

\* Bugs: the hosts are not gone through one at a time; nothing is confirmed.
BugAllAtOnce(h) == \A p \in Others(h) : setup[p] \in Waiting \cup {"over"}
BugUnconfirmed(h) == TRUE

\* "Before continuing here, every OTHER host in the network must be either
\* still safely waiting in its own setup script (like this one), or already
\* fully switched over to systemd."
SafeToHandOff(h) ==
    \A p \in Others(h) :
        \/ setup[p] \in Waiting
        \/ setup[p] = "over" /\ service[p] = "active"

\* _manual_systemd_handoff()
ConfirmHandoff(h) ==
    /\ setup[h] = "gate"
    /\ SafeToHandOff(h)
    /\ StopServer(h)
    /\ setup' = [setup EXCEPT ![h] = "over"]
    /\ UNCHANGED <<remaining, metadata, bootVars, playVars, crashes>>

-----------------------------------------------------------------------------
(* initiator.main(), as the service's ExecStart.                            *)

\* The unit has failed, or its machine is gone.  If restart.yml is restarting
\* it, its task has failed on every host of a batch of one, which ends the play.
UnitFails(h) ==
    /\ service' = [service EXCEPT ![h] = "inactive"]
    /\ IF rolling = h THEN rolling' = None /\ restarted' = Host
                      ELSE UNCHANGED playVars

\* systemctl start, or the boot of the machine.  On a host that is not
\* initiated, or whose config.ini has no KEY1 metadata, it changes nothing.
StartService(h) ==
    /\ setup[h] = "over" /\ service[h] = "inactive"
    /\ metadata[h]
    /\ service' = [service EXCEPT ![h] = "activating"]
    /\ UNCHANGED <<serverVars, setupVars, got, playVars, crashes>>

Contributed(h) == {d.x : d \in got[h]}

\* A trusted peer that has not contributed yet answers with a share that fits.
HasShare(h, p) ==
    /\ p \in TrustedPeers(h) \ Contributed(h)
    /\ up[p] /\ GetShareStatus(p, Cert[h], KeyUuid[h]) = 200
    /\ got[h] # PopulateDecoder(got[h], shares[p][KeyUuid[h]], Key1, OwnName[h])

\* _collect_key1(): one peer answers.  A peer that does not, or whose share
\* is refused, is asked again in a later round; that leaves no trace here.
AskPeer(h, p) ==
    /\ service[h] = "activating" /\ ~ReadyToDecode(got[h])
    /\ HasShare(h, p)
    /\ got' = [got EXCEPT ![h] =
                PopulateDecoder(@, shares[p][KeyUuid[h]], Key1, OwnName[h])]
    /\ UNCHANGED <<serverVars, setupVars, service, playVars, crashes>>

\* KEY1 is decoded and the server started with it; if that fails (shares
\* that do not combine, a port that is taken) the unit has failed.
FinishBoot(h) ==
    /\ service[h] = "activating" /\ ReadyToDecode(got[h])
    /\ got' = [got EXCEPT ![h] = {}]
    /\ IF Decodes(got[h]) /\ ~up[h]
       THEN /\ StartServer(h)
            /\ service' = [service EXCEPT ![h] = "active"]
            /\ UNCHANGED playVars
       ELSE UnitFails(h) /\ UNCHANGED serverVars
    /\ UNCHANGED <<setupVars, crashes>>

-----------------------------------------------------------------------------
(* ansible/restart.yml, serial: 1.                                          *)

\* Bug: serial is not 1.
BugRestartTogether(h) ==
    /\ h \notin restarted
    /\ service[h] = "active"
    /\ StopServer(h)
    /\ service' = [service EXCEPT ![h] = "activating"]
    /\ rolling' = h
    /\ UNCHANGED <<setupVars, got, restarted, crashes>>

\* The unit is restarted (ExecStop, then ExecStart) if it is active.
RestartUnit(h) ==
    /\ rolling = None /\ h \notin restarted
    /\ service[h] = "active"
    /\ StopServer(h)
    /\ service' = [service EXCEPT ![h] = "activating"]
    /\ rolling' = h
    /\ UNCHANGED <<setupVars, got, restarted, crashes>>

\* The play waits for the restart to finish before the next host.  (If it
\* fails: UnitFails.)
NextUnit(h) ==
    /\ rolling = h /\ service[h] = "active"
    /\ rolling' = None
    /\ restarted' = restarted \cup {h}
    /\ UNCHANGED <<serverVars, setupVars, bootVars, crashes>>

\* A host whose machine is down when its turn comes is unreachable, which ends
\* the play as well.  (A unit that is not active is left alone.)
Unreachable(h) ==
    /\ rolling = None /\ h \notin restarted
    /\ crashes > 0 /\ ~up[h] /\ service[h] = "inactive"
    /\ restarted' = Host
    /\ UNCHANGED <<serverVars, setupVars, bootVars, rolling, crashes>>

-----------------------------------------------------------------------------
(* Failures.                                                                *)

\* The machine goes down with everything that runs on it.
Crash(h) ==
    /\ crashes < MaxCrashes /\ setup[h] # "new"
    /\ up[h] \/ setup[h] # "over" \/ service[h] # "inactive"
    /\ crashes' = crashes + 1
    /\ StopServer(h)
    /\ setup' = [setup EXCEPT ![h] = "over"]
    /\ UnitFails(h)
    /\ got' = [got EXCEPT ![h] = {}]
    /\ UNCHANGED <<remaining, metadata>>

\* Only the server process dies: the unit stays active, nothing restarts it.
CrashProcess(h) ==
    /\ crashes < MaxCrashes
    /\ crashes' = crashes + 1
    /\ CrashServer(h)
    /\ UNCHANGED <<setupVars, bootVars, playVars>>

\* The operator gives up (Ctrl+C); the detached server keeps running.
AbortSetup(h) ==
    /\ crashes < MaxCrashes
    /\ setup[h] \in {"poll", "publish", "gate"}
    /\ crashes' = crashes + 1
    /\ setup' = [setup EXCEPT ![h] = "over"]
    /\ UNCHANGED <<serverVars, remaining, metadata, bootVars, playVars>>

\* A peer's server dies while it sends its share.  http.client raises an
\* IncompleteRead, which is no OSError: _collect_key1() does not catch it, and
\* the unit has failed.
CutAnswer(h, p) ==
    /\ crashes < MaxCrashes
    /\ service[h] = "activating" /\ ~ReadyToDecode(got[h])
    /\ p \in TrustedPeers(h) \ Contributed(h)
    /\ GetShareStatus(p, Cert[h], KeyUuid[h]) = 200
    /\ crashes' = crashes + 1
    /\ CrashServer(p)
    /\ UnitFails(h)
    /\ got' = [got EXCEPT ![h] = {}]
    /\ UNCHANGED setupVars

\* start_server() fails for any other reason: no process, no pidfile, files
\* that do not open, a status that does not come in time.
StartFails(h) ==
    /\ crashes < MaxCrashes
    /\ service[h] = "activating" /\ ReadyToDecode(got[h])
    /\ crashes' = crashes + 1
    /\ UnitFails(h)
    /\ got' = [got EXCEPT ![h] = {}]
    /\ UNCHANGED <<serverVars, setupVars>>

-----------------------------------------------------------------------------
SetupStep(h) ==
    \/ RunSetup(h)
    \/ \E p \in Host : SeeOnline(h, p)
    \/ \E p \in Host, status \in {200, 201, 403, 409, 500} : PublishShare(h, p, status)
    \/ \E p \in Host : PublishFails(h, p)
    \/ SaveMetadata(h)
    \/ ConfirmHandoff(h)

BootStep(h) ==
    \/ StartService(h)
    \/ \E p \in Host : AskPeer(h, p)
    \/ FinishBoot(h)

PlayStep(h) == RestartUnit(h) \/ NextUnit(h) \/ Unreachable(h)

ProcessFailure(h) ==
    \/ CrashProcess(h) \/ AbortSetup(h) \/ StartFails(h)
    \/ \E p \in Host : CutAnswer(h, p)

Failure(h) == Crash(h) \/ ProcessFailure(h)

Next == \E h \in Host : SetupStep(h) \/ BootStep(h) \/ PlayStep(h) \/ Failure(h)

Spec == Init /\ [][Next]_vars

\* A host that stays reachable is seen and asked within a round; a process
\* goes on, and so do the operator and the play once they may.
Fairness == \A h \in Host :
    /\ WF_vars(SetupStep(h))
    /\ WF_vars(StartService(h)) /\ WF_vars(FinishBoot(h))
    /\ \A p \in Others(h) : WF_vars(AskPeer(h, p))
    /\ WF_vars(NextUnit(h))

FairSpec == Spec /\ Fairness

\* A network after its bootstrap: every host switched over to systemd.
NetworkUp ==
    /\ up = [h \in Host |-> TRUE]
    /\ sharesDta = [p \in Host |-> [u \in UUID |->
          IF \E h \in Others(p) : KeyUuid[h] = u
          THEN LET h == CHOOSE g \in Others(p) : KeyUuid[g] = u IN Key1Share(h, p)
          ELSE None]]
    /\ shares = sharesDta
    /\ secrets = [h \in Host |-> EmptySecrets]
    /\ secretsDta = [h \in Host |-> EmptySecrets]
    /\ setup = [h \in Host |-> "over"]
    /\ remaining = [h \in Host |-> {}]
    /\ metadata = [h \in Host |-> TRUE]
    /\ service = [h \in Host |-> "active"]
    /\ got = [h \in Host |-> {}]
    /\ rolling = None
    /\ restarted = {}
    /\ crashes = 0

-----------------------------------------------------------------------------
(* Properties.                                                              *)

\* config.ini names a KEY1 split only when every other host has its share in
\* its file, and that stays so whatever crashes: a boot never waits for a
\* share that was not saved (setup_secretweb._publish_key1_to_network,
\* server.store_share).
MetadataMeansPublished ==
    \A h \in Host : metadata[h] =>
        \A p \in Others(h) : sharesDta[p][KeyUuid[h]] = Key1Share(h, p)

\* A decoder that is ready holds as many different shares as the split's
\* treshold, all of the host's own KEY1: the server gets the right key.
BootsWithOwnKey ==
    \A h \in Host : ReadyToDecode(got[h]) =>
        /\ Cardinality(Contributed(h)) = Treshold(h)
        /\ \A d \in got[h] : d = Key1Share(h, d.x)

\* As long as nothing crashes and every answer comes in time, no setup script
\* stops short of publishing its KEY1, in whatever order the operators run
\* and confirm them ("a failure here is a real problem worth stopping for").
SetupSucceeds == \A h \in Host : setup[h] = "over" => metadata[h]

QuorumUp(h) == Cardinality({p \in TrustedPeers(h) : up[p]}) >= Treshold(h)

InGap(h) == setup[h] = "over" /\ service[h] # "active" /\ rolling # h

\* "keeps at most one host ever in that gap" between its temporary server and
\* its service (setup_secretweb._manual_systemd_handoff).
AtMostOneInGap == \A h, p \in Host : InGap(h) /\ InGap(p) => h = p

\* As long as nothing crashes, a host that waits for shares has a quorum of
\* running peers, even if restart.yml is run in the middle of the hand-off:
\* never do all wait for each other ("Restarting multiple hosts at once could
\* have them all waiting on each other's peer shares simultaneously").
NobodyWaitsForTheWaiting == \A h \in Host : service[h] = "activating" => QuorumUp(h)

\* A boot never asks in vain: whichever trusted peer is up and has not
\* contributed has a share the decoder takes, whatever was lost, aborted or cut
\* off before, on either side (initiator._collect_key1, server.get_share).
NoPeerAskedInVain ==
    \A h \in Host : service[h] = "activating" /\ ~ReadyToDecode(got[h]) =>
        \A p \in TrustedPeers(h) \ Contributed(h) : up[p] => HasShare(h, p)

\* What a host waits for is there.
MayGoOn(h) ==
    \/ setup[h] = "new"
    \/ setup[h] = "poll" /\ \E p \in remaining[h] : up[p]
    \/ setup[h] = "publish" /\ (remaining[h] = {} \/ \E p \in remaining[h] : up[p])
    \/ setup[h] = "gate" /\ SafeToHandOff(h)
    \/ setup[h] = "over" /\ service[h] = "inactive" /\ metadata[h]
    \/ service[h] = "activating" /\ (ReadyToDecode(got[h]) \/ \E p \in Host : HasShare(h, p))

\* As long as nothing crashes, a bootstrap is never stuck: until all hosts are
\* switched over, one of them has what it waits for, though all wait for all to
\* come up, each confirmation for the one before, and each boot for peers that
\* may be handing over or restarting themselves (_poll_for_hosts_online,
\* _manual_systemd_handoff, initiator._collect_key1).
BootstrapGoesOn ==
    (\A h \in Host : service[h] = "active" /\ up[h]) \/ \E h \in Host : MayGoOn(h)

\* A host's unit becomes active again, and stays so, if enough of its
\* trusted peers are up in the end, whichever those are, however many of the
\* others are down or no longer trusted, and however often initiator was cut
\* off before: a unit that failed is started again, with nothing of the failed
\* start in its way.  (systemd does not notice when the detached server dies.)
QuorumRecovers ==
    \A h \in Host : <>[]QuorumUp(h) => <>[](service[h] = "active")

\* Without crashes, every host ends up switched over to systemd, though each
\* depends in turn on those before it and those after it
\* (_manual_systemd_handoff, initiator.main).
HandoffCompletes == <>(\A h \in Host : service[h] = "active" /\ up[h])

=============================================================================
