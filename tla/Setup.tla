------------------------------- MODULE Setup -------------------------------
(***************************************************************************)
(* One host's data directory through runs and reruns of setup_secretweb.py, *)
(* boots by initiator.py and initiator.py --stop: the files setup archives   *)
(* and writes, and config.ini; the servers they start and stop, and what    *)
(* these do to the files, are in KeyHandoff.  A file is replaced as a whole *)
(* (CryptoFile, os.rename), except config.ini, which is truncated first.    *)
(* The other hosts are in Key1Boot.                                         *)
(***************************************************************************)
EXTENDS KeyHandoff

VARIABLES
    existing,   \* the data files the script found at its start and has yet to rename
    archived,   \* the files renamed to <name>.old.<date>, as they were
    config,     \* config.ini
    known,      \* the key1-uuid the script read from config.ini
    published,  \* the KEY1s all of whose shares are on the other hosts
    step,       \* how many files it has archived, or saved
    keys        \* KEY1s generated so far

setup == <<existing, archived, config, known, published, step, keys>>
vars == <<handoff, setup>>

\* Bug: hosts.json is not in the list.
BugDataFilenames == <<"hosts.dta", "sites.dta", "sites.json", "secrets.dta">>

\* The files that are archived, and those that are saved anew.
DataFilenames == <<"hosts.dta", "hosts.json", "sites.dta", "sites.json", "secrets.dta">>
Saved == <<"hosts.dta", "hosts.json", "sites.dta", "sites.json", "secrets.dta">>

NoConfig == [initiated |-> FALSE, uuid |-> None]

\* Where a script waits, or is between two changes.
Point == {"idle", "confirm", "archive", "collect", "save", "initiate", "initiating",
          "network", "record", "recording", "gate",
          "launch", "send", "await", "giveup", "pid", "stop", "wait"}

SetupTypeOk ==
    /\ file \in [File -> Content \cup {None}]
    /\ proc \in [Pid -> Process]
    /\ pidfile \in Pid \cup {None}
    /\ script \in {"setup", "initiator"}
    /\ pc \in Point
    /\ key \in Key \cup {None}
    /\ child \in Pid \cup {None}
    /\ said \in {"nothing", "ok", "error"}
    /\ kills \in 0 .. MaxKills
    /\ late \in BOOLEAN /\ stray \in BOOLEAN /\ shot \in BOOLEAN
    /\ existing \subseteq File
    /\ archived \subseteq File \X Content
    /\ config \in [initiated : BOOLEAN, uuid : Key \cup {None}]
    /\ known \in Key \cup {None}
    /\ published \subseteq Key
    /\ step \in 0 .. Len(Saved)
    /\ keys \in 0 .. MaxKeys

Init ==
    /\ file = [f \in File |-> None]
    /\ proc = [p \in Pid |-> Nobody]
    /\ pidfile = None
    /\ script = "setup" /\ pc = "idle" /\ key = None /\ child = None /\ said = "nothing"
    /\ kills = 0
    /\ late = FALSE /\ stray = FALSE /\ shot = FALSE
    /\ existing = {}
    /\ archived = {}
    /\ config = NoConfig
    /\ known = None
    /\ published = {}
    /\ step = 0
    /\ keys = 0

\* A step of the script that concerns no process.
Quiet == UNCHANGED <<pidfile, kills, late, shot>>

-----------------------------------------------------------------------------
(* setup_secretweb.main().                                                  *)

ExistingDataFiles == {f \in {DataFilenames[i] : i \in DOMAIN DataFilenames} : file[f] # None}

\* Bug: only an initiated host is taken to have data.
BugTrustConfig ==
    /\ pc = "idle" /\ keys < MaxKeys
    /\ existing' = ExistingDataFiles
    /\ script' = "setup" /\ pc' = IF config.initiated THEN "confirm" ELSE "collect"
    /\ UNCHANGED <<key, child, said, proc, stray, file>>
    /\ UNCHANGED <<archived, config, known, published, step, keys>> /\ Quiet

RunSetup ==
    /\ pc = "idle" /\ keys < MaxKeys
    /\ existing' = ExistingDataFiles
    /\ script' = "setup" /\ pc' = IF existing' = {} THEN "collect" ELSE "confirm"
    /\ UNCHANGED <<key, child, said, proc, stray, file>>
    /\ UNCHANGED <<archived, config, known, published, step, keys>> /\ Quiet

\* Bug: the running server is not stopped.
BugKeepServer ==
    /\ pc = "confirm"
    /\ \/ Goto("archive") /\ UNCHANGED existing
       \/ Exit /\ existing' = {}
    /\ UNCHANGED <<file, archived, config, known, published, step, keys>> /\ Quiet

\* The operator types the phrase, or anything else.
ConfirmReset ==
    /\ pc = "confirm"
    /\ \/ Goto("stop") /\ UNCHANGED existing
       \/ Exit /\ existing' = {}
    /\ UNCHANGED <<file, archived, config, known, published, step, keys>> /\ Quiet

\* The next file; after the last one `then` follows.
NextFile(files, then) ==
    IF step + 1 < Len(files)
    THEN step' = step + 1 /\ UNCHANGED <<running, proc, stray>>
    ELSE step' = 0 /\ Goto(then)

\* _archive_existing_files(): what was not there then is not renamed now.
ArchiveFile ==
    /\ pc = "archive"
    /\ LET f == DataFilenames[step + 1] IN
       IF f \in existing
       THEN /\ archived' = archived \cup {<<f, file[f]>>}
            /\ file' = [file EXCEPT ![f] = None]
       ELSE UNCHANGED <<file, archived>>
    /\ existing' = existing \ {DataFilenames[step + 1]}
    /\ NextFile(DataFilenames, "collect")
    /\ UNCHANGED <<config, known, published, keys>> /\ Quiet

\* The hosts are entered and a KEY1 is generated; or this host is not in the
\* list.
CollectHosts ==
    /\ pc = "collect"
    /\ \/ /\ keys' = keys + 1 /\ key' = keys' /\ known' = config.uuid /\ pc' = "save"
          /\ UNCHANGED <<script, child, said, proc, stray>>
       \/ Exit /\ UNCHANGED <<keys, known>>
    /\ UNCHANGED <<file, existing, archived, config, published, step>> /\ Quiet

SaveFile ==
    /\ pc = "save"
    /\ file' = [file EXCEPT ![Saved[step + 1]] = [key |-> key, by |-> "setup"]]
    /\ NextFile(Saved, "initiate")
    /\ UNCHANGED <<existing, archived, config, known, published, keys>> /\ Quiet

\* config.ini is opened for writing, which empties it ...
OpenConfig ==
    /\ \/ pc = "initiate" /\ Goto("initiating")
       \/ pc = "record" /\ Goto("recording")
    /\ config' = NoConfig
    /\ UNCHANGED <<file, existing, archived, known, published, step, keys>> /\ Quiet

\* ... and written from memory: a key1-uuid that was there when the script
\* read it, of an earlier run, is still there.
WriteInitiated ==
    /\ pc = "initiating"
    /\ config' = [initiated |-> TRUE, uuid |-> known]
    /\ Goto("launch")
    /\ UNCHANGED <<file, existing, archived, known, published, step, keys>> /\ Quiet

\* Bug: a share that was not stored is tolerated.
BugPublishSome ==
    /\ pc = "network"
    /\ published' \in {published, published \cup {key}} /\ Goto("record")
    /\ UNCHANGED <<file, existing, archived, config, known, step, keys>> /\ Quiet

\* All other hosts come online and store their share; or one does not.
PublishKey1 ==
    /\ pc = "network"
    /\ \/ published' = published \cup {key} /\ Goto("record")
       \/ Exit /\ UNCHANGED published
    /\ UNCHANGED <<file, existing, archived, config, known, step, keys>> /\ Quiet

WriteMetadata ==
    /\ pc = "recording"
    /\ config' = [initiated |-> TRUE, uuid |-> key]
    /\ Goto("gate")
    /\ UNCHANGED <<file, existing, archived, known, published, step, keys>> /\ Quiet

\* The operator confirms, and the temporary server is stopped.
HandOff ==
    /\ pc = "gate"
    /\ Goto("stop")
    /\ UNCHANGED <<file, setup>> /\ Quiet

-----------------------------------------------------------------------------
(* initiator.main(): it starts nothing unless config.ini says initiated and *)
(* names a KEY1 split, hosts.json names peers and they have the shares.     *)

RunInitiator(k, point) ==
    /\ pc = "idle"
    /\ script' = "initiator" /\ key' = k /\ pc' = point
    /\ UNCHANGED <<child, said, proc, stray, file, setup>> /\ Quiet

CollectKey1 ==
    /\ config.initiated /\ config.uuid # None
    /\ file["hosts.json"] # None /\ file["hosts.json"].by = "setup"
    /\ config.uuid \in published
    /\ RunInitiator(config.uuid, "launch")

\* initiator.py --stop
Stop == RunInitiator(None, "stop")

-----------------------------------------------------------------------------
SetupStep ==
    \/ RunSetup \/ ConfirmReset \/ ArchiveFile \/ CollectHosts \/ SaveFile
    \/ OpenConfig \/ WriteInitiated \/ PublishKey1 \/ WriteMetadata \/ HandOff

\* What a script does inside start_server() and stop_server(), and where it
\* is then.
HandoffStep == (StartStep \/ StopStep) /\ UNCHANGED setup
HandingOff == pc \in {"launch", "send", "await", "giveup", "pid", "stop", "wait"}

\* The next script starts from the beginning.
Failure == (KillScript \/ Reboot) /\ step' = 0 /\ existing' = {}

Next ==
    \/ SetupStep
    \/ CollectKey1 \/ Stop
    \/ HandoffStep
    \/ ServerStep /\ UNCHANGED setup
    \/ Failure /\ UNCHANGED <<archived, config, known, published, keys>>
    \/ PidReused /\ UNCHANGED setup

Spec == Init /\ [][Next]_vars

\* The system runs the script, and the clock the two timeouts.
FairSpec == Spec /\ WF_vars(HandoffStep)

-----------------------------------------------------------------------------
(* Properties.                                                              *)

\* A server that can be stopped through the pidfile can read every file of
\* its host: the files are never exchanged under a server the scripts know,
\* unless one they do not know was ever left running.
KnownServerOwnsFiles ==
    \A p \in Pid : p = pidfile /\ Serving(p) /\ ~stray =>
        \A f \in Encrypted : file[f] # None /\ file[f].key = proc[p].key

\* No encrypted file is lost: what is in a file is archived when something of
\* another KEY1 takes its place, unless a server was ever left running that
\* _stop_existing_server() does not find and that writes in between.
EncryptedFilesKept ==
    [][\A f \in Encrypted : ~stray /\ file[f] # None =>
        \/ file'[f] # None /\ file'[f].key = file[f].key
        \/ <<f, file[f]>> \in archived']_vars

\* From its second boot on a host depends on config.ini: what it names has
\* been published in full, and it is the KEY1 of a finished run.
MetadataBootable == config.uuid # None => config.uuid \in published

\* Whatever KEY1 a boot comes back with, a server takes the port only when its
\* files are all under that KEY1; with a key1-uuid an interrupted rerun has
\* left behind it does not start.
StartsWithOwnFilesOnly ==
    [][\A p \in Pid : proc[p].at = "bind" /\ proc'[p].at = "report" /\ ~stray =>
        \A f \in Encrypted : file[f] # None /\ file[f].key = proc[p].key]_vars

\* Whoever goes on after start_server() has a server on the port, with the
\* KEY1 it was given, until something kills it: OK is not told, or heard, too
\* early ("not just that it received KEY1").
ReadyMeansServing ==
    child # None /\ pc \notin {"send", "await", "giveup", "wait"} =>
        \/ Serving(child) /\ proc[child].key = key
        \/ kills > 0

\* stop_server() finds every server that serves, also one that gets ready long
\* after its starter has lost patience: it ends then.  The code leaves two gaps,
\* besides kills: a report sent between the timeout and the closing of the
\* socket, and a pidfile that cannot be written (start_server, send_ready).
ServersFound ==
    kills = 0 /\ ~late =>
        \A p \in Pid : Serving(p) =>
            p = pidfile \/ (p = child /\ pc \in {"await", "pid"})

\* A pidfile names no process but a server of this host so long as none dies
\* by itself: "a known, accepted gap" is open only then.
ForeignUntouched == shot => kills > 0

\* start_server() and stop_server() never wait for anybody but the clock,
\* however long a server takes, whatever it does and whoever has its pid.
HandoffGoesOn == HandingOff => ENABLED <<HandoffStep>>_vars

\* So both return, or their script ends, with the server starting, failing or
\* dying at any moment, and the timeout racing its report.
HandoffEnds == HandingOff ~> ~HandingOff

\* "The old files are renamed, not deleted": so is hosts.json, which a boot
\* depends on, unless a script was killed or a server left behind: a server
\* started between the renaming of hosts.dta and its own writes another list.
HostListRenamed ==
    [][kills = 0 /\ ~stray /\ file["hosts.json"] # None
       /\ file'["hosts.json"] # file["hosts.json"] =>
        <<"hosts.json", file["hosts.json"]>> \in archived']_vars

\* "fix the problem and rerun this script": a rerun that has replaced "these
\* files" gets its server started, unless one is running already.
RerunStartsServer ==
    pc = "launch" /\ script = "setup" /\ ~PortTaken =>
        \A f \in Encrypted : file[f] # None => file[f].key = key

=============================================================================
