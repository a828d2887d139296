---------------------------- MODULE SetupProofs ----------------------------
(***************************************************************************)
(* Setup and KeyHandoff for any number of pids, KEY1s, runs and failures.   *)
(* The properties speak of files and servers; the invariant they need       *)
(* follows the script: which server it has started, what it has been told,  *)
(* what it has already renamed, and which files a server has opened.        *)
(***************************************************************************)
EXTENDS Setup, TLAPS

-----------------------------------------------------------------------------
(* The invariant.                                                           *)

\* From the start of the script to the launch of its server; with that server
\* on the port.
Early == {"idle", "confirm", "archive", "collect", "save", "initiate", "initiating",
          "launch"}
Handshake == {"send", "await", "giveup", "pid"}
HandedOver == {"network", "record", "recording", "gate"}
Stopping == {"stop", "wait"}

\* The script is to archive what it has found.
Rerun == pc = "confirm" \/ (pc \in Stopping /\ script = "setup" /\ key = None)

\* What the script has in memory at each point.
ScriptInv ==
    /\ pc \in Early => child = None
    /\ pc \in Handshake \cup HandedOver => child # None
    /\ child = None => said = "nothing"
    /\ child # None => key # None
    /\ pc \in {"idle", "confirm", "archive", "collect"} => key = None
    /\ pc \in {"save", "initiate", "initiating", "launch"} => key # None
    /\ pc \in HandedOver \/ (pc \in Stopping /\ child # None) => pidfile = child
    /\ pc = "wait" => pidfile # None
    /\ pc = "archive" => pidfile = None
    /\ pc \in HandedOver \cup (Early \ {"idle", "launch"}) => script = "setup"
    /\ pc \notin {"archive", "save"} => step = 0
    /\ step < 5
    /\ Rerun \/ pc \in {"archive", "collect"} => keys < MaxKeys
    /\ pc = "send" => said = "nothing"
    /\ pc = "pid" \/ pc \in HandedOver \/ (pc \in Stopping /\ child # None) => said = "ok"

\* A process that is no server is nowhere; the script's server has its KEY1
\* once it is sent.
ProcInv ==
    /\ \A p \in Pid : ~Server(p) => proc[p].at = "receive" /\ proc[p].key = None
    /\ \A p \in Pid : proc[p].key = None => proc[p].at = "receive"
    /\ \A p \in Pid : proc[p].is = "zombie" => p = child
    /\ child # None => proc[child].is \in {"server", "zombie"}
    /\ pc = "send" => proc[child].key = None
    /\ child # None /\ pc # "send" /\ Server(child) => proc[child].key = key
    /\ pc = "wait" => ~Server(pidfile)
    /\ said = "error" => ~Server(child)
    /\ child # None /\ Serving(child) => said = "ok"

\* Of config.ini, in memory and in the file; and what the script has yet to
\* rename is still there.
MetaInv ==
    /\ \A f \in existing : f \in File /\ file[f] # None
    /\ config.uuid \in published \cup {None}
    /\ known \in published \cup {None}
    /\ pc \in {"record", "recording"} => key \in published

\* One server has the port.
HasPort(p) == Server(p) /\ proc[p].at \in {"report", "serve"}
PortInv == \A p, q \in Pid : HasPort(p) /\ HasPort(q) => p = q

\* Until something is killed, what was reported and what the pidfile names is
\* a server on the port, so no other process is told to terminate.
ReadyInv ==
    kills = 0 =>
        /\ said = "ok" /\ pc # "wait" => Serving(child)
        /\ pidfile # None => Serving(pidfile) \/ pc = "wait"
        /\ ~shot

FoundInv ==
    /\ ~stray => \A p \in Pid : Server(p) => p = pidfile \/ p = child
    /\ ServersFound

\* The encrypted files a server at this stage has opened.
Opened(stage) ==
    {f \in Encrypted :
        \/ f = "hosts.dta" /\ stage \notin {"receive", "hosts.dta"}
        \/ f = "sites.dta" /\ stage \notin {"receive", "hosts.dta", "hosts.json", "sites.dta"}
        \/ f = "secrets.dta" /\ stage \in {"shares.dta", "bind", "report", "serve"}
        \/ f = "shares.dta" /\ stage \in {"bind", "report", "serve"}}

\* There are no servers while files are exchanged, and each has its own.
FilesInv ==
    ~stray =>
        /\ pidfile # None \/ said = "ok" => \A f \in Encrypted : file[f] # None
        /\ pc \in {"archive", "collect", "save"} => \A p \in Pid : ~Server(p)
        /\ \A p \in Pid : Server(p) =>
             \A f \in Opened(proc[p].at) : file[f] # None /\ file[f].key = proc[p].key

\* The encrypted files among DataFilenames, and how many files come before
\* each in DataFilenames and in Saved.
Renamed == {"hosts.dta", "sites.dta", "secrets.dta"}
Before(f) ==
    IF f = "hosts.dta" THEN 0 ELSE IF f = "hosts.json" THEN 1
    ELSE IF f = "sites.dta" THEN 2 ELSE IF f = "sites.json" THEN 3 ELSE 4

\* What is still there of an encrypted file is known to be to be renamed, and
\* when files are saved nothing is there any more.
KeptInv ==
    ~stray => \A f \in Renamed :
        /\ Rerun /\ file[f] # None => f \in existing
        /\ pc = "archive" /\ file[f] # None => Before(f) >= step /\ f \in existing
        /\ pc = "collect" => file[f] = None
        /\ pc = "save" /\ file[f] # None => Before(f) < step

\* So it is with the list of hosts, which no server makes anew: there is no
\* host list without hosts.dta.
ListInv ==
    ~stray /\ kills = 0 =>
        /\ Rerun /\ file["hosts.json"] # None => "hosts.json" \in existing
        /\ pc = "archive" /\ file["hosts.json"] # None => step < 2 /\ "hosts.json" \in existing
        /\ pc = "collect" => file["hosts.json"] = None
        /\ pc = "save" /\ file["hosts.json"] # None => step >= 2
        /\ pc = "save" /\ step >= 1 => file["hosts.dta"] # None
        /\ pc # "archive" /\ file["hosts.json"] # None => file["hosts.dta"] # None
        /\ pc \in Handshake \cup {"initiate", "initiating", "launch"} => file["hosts.dta"] # None
        /\ \A p \in Pid : Server(p) => proc[p].at # "hosts.json"

IInv ==
    /\ SetupTypeOk
    /\ ScriptInv /\ ProcInv /\ MetaInv /\ PortInv /\ ReadyInv /\ FoundInv
    /\ FilesInv /\ KeptInv /\ ListInv

-----------------------------------------------------------------------------
(* The definitions, unfolded once.                                          *)

LEMMA NoneIsNoKey == None \notin Key /\ None \notin Pid
BY HandoffAssumption DEF Key

LEMMA StageSet ==
    Stage = {"receive", "hosts.dta", "hosts.json", "sites.dta", "sites.json",
             "secrets.dta", "shares.dta", "bind", "report", "serve"}
<1>1. DOMAIN Stages = 1 .. 10
  BY DEF Stages
<1> QED BY <1>1 DEF Stage, Stages

\* What comes after each stage.
LEMMA NextStages ==
    /\ Next1("hosts.dta") = "hosts.json" /\ Next1("hosts.json") = "sites.dta"
    /\ Next1("sites.dta") = "sites.json" /\ Next1("sites.json") = "secrets.dta"
    /\ Next1("secrets.dta") = "shares.dta" /\ Next1("shares.dta") = "bind"
    /\ AfterFile("hosts.dta") = "sites.dta" /\ AfterFile("sites.dta") = "secrets.dta"
    /\ AfterFile("secrets.dta") = "shares.dta" /\ AfterFile("shares.dta") = "bind"
<1>1. DOMAIN Stages = 1 .. 10
  BY DEF Stages
<1>2. ASSUME NEW s, NEW k \in 1 .. 9, Stages[k] = s PROVE Next1(s) = Stages[k + 1]
  <2>1. \A j \in 1 .. 10 : Stages[j] = s => j = k
    BY <1>2 DEF Stages
  <2>2. (CHOOSE i \in DOMAIN Stages : Stages[i] = s) = k
    BY <1>1, <1>2, <2>1
  <2>3. Next1(s) = Stages[1 + k]
    BY <2>2, Zenon DEF Next1
  <2> QED BY <2>3
<1>3. /\ Next1("hosts.dta") = "hosts.json" /\ Next1("hosts.json") = "sites.dta"
      /\ Next1("sites.dta") = "sites.json" /\ Next1("sites.json") = "secrets.dta"
      /\ Next1("secrets.dta") = "shares.dta" /\ Next1("shares.dta") = "bind"
  BY <1>2 DEF Stages
<1> QED BY <1>3 DEF AfterFile, Plain

\* The lists of files, by position.
LEMMA NthFile ==
    ASSUME NEW i \in 0 .. 4
    PROVE  /\ DataFilenames[i + 1] \in File \ {"shares.dta"} /\ Saved[i + 1] = DataFilenames[i + 1]
           /\ Len(DataFilenames) = 5 /\ Len(Saved) = 5
           /\ \A f \in Renamed \cup {"hosts.json"} :
                /\ DataFilenames[i + 1] = f <=> Before(f) = i
                /\ f \in ExistingDataFiles <=> file[f] # None
           /\ \A f \in ExistingDataFiles : f \in File /\ file[f] # None
<1>1. i \in {0, 1, 2, 3, 4}
  OBVIOUS
<1>2. DOMAIN DataFilenames = 1 .. 5
  BY DEF DataFilenames
<1>3. Len(DataFilenames) = 5 /\ Len(Saved) = 5 /\ Saved = DataFilenames
  BY DEF DataFilenames, Saved
<1>4. DataFilenames[i + 1] \in File \ {"shares.dta"}
  BY <1>1 DEF DataFilenames, File, Encrypted, Plain
<1>5. \A f \in Renamed \cup {"hosts.json"} : DataFilenames[i + 1] = f <=> Before(f) = i
  BY <1>1 DEF DataFilenames, Renamed, Before
<1>6. {DataFilenames[k] : k \in DOMAIN DataFilenames}
        = {"hosts.dta", "hosts.json", "sites.dta", "sites.json", "secrets.dta"}
  BY <1>2 DEF DataFilenames
<1>7. \A f \in ExistingDataFiles : f \in File /\ file[f] # None
  BY <1>6 DEF ExistingDataFiles, File, Encrypted, Plain
<1>8. \A f \in Renamed \cup {"hosts.json"} : f \in ExistingDataFiles <=> file[f] # None
  BY <1>6 DEF ExistingDataFiles, Renamed
<1> QED BY <1>3, <1>4, <1>5, <1>7, <1>8

LEMMA InvInit == Init => IInv
<1> SUFFICES ASSUME Init PROVE IInv
  OBVIOUS
<1>1. SetupTypeOk
  <2>1. Nobody \in Process
    BY StageSet DEF Nobody, Process
  <2>2. step \in 0 .. Len(Saved) /\ keys \in 0 .. MaxKeys /\ kills \in 0 .. MaxKills
    BY HandoffAssumption DEF Init, Saved
  <2> QED BY <2>1, <2>2 DEF Init, SetupTypeOk, NoConfig, Point
<1>2. ScriptInv /\ ProcInv /\ MetaInv
  BY HandoffAssumption DEF Init, ScriptInv, Rerun, ProcInv, MetaInv, Early, Handshake, HandedOver, Stopping, Server, Nobody, NoConfig
<1>3. PortInv /\ ReadyInv /\ FoundInv
  BY DEF Init, PortInv, HasPort, ReadyInv, FoundInv, ServersFound, Serving, Server, Nobody
<1>4. FilesInv
  BY DEF Init, FilesInv, Server, Nobody
<1>5. KeptInv
  BY DEF Init, KeptInv, Rerun, Stopping
<1>6. ListInv
  BY DEF Init, ListInv, Rerun, Stopping, Handshake, File, Plain, Server, Nobody
<1> QED BY <1>1, <1>2, <1>3, <1>4, <1>5, <1>6 DEF IInv

-----------------------------------------------------------------------------
(* What several actions have in common.                                     *)

\* The parts of the invariant, where they are used one by one.
LEMMA Parts ==
    ASSUME IInv
    PROVE  /\ SetupTypeOk /\ ScriptInv /\ ProcInv /\ MetaInv /\ PortInv /\ ReadyInv
           /\ FoundInv /\ FilesInv /\ KeptInv /\ ListInv
           /\ proc \in [Pid -> Process] /\ file \in [File -> Content \cup {None}]
           /\ kills \in Nat /\ stray \in BOOLEAN /\ late \in BOOLEAN /\ step \in 0 .. 4
           /\ pidfile \in Pid \cup {None} /\ child \in Pid \cup {None}
<1>1. kills \in Nat /\ step \in 0 .. 4
  BY HandoffAssumption DEF IInv, SetupTypeOk, ScriptInv, Saved
<1> QED BY <1>1 DEF IInv, SetupTypeOk

LEMMA ProcessFacts ==
    /\ Nobody \in Process
    /\ \A p \in Pid : Ended(p) \in Process
    /\ \A r \in Process, s \in Stage : [r EXCEPT !.at = s] \in Process
    /\ \A r \in Process, k \in Key : [r EXCEPT !.key = k] \in Process
    /\ \A r \in Process, i \in {"free", "server", "zombie", "other"} :
         [r EXCEPT !.is = i] \in Process
BY StageSet DEF Nobody, Ended, Process

\* The script ends: its zombies go, servers stay as they are, and none of them
\* serves that the pidfile does not name.
LEMMA InvExit ==
    ASSUME IInv, Exit,
           UNCHANGED <<file, pidfile, archived, config, known, published, keys, shot>>,
           kills' \in 0 .. MaxKills, kills' = 0 => kills = 0,
           late' \in BOOLEAN, late => late', step' = 0, existing' \in {existing, {}},
           kills' = 0 => pc \notin {"archive", "wait"},
           kills' = 0 /\ ~late' => pc \notin {"await", "pid"} \/ ~Server(child)
    PROVE  IInv'
<1>0. /\ SetupTypeOk /\ ScriptInv /\ ProcInv /\ MetaInv /\ PortInv /\ ReadyInv
      /\ FoundInv /\ FilesInv /\ KeptInv /\ ListInv
      /\ proc \in [Pid -> Process] /\ stray \in BOOLEAN /\ late \in BOOLEAN
      /\ pidfile \in Pid \cup {None}
  BY Parts
<1>1. /\ pc' = "idle" /\ key' = None /\ child' = None /\ said' = "nothing" /\ script' = script
      /\ proc' = [p \in Pid |-> IF proc[p].is = "zombie" THEN Nobody ELSE proc[p]]
      /\ stray' = (stray \/ \E p \in Pid : Server(p) /\ p # pidfile)
  BY DEF Exit, End, Reaped, Leaves
<1>2. proc' \in [Pid -> Process]
  BY <1>0, <1>1, ProcessFacts
<1>3. \A p \in Pid : /\ Server(p)' <=> Server(p)
                     /\ Server(p) => proc'[p] = proc[p]
                     /\ ~Server(p) => /\ proc'[p].at = "receive" /\ proc'[p].key = None
                                      /\ proc'[p].is # "zombie"
  BY <1>0, <1>1 DEF Server, Nobody, ProcInv
<1>14. /\ stray' \in BOOLEAN
       /\ ~stray' => ~stray /\ \A p \in Pid : Server(p) => p = pidfile
  BY <1>0, <1>1
<1>4. SetupTypeOk'
  <2>1. step' \in 0 .. Len(Saved)
    BY DEF Saved
  <2> QED BY <1>0, <1>1, <1>2, <1>14, <2>1 DEF SetupTypeOk, Point
<1>5. ScriptInv'
  BY <1>1 DEF ScriptInv, Rerun, Early, Handshake, HandedOver, Stopping
<1>6. ProcInv'
  BY <1>0, <1>1, <1>3 DEF ProcInv, Server, Serving
<1>7. MetaInv'
  BY <1>0, <1>1 DEF MetaInv
<1>8. PortInv'
  BY <1>0, <1>3 DEF PortInv, HasPort
<1>9. ReadyInv'
  BY <1>0, <1>1, <1>3 DEF ReadyInv, Serving
<1>10. FoundInv'
  <2>1. kills' \in Nat /\ kills \in Nat
    BY HandoffAssumption, Parts
  <2>2. ServersFound'
    <3>1. kills' = 0 /\ ~late' => \A p \in Pid : Serving(p) => p = pidfile
      BY <1>0, <2>1 DEF FoundInv, ServersFound, Serving
    <3> QED BY <1>1, <1>3, <3>1 DEF ServersFound, Serving
  <2>3. ~stray' => \A p \in Pid : Server(p)' => p = pidfile'
    BY <1>14, <1>3
  <2> QED BY <2>2, <2>3 DEF FoundInv
<1>11. FilesInv'
  BY <1>0, <1>1, <1>14, <1>3 DEF FilesInv
<1>12. KeptInv'
  BY <1>1 DEF KeptInv, Rerun, Stopping
<1>13. ListInv'
  BY <1>0, <1>1, <1>14, <1>3 DEF ListInv, Rerun, Stopping, Handshake
<1> QED BY <1>4, <1>5, <1>6, <1>7, <1>8, <1>9, <1>10, <1>11, <1>12, <1>13 DEF IInv

\* A server ends, and may have told so; one that has the port does not, unless
\* it is killed.
LEMMA InvEnds ==
    ASSUME IInv, NEW p \in Pid, Server(p),
           proc' = [proc EXCEPT ![p] = Ended(p)],
           \/ said' = said
           \/ said' = "error" /\ p = child /\ pc \in Handshake \ {"pid"}
              /\ proc[p].at # "receive",
           UNCHANGED <<file, pidfile, script, pc, key, child, late, stray, shot, setup>>,
           kills' \in 0 .. MaxKills, kills' = 0 => kills = 0 /\ ~Serving(p)
    PROVE  IInv'
<1>0. /\ SetupTypeOk /\ ScriptInv /\ ProcInv /\ MetaInv /\ PortInv /\ ReadyInv
      /\ FoundInv /\ FilesInv /\ KeptInv /\ ListInv
      /\ proc \in [Pid -> Process] /\ stray \in BOOLEAN /\ late \in BOOLEAN
      /\ pidfile \in Pid \cup {None} /\ child \in Pid \cup {None} /\ None \notin Pid
  BY Parts, NoneIsNoKey
<1>1. proc' \in [Pid -> Process]
  BY <1>0, ProcessFacts
<1>2. /\ \A q \in Pid : q # p => proc'[q] = proc[q]
      /\ proc'[p].is = IF p = child THEN "zombie" ELSE "free"
      /\ proc'[p].at = "receive" /\ proc'[p].key = None
  BY <1>0 DEF Ended, Nobody
<1>3. SetupTypeOk'
  BY <1>0, <1>1 DEF SetupTypeOk, setup
<1>4. ScriptInv'
  BY <1>0, <1>2 DEF ScriptInv, Rerun, ProcInv, Early, Handshake, HandedOver, Stopping, setup
<1>5. ProcInv'
  BY <1>0, <1>2 DEF ProcInv, Server, Serving
<1>6. MetaInv'
  BY <1>0 DEF MetaInv, setup
<1>7. PortInv'
  BY <1>0, <1>2 DEF PortInv, HasPort, Server
<1>8. ReadyInv'
  BY <1>0, <1>2 DEF ReadyInv, Serving, Server
<1>9. FoundInv'
  BY <1>0, <1>2 DEF FoundInv, ServersFound, Server, Serving
<1>10. FilesInv'
  BY <1>0, <1>2 DEF FilesInv, Server
<1>11. KeptInv'
  BY <1>0 DEF KeptInv, Rerun, setup
<1>12. ListInv'
  BY <1>0, <1>2 DEF ListInv, Rerun, Server, setup
<1> QED BY <1>3, <1>4, <1>5, <1>6, <1>7, <1>8, <1>9, <1>10, <1>11, <1>12 DEF IInv

\* A server goes on, perhaps with a file it has made or saved, and may report.
LEMMA InvAdvances ==
    ASSUME IInv, NEW p \in Pid, Server(p), proc[p].key # None,
           NEW stage \in Stage \ {"receive"}, NEW f \in File,
           proc' = [proc EXCEPT ![p].at = stage],
           \/ file' = file
           \/ /\ Create(p, f)
              /\ ~stray /\ f \in Encrypted => file[f] = None \/ file[f].key = proc[p].key
              /\ f = "hosts.json" => proc[p].at = "hosts.json",
           stage = "hosts.json" => file["hosts.dta"] = None,
           stage \in {"report", "serve"} => HasPort(p) \/ ~PortTaken,
           Serving(p) => stage = "serve",
           ~stray => \A g \in Opened(stage) : file'[g] # None /\ file'[g].key = proc[p].key,
           \/ said' = said
           \/ /\ said' = "ok" /\ p = child /\ pc \in Handshake \ {"pid"}
              /\ stage = "serve" /\ proc[p].at # "receive",
           stage = "serve" => Serving(p) \/ (said' = "ok" /\ p = child /\ (pc = "await" \/ late')),
           late' \in BOOLEAN, late => late',
           UNCHANGED <<pidfile, script, pc, key, child, kills, stray, shot, setup>>
    PROVE  IInv'
<1>0. /\ SetupTypeOk /\ ScriptInv /\ ProcInv /\ MetaInv /\ PortInv /\ ReadyInv
      /\ FoundInv /\ FilesInv /\ KeptInv /\ ListInv
      /\ proc \in [Pid -> Process] /\ file \in [File -> Content \cup {None}]
      /\ pidfile \in Pid \cup {None} /\ child \in Pid \cup {None} /\ None \notin Pid
  BY Parts, NoneIsNoKey
<1>1. proc' \in [Pid -> Process]
  BY <1>0, ProcessFacts
<1>2. /\ \A q \in Pid : q # p => proc'[q] = proc[q]
      /\ proc'[p].is = "server" /\ proc'[p].at = stage /\ proc'[p].key = proc[p].key
  BY <1>0 DEF Server, Process
<1>3. file' \in [File -> Content \cup {None}]
  <2>1. proc[p].key \in Key
    BY <1>0 DEF Process
  <2>2. [key |-> proc[p].key, by |-> "server"] \in Content
    BY <2>1 DEF Content
  <2> QED BY <1>0, <2>2 DEF Create
\* What is created is of the server's KEY1; nothing else changes.
<1>4. /\ \A g \in File : g # f => file'[g] = file[g]
      /\ file'[f] # file[f] => file'[f] # None /\ file'[f].key = proc[p].key
      /\ \A g \in File : file[g] # None => file'[g] # None
  <2>1. None # [key |-> proc[p].key, by |-> "server"]
    <3>1. proc[p].key \in Key
      BY <1>0 DEF Process
    <3> QED BY <3>1, HandoffAssumption DEF Key
  <2> QED BY <1>0, <2>1 DEF Create
<1>5. SetupTypeOk'
  BY <1>0, <1>1, <1>3 DEF SetupTypeOk, setup
<1>6. ScriptInv'
  BY <1>0 DEF ScriptInv, Rerun, ProcInv, Early, Handshake, HandedOver, Stopping, setup
<1>7. ProcInv'
  BY <1>0, <1>2 DEF ProcInv, Server, Serving
<1>8. MetaInv'
  BY <1>0, <1>4 DEF MetaInv, setup
<1>9. PortInv'
  BY <1>0, <1>2 DEF PortInv, PortTaken, HasPort, Server
<1>10. ReadyInv'
  BY <1>0, <1>2 DEF ReadyInv, Serving, Server
<1>11. FoundInv'
  BY <1>0, <1>2 DEF FoundInv, ServersFound, Server, Serving
\* If no server is unknown, it is the one the pidfile names or the script waits for.
<1>12. ~stray => /\ p = pidfile \/ (p = child /\ pc \in Handshake)
                 /\ pc \notin {"archive", "collect", "save"}
                 /\ Rerun => p = pidfile
                 /\ p = pidfile => \A g \in Encrypted : file[g] # None
  BY <1>0 DEF FoundInv, FilesInv, ScriptInv, Rerun, Early, Handshake, HandedOver, Stopping, SetupTypeOk, Point
<1>13. FilesInv'
  <2> SUFFICES ASSUME ~stray PROVE FilesInv'
    BY DEF FilesInv
  <2>1. \A g \in Encrypted : g \in File
    BY DEF File
  <2>2. pidfile' # None \/ said' = "ok" => \A g \in Encrypted : file'[g] # None
    <3>1. said' # said => \A g \in Encrypted : file'[g] # None
      BY DEF Opened, Encrypted
    <3> QED BY <1>0, <1>4, <2>1, <3>1 DEF FilesInv
  <2>3. pc' \notin {"archive", "collect", "save"}
    BY <1>12
  <2>4. ASSUME NEW q \in Pid, Server(q)', NEW g \in Opened(proc'[q].at)
        PROVE  file'[g] # None /\ file'[g].key = proc'[q].key
    <3>1. g \in Encrypted
      BY <2>4 DEF Opened
    <3>2. CASE q = p
      BY <1>2, <2>4, <3>2
    <3>3. CASE q # p
      <4>1. Server(q) /\ g \in Opened(proc[q].at) /\ proc'[q].key = proc[q].key
        BY <1>2, <2>4, <3>3 DEF Server
      <4>2. file[g] # None /\ file[g].key = proc[q].key
        BY <1>0, <4>1 DEF FilesInv
      <4> QED BY <1>4, <2>1, <3>1, <4>1, <4>2 DEF Create
    <3> QED BY <3>2, <3>3
  <2> QED BY <2>2, <2>3, <2>4 DEF FilesInv
<1>14. KeptInv'
  <2> SUFFICES ASSUME ~stray PROVE KeptInv'
    BY DEF KeptInv
  <2>1. \A g \in Renamed : g \in Encrypted /\ g \in File
    BY DEF Renamed, Encrypted, File
  <2>2. Rerun' <=> Rerun
    BY DEF Rerun
  <2> QED BY <1>0, <1>12, <2>1, <2>2 DEF KeptInv, setup
<1>15. ListInv'
  <2> SUFFICES ASSUME ~stray, kills = 0 PROVE ListInv'
    BY DEF ListInv
  <2>1. "hosts.json" \in File /\ "hosts.dta" \in File /\ "hosts.dta" \in Encrypted
    BY DEF File, Encrypted, Plain
  <2>2. file["hosts.dta"] # None
    BY <1>0, <1>12, <2>1 DEF ListInv
  <2>3. proc[p].at # "hosts.json" /\ stage # "hosts.json"
    BY <1>0, <2>2 DEF ListInv
  <2>4. file'["hosts.json"] = file["hosts.json"] /\ file'["hosts.dta"] # None
    BY <1>0, <1>4, <2>1, <2>2, <2>3 DEF Create
  <2>5. Rerun' <=> Rerun
    BY DEF Rerun
  <2>6. \A q \in Pid : Server(q)' => proc'[q].at # "hosts.json"
    BY <1>0, <1>2, <2>3 DEF ListInv, Server
  <2> QED BY <1>0, <1>12, <2>4, <2>5, <2>6 DEF ListInv, setup
<1> QED BY <1>5, <1>6, <1>7, <1>8, <1>9, <1>10, <1>11, <1>13, <1>14, <1>15 DEF IInv

-----------------------------------------------------------------------------
(* The servers.                                                             *)

LEMMA InvReceiveKey1 ==
    ASSUME IInv, NEW p \in Pid, ReceiveKey1(p), UNCHANGED setup PROVE IInv'
<1>0. /\ late \in BOOLEAN
      /\ file \in [File -> Content \cup {None}] /\ kills \in Nat
      /\ SetupTypeOk /\ ProcInv
  BY Parts
<1>1. Server(p) /\ proc[p].at = "receive"
  BY DEF ReceiveKey1
<1>2. CASE proc[p].key # None /\ ToStage(p, "hosts.dta")
  <2>1. "hosts.dta" \in Stage \ {"receive"} /\ "hosts.dta" \in File
    BY StageSet DEF File, Encrypted
  <2>2. Opened("hosts.dta") = {}
    BY DEF Opened
  <2>3. ~Serving(p)
    BY <1>1 DEF Serving
  <2> QED BY <1>0, <1>1, <1>2, <2>1, <2>2, <2>3, InvAdvances DEF ReceiveKey1, ToStage, running
<1>3. CASE proc[p].key = None /\ proc' = [proc EXCEPT ![p] = Ended(p)]
  <2>1. ~Serving(p)
    BY <1>1 DEF Serving
  <2>2. kills \in 0 .. MaxKills
    BY <1>0 DEF SetupTypeOk
  <2> QED BY <1>1, <1>3, <2>1, <2>2, InvEnds DEF ReceiveKey1, running
<1> QED BY <1>2, <1>3 DEF ReceiveKey1

LEMMA InvEnsureFile ==
    ASSUME IInv, NEW p \in Pid, EnsureFile(p), UNCHANGED setup PROVE IInv'
<1>0. /\ late \in BOOLEAN
      /\ file \in [File -> Content \cup {None}] /\ SetupTypeOk /\ ProcInv /\ FilesInv
      /\ proc \in [Pid -> Process] /\ None \notin Pid /\ ScriptInv
  BY Parts, NoneIsNoKey
<1>1. Server(p) /\ proc[p].at \in Encrypted
  BY DEF EnsureFile
<1>2. /\ proc[p].at \in File /\ proc[p].at # "receive" /\ ~Serving(p) /\ proc[p].key # None
      /\ kills \in 0 .. MaxKills
  BY <1>0, <1>1 DEF Serving, File, Encrypted, ProcInv, SetupTypeOk
<1>10. proc[p].key \in Key
  BY <1>0, <1>2 DEF Process
<1>11. None # [key |-> proc[p].key, by |-> "server"]
  BY <1>10, HandoffAssumption DEF Key
\* The stage after this file.
<1>3. ASSUME NEW stage \in {Next1(proc[p].at), AfterFile(proc[p].at)}
      PROVE  /\ stage \in Stage \ {"receive", "report", "serve"}
             /\ stage = "hosts.json" => stage = Next1("hosts.dta") /\ proc[p].at = "hosts.dta"
                                        /\ stage # AfterFile("hosts.dta")
             /\ Opened(stage) \subseteq Opened(proc[p].at) \cup {proc[p].at}
  <2>1. proc[p].at \in {"hosts.dta", "sites.dta", "secrets.dta", "shares.dta"}
    BY <1>1 DEF Encrypted
  <2> QED BY <2>1, NextStages, StageSet DEF Opened, Encrypted
<1>4. ASSUME NEW stage \in {Next1(proc[p].at), AfterFile(proc[p].at)}, ~stray,
             file' = file \/ Create(p, proc[p].at),
             file'[proc[p].at] # None, file'[proc[p].at].key = proc[p].key,
             NEW g \in Opened(stage)
      PROVE  file'[g] # None /\ file'[g].key = proc[p].key
  <2>1. CASE g = proc[p].at
    BY <1>4, <2>1
  <2>2. CASE g # proc[p].at
    <3>1. g \in Opened(proc[p].at) /\ g \in File
      BY <1>3, <1>4, <2>2 DEF Opened, File
    <3>2. file[g] # None /\ file[g].key = proc[p].key
      BY <1>0, <1>1, <1>4, <3>1 DEF FilesInv
    <3>3. file'[g] = file[g]
      BY <1>0, <1>4, <2>2, <3>1 DEF Create
    <3> QED BY <3>2, <3>3
  <2> QED BY <2>1, <2>2
<1>5. CASE /\ file[proc[p].at] = None
           /\ Create(p, proc[p].at) /\ ToStage(p, Next1(proc[p].at)) /\ UNCHANGED said
  <2>1. file'[proc[p].at] # None /\ file'[proc[p].at].key = proc[p].key
    BY <1>0, <1>2, <1>5, <1>11 DEF Create
  <2>2. proc[p].at = "hosts.json" => FALSE
    BY <1>1 DEF Encrypted
  <2>3. PICK stage : stage = Next1(proc[p].at)
    OBVIOUS
  <2>4. stage \in Stage \ {"receive"} /\ stage \notin {"report", "serve"}
    BY <1>3, <2>3
  <2>5. stage = "hosts.json" => file["hosts.dta"] = None
    BY <1>3, <1>5, <2>3
  <2>6. ~stray => \A g \in Opened(stage) : file'[g] # None /\ file'[g].key = proc[p].key
    BY <1>4, <1>5, <2>1, <2>3
  <2>7. proc' = [proc EXCEPT ![p].at = stage]
    BY <1>5, <2>3 DEF ToStage
  <2>8. UNCHANGED <<pidfile, script, pc, key, child, kills, late, stray, shot, setup, said>>
    BY <1>5 DEF EnsureFile
  <2> QED BY <1>0, <1>1, <1>2, <1>5, <2>2, <2>4, <2>5, <2>6, <2>7, <2>8, InvAdvances
<1>6. CASE /\ file[proc[p].at] # None /\ file[proc[p].at].key = proc[p].key
           /\ ToStage(p, AfterFile(proc[p].at)) /\ UNCHANGED <<file, said>>
  <2>3. PICK stage : stage = AfterFile(proc[p].at)
    OBVIOUS
  <2>4. stage \in Stage \ {"receive"} /\ stage \notin {"report", "serve"}
    BY <1>3, <2>3
  <2>5. stage # "hosts.json"
    BY <1>3, <2>3
  <2>6. ~stray => \A g \in Opened(stage) : file'[g] # None /\ file'[g].key = proc[p].key
    BY <1>4, <1>6, <2>3
  <2>7. proc' = [proc EXCEPT ![p].at = stage]
    BY <1>6, <2>3 DEF ToStage
  <2>8. UNCHANGED <<pidfile, script, pc, key, child, kills, late, stray, shot, setup, said>>
    BY <1>6 DEF EnsureFile
  <2> QED BY <1>0, <1>1, <1>2, <1>6, <2>4, <2>5, <2>6, <2>7, <2>8, InvAdvances
<1>7. CASE Fails(p) /\ UNCHANGED file
  <2>1. \/ said' = said
        \/ said' = "error" /\ p = child /\ pc \in Handshake \ {"pid"}
    BY <1>7 DEF Fails, Listening, Handshake
  <2>2. UNCHANGED <<pidfile, script, pc, key, child, kills, late, stray, shot, setup>>
    BY DEF EnsureFile
  <2> QED BY <1>1, <1>2, <1>7, <2>1, <2>2, InvEnds DEF Fails
<1>8. \/ /\ file[proc[p].at] = None
         /\ Create(p, proc[p].at) /\ ToStage(p, Next1(proc[p].at)) /\ UNCHANGED said
      \/ /\ file[proc[p].at] # None /\ file[proc[p].at].key = proc[p].key
         /\ ToStage(p, AfterFile(proc[p].at)) /\ UNCHANGED <<file, said>>
      \/ Fails(p) /\ UNCHANGED file
  BY Zenon DEF EnsureFile
<1> QED BY <1>5, <1>6, <1>7, <1>8

LEMMA InvEnsureMirror ==
    ASSUME IInv, NEW p \in Pid, EnsureMirror(p), UNCHANGED setup PROVE IInv'
<1>0. /\ late \in BOOLEAN
      /\ file \in [File -> Content \cup {None}] /\ SetupTypeOk /\ ProcInv /\ FilesInv
      /\ proc \in [Pid -> Process]
  BY Parts
<1>1. Server(p) /\ proc[p].at \in {"hosts.json", "sites.json"}
  BY DEF EnsureMirror, Plain
<1>2. /\ proc[p].at \in File /\ proc[p].at \notin Encrypted /\ ~Serving(p) /\ proc[p].key # None
  BY <1>0, <1>1 DEF Serving, File, Plain, Encrypted, ProcInv
<1>3. PICK stage : stage = Next1(proc[p].at)
  OBVIOUS
<1>4. /\ stage \in Stage \ {"receive"} /\ stage \notin {"report", "serve", "hosts.json"}
      /\ Opened(stage) \subseteq Opened(proc[p].at)
  BY <1>1, <1>3, NextStages, StageSet DEF Opened, Encrypted
<1>5. ~stray => \A g \in Opened(stage) : file'[g] # None /\ file'[g].key = proc[p].key
  <2> SUFFICES ASSUME ~stray, NEW g \in Opened(stage)
               PROVE  file'[g] # None /\ file'[g].key = proc[p].key
    OBVIOUS
  <2>1. g \in Opened(proc[p].at) /\ g \in Encrypted
    BY <1>4 DEF Opened
  <2>2. file[g] # None /\ file[g].key = proc[p].key
    BY <1>0, <1>1, <2>1 DEF FilesInv
  <2>3. file'[g] = file[g]
    BY <1>0, <1>2, <2>1 DEF EnsureMirror, Create, File
  <2> QED BY <2>2, <2>3
<1>6. proc' = [proc EXCEPT ![p].at = stage] /\ Create(p, proc[p].at)
  BY <1>3 DEF EnsureMirror, ToStage
<1>7. UNCHANGED <<pidfile, script, pc, key, child, said, kills, late, stray, shot, setup>>
  BY DEF EnsureMirror, running
<1> QED BY <1>0, <1>1, <1>2, <1>4, <1>5, <1>6, <1>7, InvAdvances

LEMMA InvEnsureFails ==
    ASSUME IInv, NEW p \in Pid, EnsureFails(p), UNCHANGED setup PROVE IInv'
<1>0. SetupTypeOk /\ ProcInv /\ kills \in Nat /\ MaxKills \in Nat
  BY Parts, HandoffAssumption
<1>1. Server(p) /\ proc[p].at # "receive" /\ Fails(p)
  BY DEF EnsureFails, File, Encrypted, Plain
<1>2. kills' \in 0 .. MaxKills /\ kills' # 0
  BY <1>0 DEF EnsureFails
<1>3. \/ said' = said
      \/ said' = "error" /\ p = child /\ pc \in Handshake \ {"pid"}
  BY <1>1 DEF Fails, Listening, Handshake
<1>4. UNCHANGED <<file, pidfile, script, pc, key, child, late, stray, shot, setup>>
  BY DEF EnsureFails
<1> QED BY <1>1, <1>2, <1>3, <1>4, InvEnds DEF Fails

LEMMA InvBind ==
    ASSUME IInv, NEW p \in Pid, Bind(p), UNCHANGED setup PROVE IInv'
<1>0. /\ late \in BOOLEAN
      /\ file \in [File -> Content \cup {None}] /\ SetupTypeOk /\ ProcInv /\ FilesInv
  BY Parts
<1>1. /\ Server(p) /\ proc[p].at = "bind" /\ proc[p].key # None /\ ~Serving(p)
      /\ kills \in 0 .. MaxKills
  BY <1>0 DEF Bind, ProcInv, Serving, SetupTypeOk
<1>2. UNCHANGED <<file, pidfile, script, pc, key, child, kills, late, stray, shot, setup>>
  BY DEF Bind
<1>3. CASE ~PortTaken /\ ToStage(p, "report") /\ UNCHANGED said
  <2>1. "report" \in Stage \ {"receive"} /\ "hosts.dta" \in File
    BY StageSet DEF File, Encrypted
  <2>2. Opened("report") = Opened("bind")
    BY DEF Opened
  <2>3. ~stray => \A g \in Opened("report") : file'[g] # None /\ file'[g].key = proc[p].key
    BY <1>0, <1>1, <1>2, <2>2 DEF FilesInv
  <2> QED BY <1>0, <1>1, <1>2, <1>3, <2>1, <2>3, InvAdvances DEF ToStage
<1>4. CASE Fails(p)
  <2>1. \/ said' = said
        \/ said' = "error" /\ p = child /\ pc \in Handshake \ {"pid"}
    BY <1>4 DEF Fails, Listening, Handshake
  <2> QED BY <1>1, <1>2, <1>4, <2>1, InvEnds DEF Fails
<1> QED BY <1>3, <1>4 DEF Bind

LEMMA InvReport ==
    ASSUME IInv, NEW p \in Pid, Report(p), UNCHANGED setup PROVE IInv'
<1>0. /\ file \in [File -> Content \cup {None}] /\ SetupTypeOk /\ ProcInv /\ FilesInv
  BY Parts
<1>1. /\ Server(p) /\ proc[p].at = "report" /\ proc[p].key # None /\ ~Serving(p)
      /\ kills \in 0 .. MaxKills
  BY <1>0 DEF Report, ProcInv, Serving, SetupTypeOk
<1>2. UNCHANGED <<file, pidfile, script, pc, key, child, kills, stray, shot, setup>>
  BY DEF Report
<1>3. CASE Listening(p) /\ said' = "ok" /\ ToStage(p, "serve") /\ late' = (late \/ pc = "giveup")
  <2>1. "serve" \in Stage \ {"receive"} /\ "hosts.dta" \in File
    BY StageSet DEF File, Encrypted
  <2>2. Opened("serve") = Opened("report")
    BY DEF Opened
  <2>3. ~stray => \A g \in Opened("serve") : file'[g] # None /\ file'[g].key = proc[p].key
    BY <1>0, <1>1, <1>2, <2>2 DEF FilesInv
  <2>4. p = child /\ pc \in Handshake \ {"pid"} /\ HasPort(p)
    BY <1>1, <1>3 DEF Listening, Handshake, HasPort
  <2>5. late' \in BOOLEAN /\ (late => late') /\ (pc = "await" \/ late')
    <3>1. late \in BOOLEAN /\ pc # "send"
      BY <1>0, <1>1, <2>4, Parts DEF ProcInv
    <3> QED BY <1>3, <3>1 DEF Listening
  <2> QED BY <1>1, <1>2, <1>3, <2>1, <2>3, <2>4, <2>5, InvAdvances DEF ToStage
<1>4. CASE proc' = [proc EXCEPT ![p] = Ended(p)] /\ UNCHANGED <<said, late>>
  BY <1>1, <1>2, <1>4, InvEnds
<1> QED BY <1>3, <1>4 DEF Report

LEMMA InvServerSaves ==
    ASSUME IInv, NEW p \in Pid, NEW f \in File, ServerSaves(p, f), UNCHANGED setup PROVE IInv'
<1>0. /\ late \in BOOLEAN
      /\ file \in [File -> Content \cup {None}] /\ SetupTypeOk /\ ProcInv /\ FilesInv
      /\ proc \in [Pid -> Process]
  BY Parts
<1>1. /\ Server(p) /\ proc[p].at = "serve" /\ proc[p].key # None /\ Create(p, f)
      /\ f \in {"secrets.dta", "shares.dta"}
  BY <1>0 DEF ServerSaves, ProcInv, Serving
<1>2. UNCHANGED <<proc, pidfile, script, pc, key, child, said, kills, late, stray, shot, setup>>
  BY DEF ServerSaves, running
<1>3. proc' = [proc EXCEPT ![p].at = "serve"]
  BY <1>0, <1>1, <1>2 DEF Process
<1>4. "serve" \in Stage \ {"receive"}
  BY StageSet
\* It has opened all of them.
<1>5. Opened("serve") = Encrypted
  BY DEF Opened, Encrypted
<1>6. ~stray => \A g \in Encrypted : file[g] # None /\ file[g].key = proc[p].key
  BY <1>0, <1>1, <1>5 DEF FilesInv
<1>7. None # [key |-> proc[p].key, by |-> "server"]
  <2>1. proc[p].key \in Key
    BY <1>0, <1>1 DEF Process
  <2> QED BY <2>1, HandoffAssumption DEF Key
<1>8. ~stray => \A g \in Opened("serve") : file'[g] # None /\ file'[g].key = proc[p].key
  <2> SUFFICES ASSUME ~stray, NEW g \in Encrypted
               PROVE  file'[g] # None /\ file'[g].key = proc[p].key
    BY <1>5
  <2>1. file[g] # None /\ file[g].key = proc[p].key /\ g \in File
    BY <1>6 DEF File
  <2> QED BY <1>0, <1>1, <1>7, <2>1 DEF Create
<1>9. HasPort(p) /\ Serving(p)
  BY <1>1 DEF HasPort, Serving
<1>10. ~stray /\ f \in Encrypted => file[f] = None \/ file[f].key = proc[p].key
  BY <1>6
<1>11. /\ UNCHANGED <<pidfile, script, pc, key, child, said, kills, stray, shot, setup>>
       /\ late' \in BOOLEAN /\ (late => late') /\ f # "hosts.json"
  BY <1>0, <1>1, <1>2
<1> QED BY <1>1, <1>3, <1>4, <1>8, <1>9, <1>10, <1>11, InvAdvances

LEMMA InvServerDies ==
    ASSUME IInv, NEW p \in Pid, ServerDies(p), UNCHANGED setup PROVE IInv'
<1>1. SetupTypeOk /\ kills \in Nat /\ MaxKills \in Nat
  BY Parts, HandoffAssumption
<1>2. kills' \in 0 .. MaxKills /\ kills' # 0
  BY <1>1 DEF ServerDies
<1> QED BY <1>2, InvEnds DEF ServerDies, running

LEMMA InvServerStep ==
    ASSUME IInv, ServerStep, UNCHANGED setup PROVE IInv'
BY InvReceiveKey1, InvEnsureFile, InvEnsureMirror, InvEnsureFails, InvBind, InvReport,
   InvServerSaves, InvServerDies DEF ServerStep

-----------------------------------------------------------------------------
(* start_server().                                                          *)

LEMMA InvLaunch == ASSUME IInv, Launch, UNCHANGED setup PROVE IInv'
<1>0. /\ SetupTypeOk /\ ScriptInv /\ ProcInv /\ MetaInv /\ PortInv /\ ReadyInv
      /\ FoundInv /\ FilesInv /\ KeptInv /\ ListInv
      /\ proc \in [Pid -> Process] /\ kills \in Nat
      /\ pidfile \in Pid \cup {None} /\ None \notin Pid
  BY Parts, NoneIsNoKey
<1>1. /\ pc = "launch" /\ child = None /\ said = "nothing" /\ key # None /\ step = 0
      /\ UNCHANGED <<file, pidfile, kills, late, shot>> /\ kills \in 0 .. MaxKills
  BY <1>0 DEF Launch, ScriptInv, Early, SetupTypeOk
<1>2. ASSUME NEW p \in Pid, proc[p].is = "free",
             proc' = [proc EXCEPT ![p].is = "server"], child' = p, pc' = "send",
             UNCHANGED <<script, key, said, stray>>
      PROVE  IInv'
  <2>1. proc' \in [Pid -> Process]
    BY <1>0, <1>2, ProcessFacts
  <2>2. /\ \A q \in Pid : q # p => proc'[q] = proc[q]
        /\ proc'[p].is = "server" /\ proc'[p].at = "receive" /\ proc'[p].key = None
    BY <1>0, <1>2 DEF ProcInv, Server, Process
  <2>3. SetupTypeOk'
    BY <1>0, <1>1, <1>2, <2>1 DEF SetupTypeOk, setup, Point
  <2>4. ScriptInv'
    BY <1>0, <1>1, <1>2 DEF ScriptInv, Rerun, Early, Handshake, HandedOver, Stopping, setup
  <2>5. ProcInv'
    BY <1>0, <1>1, <1>2, <2>2 DEF ProcInv, Server, Serving
  <2>6. MetaInv'
    BY <1>0, <1>1, <1>2 DEF MetaInv, setup
  <2>7. PortInv'
    BY <1>0, <2>2 DEF PortInv, HasPort, Server
  <2>8. ReadyInv'
    BY <1>0, <1>1, <1>2, <2>2 DEF ReadyInv, Serving, Server
  <2>9. FoundInv'
    BY <1>0, <1>1, <1>2, <2>2 DEF FoundInv, ServersFound, Server, Serving
  <2>10. FilesInv'
    BY <1>0, <1>1, <1>2, <2>2 DEF FilesInv, Server, Opened
  <2>11. KeptInv'
    BY <1>2 DEF KeptInv, Rerun, Stopping
  <2>12. ListInv'
    BY <1>0, <1>1, <1>2, <2>2 DEF ListInv, Rerun, Stopping, Handshake, Server
  <2> QED BY <2>3, <2>4, <2>5, <2>6, <2>7, <2>8, <2>9, <2>10, <2>11, <2>12 DEF IInv
<1>3. CASE Exit
  <2>1. late' \in BOOLEAN /\ (late => late')
    BY <1>0, <1>1 DEF SetupTypeOk
  <2>2. step' = 0 /\ existing' = existing
    BY <1>1 DEF setup
  <2> QED BY <1>1, <1>3, <2>1, <2>2, InvExit DEF setup
<1> QED BY <1>2, <1>3 DEF Launch

LEMMA InvSendKey1 == ASSUME IInv, SendKey1, UNCHANGED setup PROVE IInv'
<1>0. /\ SetupTypeOk /\ ScriptInv /\ ProcInv /\ MetaInv /\ PortInv /\ ReadyInv
      /\ FoundInv /\ FilesInv /\ KeptInv /\ ListInv
      /\ proc \in [Pid -> Process] /\ kills \in Nat
      /\ pidfile \in Pid \cup {None} /\ child \in Pid \cup {None} /\ None \notin Pid
  BY Parts, NoneIsNoKey
<1>1. /\ pc = "send" /\ child \in Pid /\ said = "nothing" /\ key \in Key /\ key # None
      /\ proc[child].key = None /\ step = 0
      /\ UNCHANGED <<file, pidfile, kills, late, shot>> /\ kills \in 0 .. MaxKills
  BY <1>0 DEF SendKey1, ScriptInv, ProcInv, Handshake, SetupTypeOk
<1>2. CASE /\ Server(child)
           /\ proc' = [proc EXCEPT ![child].key = key] /\ pc' = "await"
           /\ UNCHANGED <<script, key, child, said, stray>>
  <2>1. proc' \in [Pid -> Process]
    BY <1>0, <1>1, <1>2, ProcessFacts
  <2>2. /\ \A q \in Pid : q # child => proc'[q] = proc[q]
        /\ proc'[child].is = "server" /\ proc'[child].at = "receive" /\ proc'[child].key = key
    BY <1>0, <1>1, <1>2 DEF ProcInv, Server, Process
  <2>3. SetupTypeOk'
    BY <1>0, <1>1, <1>2, <2>1 DEF SetupTypeOk, setup, Point
  <2>4. ScriptInv'
    BY <1>0, <1>1, <1>2 DEF ScriptInv, Rerun, Early, Handshake, HandedOver, Stopping, setup
  <2>5. ProcInv'
    BY <1>0, <1>1, <1>2, <2>2 DEF ProcInv, Server, Serving
  <2>6. MetaInv'
    BY <1>0, <1>1, <1>2 DEF MetaInv, setup
  <2>7. PortInv'
    BY <1>0, <2>2 DEF PortInv, HasPort, Server
  <2>8. ReadyInv'
    BY <1>0, <1>1, <1>2, <2>2 DEF ReadyInv, Serving, Server, ProcInv
  <2>9. FoundInv'
    BY <1>0, <1>1, <1>2, <2>2 DEF FoundInv, ServersFound, Server, Serving
  <2>10. FilesInv'
    BY <1>0, <1>1, <1>2, <2>2 DEF FilesInv, Server, Opened
  <2>11. KeptInv'
    BY <1>2 DEF KeptInv, Rerun, Stopping
  <2>12. ListInv'
    BY <1>0, <1>1, <1>2, <2>2 DEF ListInv, Rerun, Stopping, Handshake, Server
  <2> QED BY <2>3, <2>4, <2>5, <2>6, <2>7, <2>8, <2>9, <2>10, <2>11, <2>12 DEF IInv
<1>3. CASE ~Server(child) /\ Exit
  <2>1. late' \in BOOLEAN /\ (late => late')
    BY <1>0, <1>1 DEF SetupTypeOk
  <2>2. step' = 0 /\ existing' = existing
    BY <1>1 DEF setup
  <2> QED BY <1>1, <1>3, <2>1, <2>2, InvExit DEF setup
<1> QED BY <1>2, <1>3 DEF SendKey1

\* A script that waits for its server goes on, and changes nothing.
LEMMA InvWaits ==
    ASSUME IInv, pc = "await", pc' \in {"pid", "giveup"},
           pc' = "pid" => said = "ok", pc' = "giveup" => said = "nothing",
           UNCHANGED <<file, proc, pidfile, script, key, child, said, kills, late, stray,
                       shot, setup>>
    PROVE  IInv'
<1>0. /\ SetupTypeOk /\ ScriptInv /\ ProcInv /\ MetaInv /\ PortInv /\ ReadyInv
      /\ FoundInv /\ FilesInv /\ KeptInv /\ ListInv
  BY Parts
<1>1. SetupTypeOk'
  BY <1>0 DEF SetupTypeOk, setup, Point
<1>2. ScriptInv'
  BY <1>0 DEF ScriptInv, Rerun, Early, Handshake, HandedOver, Stopping, setup
<1>3. ProcInv'
  BY <1>0 DEF ProcInv, Server, Serving
<1>4. MetaInv' /\ PortInv' /\ ReadyInv'
  BY <1>0 DEF MetaInv, PortInv, ReadyInv, HasPort, Serving, Server, setup
<1>5. FoundInv'
  <2>1. pc' = "giveup" => ~Serving(child) \/ child = None
    BY <1>0 DEF ProcInv
  <2> QED BY <1>0, <2>1 DEF FoundInv, ServersFound, Server, Serving, ScriptInv, Handshake
<1>6. FilesInv'
  BY <1>0 DEF FilesInv, Server
<1>7. KeptInv'
  BY <1>0 DEF KeptInv, Rerun, Stopping
<1>8. ListInv'
  BY <1>0 DEF ListInv, Rerun, Stopping, Handshake, Server
<1> QED BY <1>1, <1>2, <1>3, <1>4, <1>5, <1>6, <1>7, <1>8 DEF IInv

LEMMA InvAwaitStatus == ASSUME IInv, AwaitStatus, UNCHANGED setup PROVE IInv'
<1>0. /\ SetupTypeOk /\ ScriptInv /\ ProcInv /\ FoundInv
      /\ late \in BOOLEAN /\ child \in Pid \cup {None} /\ None \notin Pid
  BY Parts, NoneIsNoKey
<1>1. /\ pc = "await" /\ child \in Pid /\ step = 0 /\ kills \in 0 .. MaxKills
      /\ UNCHANGED <<file, pidfile, kills, late, shot>>
  BY <1>0 DEF AwaitStatus, ScriptInv, Handshake, SetupTypeOk
<1>2. CASE said = "ok" /\ Goto("pid")
  BY <1>0, <1>1, <1>2, InvWaits DEF Goto
<1>3. CASE ~Server(child) /\ Exit
  <2>1. step' = 0 /\ existing' = existing
    BY <1>1 DEF setup
  <2> QED BY <1>0, <1>1, <1>3, <2>1, InvExit DEF setup
<1>4. \/ said = "ok" /\ Goto("pid")
      \/ ~Server(child) /\ Exit
  BY <1>0 DEF AwaitStatus, ProcInv
<1> QED BY <1>2, <1>3, <1>4

LEMMA InvTimeOut == ASSUME IInv, TimeOut, UNCHANGED setup PROVE IInv'
BY InvWaits DEF TimeOut, Goto

LEMMA InvGiveUp == ASSUME IInv, GiveUp, UNCHANGED setup PROVE IInv'
<1>0. /\ SetupTypeOk /\ ScriptInv /\ late \in BOOLEAN
  BY Parts
<1>1. /\ pc = "giveup" /\ step = 0 /\ kills \in 0 .. MaxKills
      /\ UNCHANGED <<file, pidfile, kills, late, shot>> /\ Exit
  BY <1>0 DEF GiveUp, ScriptInv, SetupTypeOk
<1>2. step' = 0 /\ existing' = existing
  BY <1>1 DEF setup
<1> QED BY <1>0, <1>1, <1>2, InvExit DEF setup

\* The server on the port, which is the script's, is the one the pidfile names
\* from now on.
LEMMA InvNamed ==
    ASSUME IInv, pc = "pid", pidfile' = child, Leaves(child),
           UNCHANGED <<file, kills, late, shot, setup>>,
           \/ /\ script = "setup" /\ pc' = "network"
              /\ UNCHANGED <<script, key, child, said, proc>>
           \/ End /\ proc' = Reaped
    PROVE  IInv'
<1>0. /\ SetupTypeOk /\ ScriptInv /\ ProcInv /\ MetaInv /\ PortInv /\ ReadyInv
      /\ FoundInv /\ FilesInv /\ KeptInv /\ ListInv
      /\ proc \in [Pid -> Process] /\ kills \in Nat /\ stray \in BOOLEAN
      /\ pidfile \in Pid \cup {None} /\ None \notin Pid
  BY Parts, NoneIsNoKey
<1>1. child \in Pid /\ said = "ok" /\ step = 0 /\ key # None
  BY <1>0 DEF ScriptInv, Handshake, SetupTypeOk
<1>2. /\ stray' \in BOOLEAN
      /\ ~stray' => ~stray /\ \A p \in Pid : Server(p) => p = child
  BY <1>0 DEF Leaves
\* While nothing is killed it is the only one on the port.
<1>3. kills = 0 => Serving(child) /\ \A p \in Pid : Serving(p) => p = child
  <2> SUFFICES ASSUME kills = 0
               PROVE  Serving(child) /\ \A p \in Pid : Serving(p) => p = child
    OBVIOUS
  <2>1. Serving(child)
    BY <1>0, <1>1 DEF ReadyInv
  <2> QED BY <1>0, <1>1, <2>1 DEF PortInv, HasPort, Serving
<1>4. /\ child' \in {child, None} /\ key' \in {key, None} /\ script' = script
      /\ said' \in {"ok", "nothing"}
      /\ pc' = "network" \/ (pc' = "idle" /\ child' = None)
      /\ child' = None <=> pc' = "idle"
      /\ child' = None <=> key' = None
      /\ child' = None <=> said' = "nothing"
      /\ pc' = "network" => script = "setup" /\ key' = key
  BY <1>0, <1>1 DEF End
<1>5. /\ proc' \in [Pid -> Process]
      /\ \A p \in Pid : /\ Server(p)' <=> Server(p)
                        /\ Server(p) => proc'[p] = proc[p]
                        /\ ~Server(p) => /\ proc'[p].at = "receive" /\ proc'[p].key = None
                                         /\ proc'[p].is = "zombie" => proc'[p] = proc[p] /\ child' = child
      /\ child' # None => proc' = proc
  <2>1. CASE proc' = proc /\ child' = child
    BY <1>0, <2>1 DEF Server, ProcInv
  <2>2. CASE proc' = Reaped /\ child' = None
    <3>1. proc' = [p \in Pid |-> IF proc[p].is = "zombie" THEN Nobody ELSE proc[p]]
      BY <2>2 DEF Reaped
    <3>2. proc' \in [Pid -> Process]
      BY <1>0, <3>1, ProcessFacts
    <3> QED BY <1>0, <2>2, <3>1, <3>2 DEF Server, Nobody, ProcInv
  <2> QED BY <2>1, <2>2 DEF End
<1>6. SetupTypeOk'
  BY <1>0, <1>1, <1>2, <1>4, <1>5 DEF SetupTypeOk, setup, Point
<1>7. ScriptInv'
  BY <1>0, <1>1, <1>4 DEF ScriptInv, Rerun, Early, Handshake, HandedOver, Stopping, setup
<1>8. ProcInv'
  BY <1>0, <1>1, <1>4, <1>5 DEF ProcInv, Server, Serving
<1>9. MetaInv'
  BY <1>0, <1>4 DEF MetaInv, setup
<1>10. PortInv'
  BY <1>0, <1>5 DEF PortInv, HasPort
<1>11. ReadyInv'
  BY <1>0, <1>1, <1>3, <1>4, <1>5 DEF ReadyInv, Serving
<1>12. FoundInv'
  <2>1. ServersFound'
    BY <1>3, <1>5 DEF ServersFound, Serving
  <2> QED BY <1>2, <1>5, <2>1 DEF FoundInv
<1>13. FilesInv'
  BY <1>0, <1>1, <1>2, <1>4, <1>5 DEF FilesInv
<1>14. KeptInv'
  BY <1>4 DEF KeptInv, Rerun, Stopping
<1>15. ListInv'
  BY <1>0, <1>2, <1>4, <1>5 DEF ListInv, Rerun, Stopping, Handshake
<1> QED BY <1>6, <1>7, <1>8, <1>9, <1>10, <1>11, <1>12, <1>13, <1>14, <1>15 DEF IInv

LEMMA InvWritePid == ASSUME IInv, WritePid, UNCHANGED setup PROVE IInv'
<1>0. SetupTypeOk /\ ScriptInv /\ late \in BOOLEAN
  BY Parts
<1>1. pc = "pid" /\ step = 0 /\ kills \in 0 .. MaxKills /\ UNCHANGED <<file, kills, shot>>
  BY <1>0 DEF WritePid, ScriptInv, SetupTypeOk
<1>2. CASE /\ pidfile' = child /\ Leaves(child) /\ UNCHANGED late
           /\ IF script = "setup"
              THEN pc' = "network" /\ UNCHANGED <<script, key, child, said, proc>>
              ELSE End /\ proc' = Reaped
  <2>1. \/ /\ script = "setup" /\ pc' = "network"
           /\ UNCHANGED <<script, key, child, said, proc>>
        \/ End /\ proc' = Reaped
    BY <1>2
  <2>2. UNCHANGED <<file, kills, late, shot, setup>>
    BY <1>1, <1>2
  <2> QED BY <1>1, <1>2, <2>1, <2>2, InvNamed
<1>3. CASE Exit /\ late' = TRUE /\ UNCHANGED pidfile
  <2>1. step' = 0 /\ existing' = existing
    BY <1>1 DEF setup
  <2> QED BY <1>0, <1>1, <1>3, <2>1, InvExit DEF setup
<1> QED BY <1>2, <1>3 DEF WritePid

-----------------------------------------------------------------------------
(* stop_server().                                                           *)

\* What the pidfile named is no server any more, and the pidfile goes.
LEMMA InvStopped ==
    ASSUME IInv, pc \in Stopping, pidfile = None \/ ~Server(pidfile),
           NEW processes \in [Pid -> Process],
           \A p \in Pid : \/ processes[p] = proc[p]
                          \/ proc[p].is = "other" /\ processes[p] = Nobody,
           AfterStop(processes), pidfile' = None,
           UNCHANGED <<file, kills, late, shot, setup>>
    PROVE  IInv'
<1>0. /\ SetupTypeOk /\ ScriptInv /\ ProcInv /\ MetaInv /\ PortInv /\ ReadyInv
      /\ FoundInv /\ FilesInv /\ KeptInv /\ ListInv
      /\ proc \in [Pid -> Process] /\ kills \in Nat /\ stray \in BOOLEAN
      /\ pidfile \in Pid \cup {None} /\ child \in Pid \cup {None} /\ None \notin Pid
  BY Parts, NoneIsNoKey
<1>1. /\ step = 0 /\ pc \notin {"archive", "collect", "save"}
      /\ child # None => pidfile = child /\ key # None
      /\ key = None => said = "nothing" /\ child = None
  BY <1>0 DEF ScriptInv, Stopping
<1>2. ~stray => \A p \in Pid : ~Server(p)
  BY <1>0, <1>1 DEF FoundInv
<1>5. kills = 0 /\ ~late => \A p \in Pid : ~Serving(p)
  BY <1>0 DEF FoundInv, ServersFound, Serving, Stopping
<1>3. CASE script = "setup" /\ key = None
  <2>1. /\ pc' = "archive" /\ proc' = processes
        /\ UNCHANGED <<script, key, child, said, stray>>
    BY <1>3 DEF AfterStop
  <2>2. Rerun
    BY <1>3 DEF Rerun
  <2>3. \A p \in Pid : /\ Server(p)' <=> Server(p)
                       /\ Server(p) => proc'[p] = proc[p]
                       /\ ~Server(p) => /\ proc'[p].at = "receive" /\ proc'[p].key = None
                                        /\ proc'[p].is # "zombie"
    BY <1>0, <1>1, <1>3, <2>1 DEF Server, Nobody, ProcInv
  <2>4. SetupTypeOk'
    BY <1>0, <2>1 DEF SetupTypeOk, setup, Point
  <2>5. ScriptInv'
    BY <1>0, <1>1, <1>3, <2>1, <2>2 DEF ScriptInv, Rerun, Early, Handshake, HandedOver, Stopping, setup
  <2>6. ProcInv'
    BY <1>0, <1>1, <1>3, <2>1, <2>3 DEF ProcInv, Serving
  <2>7. MetaInv'
    BY <1>0, <1>1, <2>1 DEF MetaInv, setup
  <2>8. PortInv'
    BY <1>0, <2>3 DEF PortInv, HasPort
  <2>9. ReadyInv'
    BY <1>0, <1>1, <1>3, <2>1 DEF ReadyInv
  <2>10. FoundInv'
    BY <1>2, <1>5, <2>1, <2>3 DEF FoundInv, ServersFound, Serving
  <2>11. FilesInv'
    BY <1>1, <1>2, <1>3, <2>1, <2>3 DEF FilesInv
  <2>12. KeptInv'
    <3>1. \A f \in Renamed : Before(f) >= 0
      BY DEF Renamed, Before
    <3> QED BY <1>0, <1>1, <2>1, <2>2, <3>1 DEF KeptInv, Rerun, Stopping, setup
  <2>13. ListInv'
    BY <1>0, <1>1, <1>2, <2>1, <2>2, <2>3 DEF ListInv, Rerun, Stopping, Handshake, setup
  <2> QED BY <2>4, <2>5, <2>6, <2>7, <2>8, <2>9, <2>10, <2>11, <2>12, <2>13 DEF IInv
<1>4. CASE ~(script = "setup" /\ key = None)
  <2>1. /\ pc' = "idle" /\ key' = None /\ child' = None /\ said' = "nothing" /\ script' = script
        /\ proc' = [p \in Pid |-> IF processes[p].is = "zombie" THEN Nobody ELSE processes[p]]
        /\ stray' = (stray \/ \E p \in Pid : Server(p) /\ p # pidfile)
    BY <1>4 DEF AfterStop, End, Leaves
  <2>2. stray' \in BOOLEAN /\ (stray' <=> stray)
    BY <1>0, <1>2, <2>1
  <2>3. /\ proc' \in [Pid -> Process]
        /\ \A p \in Pid : /\ Server(p)' <=> Server(p)
                          /\ Server(p) => proc'[p] = proc[p]
                          /\ ~Server(p) => /\ proc'[p].at = "receive" /\ proc'[p].key = None
                                           /\ proc'[p].is # "zombie"
    <3>1. proc' \in [Pid -> Process]
      BY <2>1, ProcessFacts
    <3> QED BY <1>0, <2>1, <3>1 DEF Server, Nobody, ProcInv
  <2>4. SetupTypeOk'
    BY <1>0, <2>1, <2>2, <2>3 DEF SetupTypeOk, setup, Point
  <2>5. ScriptInv'
    BY <1>0, <1>1, <2>1 DEF ScriptInv, Rerun, Early, Handshake, HandedOver, Stopping, setup
  <2>6. ProcInv'
    BY <1>0, <2>1, <2>3 DEF ProcInv, Server, Serving
  <2>7. MetaInv'
    BY <1>0, <1>1, <2>1 DEF MetaInv, setup
  <2>8. PortInv'
    BY <1>0, <2>3 DEF PortInv, HasPort
  <2>9. ReadyInv'
    BY <1>0, <2>1 DEF ReadyInv
  <2>10. FoundInv'
    BY <1>2, <1>5, <2>2, <2>3 DEF FoundInv, ServersFound, Serving
  <2>11. FilesInv'
    BY <1>2, <2>1, <2>2, <2>3 DEF FilesInv
  <2>12. KeptInv'
    BY <2>1 DEF KeptInv, Rerun, Stopping
  <2>13. ListInv'
    BY <1>0, <1>1, <1>2, <2>1, <2>2, <2>3 DEF ListInv, Rerun, Stopping, Handshake
  <2> QED BY <2>4, <2>5, <2>6, <2>7, <2>8, <2>9, <2>10, <2>11, <2>12, <2>13 DEF IInv
<1> QED BY <1>3, <1>4

LEMMA InvTerminate == ASSUME IInv, Terminate, UNCHANGED setup PROVE IInv'
<1>0. /\ SetupTypeOk /\ ScriptInv /\ ProcInv /\ MetaInv /\ PortInv /\ ReadyInv
      /\ FoundInv /\ FilesInv /\ KeptInv /\ ListInv
      /\ proc \in [Pid -> Process] /\ kills \in Nat
      /\ pidfile \in Pid \cup {None} /\ child \in Pid \cup {None} /\ None \notin Pid
  BY Parts, NoneIsNoKey
<1>1. pc = "stop" /\ UNCHANGED <<file, kills, late>> /\ step = 0
  BY <1>0 DEF Terminate, ScriptInv
<1>2. CASE /\ pidfile # None /\ Alive(pidfile)
           /\ proc' = IF Server(pidfile) THEN [proc EXCEPT ![pidfile] = Ended(pidfile)]
                      ELSE proc
           /\ shot' = (shot \/ proc[pidfile].is = "other")
           /\ pc' = "wait"
           /\ UNCHANGED <<script, key, child, said, stray, pidfile>>
  <2>1. proc' \in [Pid -> Process]
    BY <1>0, <1>2, ProcessFacts
  <2>2. /\ \A p \in Pid : p # pidfile => proc'[p] = proc[p]
        /\ ~Server(pidfile)'
        /\ proc'[pidfile].at = "receive" /\ proc'[pidfile].key = None
        /\ proc'[pidfile].is = "zombie" => pidfile = child
        /\ pidfile = child => proc'[pidfile].is = "zombie"
    <3>1. CASE Server(pidfile)
      BY <1>0, <1>2, <3>1 DEF Ended, Nobody, Server
    <3>2. CASE ~Server(pidfile)
      BY <1>0, <1>2, <3>2 DEF ProcInv, Server
    <3> QED BY <3>1, <3>2
  <2>3. \A p \in Pid : Server(p)' => Server(p) /\ proc'[p] = proc[p]
    BY <1>0, <1>2, <2>2 DEF Server
  <2>4. (Rerun' <=> Rerun) /\ shot' \in BOOLEAN
    BY <1>0, <1>1, <1>2 DEF Rerun, Stopping, SetupTypeOk
  <2>5. SetupTypeOk'
    BY <1>0, <1>1, <1>2, <2>1, <2>4 DEF SetupTypeOk, setup, Point
  <2>6. ScriptInv'
    BY <1>0, <1>1, <1>2 DEF ScriptInv, Rerun, Early, Handshake, HandedOver, Stopping, setup
  <2>7. ProcInv'
    BY <1>0, <1>1, <1>2, <2>2, <2>3 DEF ProcInv, Server, Serving
  <2>8. MetaInv'
    BY <1>0, <1>1, <1>2 DEF MetaInv, setup
  <2>9. PortInv'
    BY <1>0, <2>3 DEF PortInv, HasPort
  <2>10. ReadyInv'
    <3>1. kills = 0 => proc[pidfile].is # "other" /\ ~shot
      BY <1>0, <1>1, <1>2 DEF ReadyInv, Serving, Server
    <3> QED BY <1>1, <1>2, <3>1 DEF ReadyInv
  <2>11. FoundInv'
    BY <1>0, <1>1, <1>2, <2>3 DEF FoundInv, ServersFound, Serving
  <2>12. FilesInv'
    BY <1>0, <1>1, <1>2, <2>3 DEF FilesInv
  <2>13. KeptInv'
    BY <1>0, <1>1, <1>2, <2>4 DEF KeptInv, setup
  <2>14. ListInv'
    BY <1>0, <1>1, <1>2, <2>3, <2>4 DEF ListInv, Handshake, setup
  <2> QED BY <2>5, <2>6, <2>7, <2>8, <2>9, <2>10, <2>11, <2>12, <2>13, <2>14 DEF IInv
<1>3. CASE Exit /\ UNCHANGED <<pidfile, shot>>
  <2>1. late \in BOOLEAN /\ kills \in 0 .. MaxKills
    BY <1>0 DEF SetupTypeOk
  <2>2. step' = 0 /\ existing' = existing
    BY <1>1 DEF setup
  <2> QED BY <1>1, <1>3, <2>1, <2>2, InvExit DEF setup
<1>4. CASE /\ ~(pidfile # None /\ Alive(pidfile))
           /\ AfterStop(proc) /\ Stopped /\ UNCHANGED shot
  <2>1. pc \in Stopping /\ (pidfile = None \/ ~Server(pidfile))
    BY <1>1, <1>4 DEF Stopping, Alive, Server
  <2>2. pidfile' = None
    BY <1>4 DEF Stopped
  <2> QED BY <1>0, <1>1, <1>4, <2>1, <2>2, InvStopped
<1> QED BY <1>2, <1>3, <1>4 DEF Terminate

LEMMA InvAwaitEnd == ASSUME IInv, AwaitEnd, UNCHANGED setup PROVE IInv'
<1>0. /\ ScriptInv /\ ProcInv /\ proc \in [Pid -> Process] /\ pidfile \in Pid \cup {None}
  BY Parts
<1>1. pc \in Stopping /\ pidfile \in Pid /\ ~Server(pidfile)
  BY <1>0 DEF AwaitEnd, ScriptInv, ProcInv, Stopping
<1>2. PICK processes :
        processes = IF proc[pidfile].is = "other" THEN [proc EXCEPT ![pidfile] = Nobody] ELSE proc
  OBVIOUS
<1>3. processes \in [Pid -> Process]
  BY <1>0, <1>1, <1>2, ProcessFacts
<1>4. \A p \in Pid : \/ processes[p] = proc[p]
                     \/ proc[p].is = "other" /\ processes[p] = Nobody
  BY <1>0, <1>1, <1>2
<1>5. AfterStop(processes) /\ pidfile' = None /\ UNCHANGED <<file, kills, late, shot>>
  BY <1>2 DEF AwaitEnd, Stopped
<1> QED BY <1>1, <1>3, <1>4, <1>5, InvStopped

-----------------------------------------------------------------------------
(* setup_secretweb.main() and initiator.main().                             *)

\* With nothing there no server can be that the scripts know.
LEMMA InvRunSetup == ASSUME IInv, RunSetup PROVE IInv'
<1>0. /\ SetupTypeOk /\ ScriptInv /\ ProcInv /\ MetaInv /\ PortInv /\ ReadyInv
      /\ FoundInv /\ FilesInv /\ KeptInv /\ ListInv
      /\ child = None /\ said = "nothing"
  BY Parts DEF RunSetup, ScriptInv, Early
<1>1. /\ pc = "idle" /\ keys < MaxKeys /\ script' = "setup" /\ key = None
      /\ existing' = ExistingDataFiles
      /\ pc' = (IF existing' = {} THEN "collect" ELSE "confirm")
      /\ UNCHANGED <<file, proc, pidfile, key, child, said, stray, kills, late, shot,
                     archived, config, known, published, step, keys>>
  BY <1>0 DEF RunSetup, Quiet, ScriptInv
<1>2. /\ \A f \in Renamed \cup {"hosts.json"} : f \in existing' <=> file[f] # None
      /\ \A f \in existing' : f \in File /\ file[f] # None
  BY <1>1, NthFile
<1>3. pc' = "collect" \/ pc' = "confirm"
  BY <1>1
<1>4. pc' = "collect" => \A f \in Renamed \cup {"hosts.json"} : file[f] = None
  BY <1>1, <1>2
<1>5. pc' = "collect" /\ ~stray => \A p \in Pid : ~Server(p)
  <2> SUFFICES ASSUME pc' = "collect", ~stray PROVE \A p \in Pid : ~Server(p)
    OBVIOUS
  <2>1. "hosts.dta" \in Encrypted /\ file["hosts.dta"] = None
    BY <1>4 DEF Encrypted, Renamed
  <2>2. pidfile = None
    BY <1>0, <2>1 DEF FilesInv
  <2> QED BY <1>0, <2>2, NoneIsNoKey DEF FoundInv
<1>6. SetupTypeOk'
  BY <1>0, <1>1, <1>2, <1>3 DEF SetupTypeOk, Point
<1>7. ScriptInv'
  BY <1>0, <1>1, <1>3 DEF ScriptInv, Rerun, Early, Handshake, HandedOver, Stopping
<1>8. ProcInv'
  BY <1>0, <1>1, <1>3 DEF ProcInv, Server, Serving
<1>9. MetaInv' /\ PortInv' /\ ReadyInv'
  BY <1>0, <1>1, <1>2, <1>3 DEF MetaInv, PortInv, HasPort, Server, ReadyInv, Serving
<1>10. FoundInv'
  BY <1>0, <1>1 DEF FoundInv, ServersFound, Server, Serving
<1>11. FilesInv'
  BY <1>0, <1>1, <1>3, <1>5 DEF FilesInv, Server
<1>12. KeptInv'
  BY <1>1, <1>2, <1>3, <1>4 DEF KeptInv, Rerun
<1>13. ListInv'
  <2>1. pc' = "confirm" \/ pc' = "collect" => Rerun' \/ pc' = "collect"
    BY <1>1 DEF Rerun
  <2> QED BY <1>0, <1>1, <1>2, <1>3, <1>4 DEF ListInv, Rerun, Stopping, Handshake, Server
<1> QED BY <1>6, <1>7, <1>8, <1>9, <1>10, <1>11, <1>12, <1>13 DEF IInv

\* Steps of a script that concern no file that a server reads.
LEMMA InvMoves ==
    ASSUME IInv,
           UNCHANGED <<file, proc, pidfile, child, said, kills, late, stray, shot,
                       existing, step, keys>>,
           \/ /\ UNCHANGED <<script, key>>
              /\ \/ pc = "confirm" /\ pc' = "stop"
                 \/ pc = "initiate" /\ pc' = "initiating"
                 \/ pc = "initiating" /\ pc' = "launch"
                 \/ pc = "network" /\ pc' = "record"
                 \/ pc = "record" /\ pc' = "recording"
                 \/ pc = "recording" /\ pc' = "gate"
                 \/ pc = "gate" /\ pc' = "stop"
           \/ /\ pc = "idle" /\ script' = "initiator"
              /\ \/ pc' = "launch" /\ key' \in Key /\ file["hosts.json"] # None
                 \/ pc' = "stop" /\ key' = None,
           archived' \subseteq File \X Content,
           config' \in [initiated : BOOLEAN, uuid : Key \cup {None}],
           known' \in Key \cup {None}, published' \subseteq Key,
           MetaInv'
    PROVE  IInv'
<1>0. /\ SetupTypeOk /\ ScriptInv /\ ProcInv /\ MetaInv /\ PortInv /\ ReadyInv
      /\ FoundInv /\ FilesInv /\ KeptInv /\ ListInv /\ None \notin Key
  BY Parts, NoneIsNoKey
<1>1. SetupTypeOk'
  BY <1>0 DEF SetupTypeOk, Point
<1>2. ScriptInv'
  BY <1>0 DEF ScriptInv, Rerun, Early, Handshake, HandedOver, Stopping
<1>3. /\ pc \notin {"send", "wait"} /\ pc' \notin {"send", "wait"}
      /\ child # None => key' = key
  BY <1>0 DEF ScriptInv, Early
<1>4. ProcInv'
  BY <1>0, <1>3 DEF ProcInv, Server, Serving
<1>5. PortInv' /\ ReadyInv'
  BY <1>0, <1>3 DEF PortInv, HasPort, Server, ReadyInv, Serving
<1>6. FoundInv'
  BY <1>0 DEF FoundInv, ServersFound, Server, Serving
<1>7. pc' \notin {"archive", "collect", "save"} /\ (Rerun' => Rerun)
  BY <1>0 DEF Rerun, Stopping, ScriptInv, HandedOver
<1>8. FilesInv'
  BY <1>0, <1>7 DEF FilesInv, Server
<1>9. KeptInv'
  BY <1>0, <1>7 DEF KeptInv
<1>10. ListInv'
  BY <1>0, <1>7 DEF ListInv, Server, Handshake
<1> QED BY <1>1, <1>2, <1>4, <1>5, <1>6, <1>8, <1>9, <1>10 DEF IInv

\* The script gives up between two steps.
LEMMA InvAborts ==
    ASSUME IInv, Exit, pc \in {"confirm", "collect", "network"},
           UNCHANGED <<file, pidfile, archived, config, known, published, keys, kills,
                       late, shot, step>>,
           existing' \in {existing, {}}
    PROVE  IInv'
<1>1. /\ SetupTypeOk /\ ScriptInv /\ FoundInv /\ late \in BOOLEAN
  BY Parts
<1>2. step' = 0 /\ kills' \in 0 .. MaxKills
  BY <1>1 DEF ScriptInv, SetupTypeOk
<1>3. ~stray => \A p \in Pid : Server(p) => p = pidfile
  BY <1>1, NoneIsNoKey DEF FoundInv, ScriptInv, Early, HandedOver
<1> QED BY <1>1, <1>2, <1>3, InvExit

LEMMA InvConfirmReset == ASSUME IInv, ConfirmReset PROVE IInv'
<1>0. SetupTypeOk /\ MetaInv
  BY Parts
<1>1. CASE Goto("stop") /\ UNCHANGED existing
  <2>1. MetaInv'
    BY <1>0, <1>1 DEF MetaInv, ConfirmReset, Goto
  <2> QED BY <1>0, <1>1, <2>1, InvMoves DEF ConfirmReset, Goto, Quiet, SetupTypeOk
<1>2. CASE Exit /\ existing' = {}
  BY <1>2, InvAborts DEF ConfirmReset, Quiet
<1> QED BY <1>1, <1>2 DEF ConfirmReset

LEMMA InvPublishKey1 == ASSUME IInv, PublishKey1 PROVE IInv'
<1>0. SetupTypeOk /\ MetaInv /\ ScriptInv
  BY Parts
<1>1. CASE published' = published \cup {key} /\ Goto("record")
  <2>1. key \in Key
    BY <1>0 DEF PublishKey1, ScriptInv, HandedOver, SetupTypeOk
  <2>2. MetaInv'
    BY <1>0, <1>1 DEF MetaInv, PublishKey1, Goto
  <2> QED BY <1>0, <1>1, <2>1, <2>2, InvMoves DEF PublishKey1, Goto, Quiet, SetupTypeOk
<1>2. CASE Exit /\ UNCHANGED published
  BY <1>2, InvAborts DEF PublishKey1, Quiet
<1> QED BY <1>1, <1>2 DEF PublishKey1

LEMMA InvOpenConfig == ASSUME IInv, OpenConfig PROVE IInv'
<1>0. SetupTypeOk /\ MetaInv
  BY Parts
<1>1. MetaInv' /\ config' \in [initiated : BOOLEAN, uuid : Key \cup {None}]
  BY <1>0 DEF MetaInv, OpenConfig, Goto, NoConfig
<1> QED BY <1>0, <1>1, InvMoves DEF OpenConfig, Goto, Quiet, SetupTypeOk

LEMMA InvWriteInitiated == ASSUME IInv, WriteInitiated PROVE IInv'
<1>0. SetupTypeOk /\ MetaInv
  BY Parts
<1>1. MetaInv' /\ config' \in [initiated : BOOLEAN, uuid : Key \cup {None}]
  BY <1>0 DEF MetaInv, WriteInitiated, Goto, SetupTypeOk
<1> QED BY <1>0, <1>1, InvMoves DEF WriteInitiated, Goto, Quiet, SetupTypeOk

LEMMA InvWriteMetadata == ASSUME IInv, WriteMetadata PROVE IInv'
<1>0. SetupTypeOk /\ MetaInv
  BY Parts
<1>1. MetaInv' /\ config' \in [initiated : BOOLEAN, uuid : Key \cup {None}]
  BY <1>0 DEF MetaInv, WriteMetadata, Goto, SetupTypeOk
<1> QED BY <1>0, <1>1, InvMoves DEF WriteMetadata, Goto, Quiet, SetupTypeOk

LEMMA InvHandOff == ASSUME IInv, HandOff PROVE IInv'
<1>0. SetupTypeOk /\ MetaInv
  BY Parts
<1>1. MetaInv'
  BY <1>0 DEF MetaInv, HandOff, Goto, setup
<1> QED BY <1>0, <1>1, InvMoves DEF HandOff, Goto, Quiet, SetupTypeOk, setup

LEMMA InvInitiator == ASSUME IInv, CollectKey1 \/ Stop PROVE IInv'
<1>0. SetupTypeOk /\ MetaInv /\ None \notin Key
  BY Parts, NoneIsNoKey
<1>1. MetaInv'
  BY <1>0 DEF MetaInv, CollectKey1, Stop, RunInitiator, setup
<1>2. CASE CollectKey1
  <2>1. config.uuid \in Key
    BY <1>0, <1>2 DEF CollectKey1, SetupTypeOk
  <2> QED BY <1>0, <1>1, <1>2, <2>1, InvMoves DEF CollectKey1, RunInitiator, Quiet, SetupTypeOk, setup
<1>3. CASE Stop
  BY <1>0, <1>1, <1>3, InvMoves DEF Stop, RunInitiator, Quiet, SetupTypeOk, setup
<1> QED BY <1>2, <1>3

\* The files are renamed one by one, and no server makes any meanwhile.
LEMMA InvArchiveFile == ASSUME IInv, ArchiveFile PROVE IInv'
<1>0. /\ SetupTypeOk /\ ScriptInv /\ ProcInv /\ MetaInv /\ PortInv /\ ReadyInv
      /\ FoundInv /\ FilesInv /\ KeptInv /\ ListInv
      /\ step \in 0 .. 4 /\ file \in [File -> Content \cup {None}]
  BY Parts
<1>1. PICK f : f = DataFilenames[step + 1]
  OBVIOUS
<1>2. /\ pc = "archive" /\ child = None /\ said = "nothing" /\ pidfile = None
      /\ existing' = existing \ {f}
      /\ UNCHANGED <<pidfile, script, key, child, said, proc, stray, kills, late, shot,
                     config, known, published, keys>>
  BY <1>0, <1>1 DEF ArchiveFile, Quiet, NextFile, Goto, ScriptInv, Early, running
<1>3. /\ f \in File /\ Len(DataFilenames) = 5
      /\ \A g \in Renamed \cup {"hosts.json"} : f = g <=> Before(g) = step
  BY <1>0, <1>1, NthFile
<1>4. \/ step < 4 /\ step' = step + 1 /\ pc' = "archive"
      \/ step = 4 /\ step' = 0 /\ pc' = "collect"
  BY <1>0, <1>2, <1>3 DEF ArchiveFile, NextFile, Goto, running
<1>5. /\ file' \in [File -> Content \cup {None}]
      /\ \A g \in File : g # f => file'[g] = file[g]
      /\ f \in existing => file'[f] = None
      /\ f \notin existing => file' = file
      /\ f \in existing => archived' = archived \cup {<<f, file[f]>>}
      /\ f \notin existing => archived' = archived
  BY <1>0, <1>1, <1>3 DEF ArchiveFile
<1>20. /\ \A g \in Renamed : g \in File /\ Before(g) \in 0 .. 4
       /\ "hosts.json" \in File /\ Before("hosts.json") = 1
  BY DEF Renamed, Before, File, Encrypted, Plain
<1>6. SetupTypeOk'
  <2>1. archived' \subseteq File \X Content
    <3>1. f \in existing => file[f] \in Content
      BY <1>0 DEF MetaInv
    <3> QED BY <1>0, <1>3, <1>5, <3>1 DEF SetupTypeOk
  <2>2. step' \in 0 .. Len(Saved)
    BY <1>0, <1>4 DEF Saved
  <2>3. pc' \in Point
    BY <1>4 DEF Point
  <2> QED BY <1>0, <1>2, <1>5, <2>1, <2>2, <2>3 DEF SetupTypeOk
<1>7. ScriptInv'
  BY <1>0, <1>2, <1>4 DEF ScriptInv, Rerun, Early, Handshake, HandedOver, Stopping
<1>8. ProcInv'
  BY <1>0, <1>2, <1>4 DEF ProcInv, Server, Serving
<1>9. MetaInv' /\ PortInv' /\ ReadyInv'
  BY <1>0, <1>2, <1>4, <1>5 DEF MetaInv, PortInv, HasPort, Server, ReadyInv, Serving
<1>10. FoundInv'
  BY <1>0, <1>2 DEF FoundInv, ServersFound, Server, Serving
<1>11. FilesInv'
  BY <1>0, <1>2 DEF FilesInv, Server
<1>12. KeptInv'
  <2> SUFFICES ASSUME ~stray, NEW g \in Renamed
               PROVE  /\ ~Rerun'
                      /\ pc' = "archive" /\ file'[g] # None => Before(g) >= step' /\ g \in existing'
                      /\ pc' = "collect" => file'[g] = None
    BY <1>2, <1>4 DEF KeptInv
  <2>1. file[g] # None => Before(g) >= step /\ g \in existing
    BY <1>0, <1>2 DEF KeptInv
  <2>2. file'[g] # None => g # f /\ file[g] # None
    BY <1>5, <1>20, <2>1
  <2>3. file'[g] # None => Before(g) > step /\ g \in existing'
    BY <1>0, <1>2, <1>3, <1>20, <2>1, <2>2
  <2>4. file'[g] # None => step' = step + 1 /\ pc' = "archive"
    BY <1>0, <1>4, <1>20, <2>3
  <2> QED BY <1>0, <1>4, <1>20, <2>3, <2>4 DEF Rerun, Stopping
<1>13. ListInv'
  <2> SUFFICES ASSUME ~stray, kills = 0
               PROVE  /\ pc' = "archive" /\ file'["hosts.json"] # None
                           => step' < 2 /\ "hosts.json" \in existing'
                      /\ pc' = "collect" => file'["hosts.json"] = None
                      /\ \A p \in Pid : Server(p)' => proc'[p].at # "hosts.json"
    BY <1>2, <1>4 DEF ListInv, Rerun, Stopping, Handshake
  <2>1. file["hosts.json"] # None => step < 2 /\ "hosts.json" \in existing
    BY <1>0, <1>2 DEF ListInv
  <2>2. file'["hosts.json"] # None => f # "hosts.json" /\ file["hosts.json"] # None
    BY <1>5, <1>20, <2>1
  <2>3. file'["hosts.json"] # None => step = 0 /\ "hosts.json" \in existing'
    BY <1>0, <1>2, <1>3, <1>20, <2>1, <2>2
  <2>4. \A p \in Pid : Server(p)' => proc'[p].at # "hosts.json"
    BY <1>0, <1>2 DEF ListInv, Server
  <2> QED BY <1>0, <1>4, <2>3, <2>4
<1> QED BY <1>6, <1>7, <1>8, <1>9, <1>10, <1>11, <1>12, <1>13 DEF IInv

LEMMA InvCollectHosts == ASSUME IInv, CollectHosts PROVE IInv'
<1>0. /\ SetupTypeOk /\ ScriptInv /\ ProcInv /\ MetaInv /\ PortInv /\ ReadyInv
      /\ FoundInv /\ FilesInv /\ KeptInv /\ ListInv
      /\ MaxKeys \in Nat
  BY Parts, HandoffAssumption
<1>1. /\ pc = "collect" /\ child = None /\ said = "nothing" /\ keys < MaxKeys /\ step = 0
      /\ UNCHANGED <<file, existing, archived, config, published, step,
                     pidfile, kills, late, shot>>
  BY <1>0 DEF CollectHosts, Quiet, ScriptInv, Early
<1>2. CASE /\ keys' = keys + 1 /\ key' = keys' /\ known' = config.uuid /\ pc' = "save"
           /\ UNCHANGED <<script, child, said, proc, stray>>
  <2>1. keys' \in 0 .. MaxKeys /\ key' \in Key /\ key' # None
    <3>1. keys' \in 0 .. MaxKeys /\ key' \in Key
      BY <1>0, <1>1, <1>2 DEF SetupTypeOk, Key
    <3> QED BY <3>1, NoneIsNoKey
  <2>2. SetupTypeOk'
    BY <1>0, <1>1, <1>2, <2>1 DEF SetupTypeOk, Point
  <2>3. ScriptInv'
    BY <1>0, <1>1, <1>2, <2>1 DEF ScriptInv, Rerun, Early, Handshake, HandedOver, Stopping
  <2>4. ProcInv'
    BY <1>0, <1>1, <1>2 DEF ProcInv, Server, Serving
  <2>5. MetaInv'
    BY <1>0, <1>1, <1>2 DEF MetaInv
  <2>6. PortInv' /\ ReadyInv'
    BY <1>0, <1>1, <1>2 DEF PortInv, HasPort, Server, ReadyInv, Serving
  <2>7. FoundInv'
    BY <1>0, <1>1, <1>2 DEF FoundInv, ServersFound, Server, Serving
  <2>8. FilesInv'
    BY <1>0, <1>1, <1>2 DEF FilesInv, Server
  <2>9. KeptInv'
    BY <1>0, <1>1, <1>2 DEF KeptInv, Rerun, Stopping
  <2>10. ListInv'
    BY <1>0, <1>1, <1>2 DEF ListInv, Rerun, Stopping, Handshake, Server
  <2> QED BY <2>2, <2>3, <2>4, <2>5, <2>6, <2>7, <2>8, <2>9, <2>10 DEF IInv
<1>3. CASE Exit /\ UNCHANGED <<keys, known>>
  BY <1>1, <1>3, InvAborts
<1> QED BY <1>2, <1>3 DEF CollectHosts

\* The files are saved one by one, to names that are free.
LEMMA InvSaveFile == ASSUME IInv, SaveFile PROVE IInv'
<1>0. /\ SetupTypeOk /\ ScriptInv /\ ProcInv /\ MetaInv /\ PortInv /\ ReadyInv
      /\ FoundInv /\ FilesInv /\ KeptInv /\ ListInv
      /\ step \in 0 .. 4 /\ file \in [File -> Content \cup {None}]
  BY Parts
<1>1. PICK f : f = Saved[step + 1]
  OBVIOUS
<1>2. /\ pc = "save" /\ child = None /\ said = "nothing" /\ key # None /\ key \in Key
      /\ file' = [file EXCEPT ![f] = [key |-> key, by |-> "setup"]]
      /\ UNCHANGED <<pidfile, script, key, child, said, proc, stray, kills, late, shot,
                     existing, archived, config, known, published, keys>>
  BY <1>0, <1>1 DEF SaveFile, Quiet, NextFile, Goto, ScriptInv, Early, running, SetupTypeOk
<1>3. /\ f \in File /\ Len(Saved) = 5
      /\ \A g \in Renamed \cup {"hosts.json"} : f = g <=> Before(g) = step
  BY <1>0, <1>1, NthFile
<1>4. \/ step < 4 /\ step' = step + 1 /\ pc' = "save"
      \/ step = 4 /\ step' = 0 /\ pc' = "initiate"
  BY <1>0, <1>2, <1>3 DEF SaveFile, NextFile, Goto, running
<1>5. [key |-> key, by |-> "setup"] \in Content /\ None # [key |-> key, by |-> "setup"]
  BY <1>2, HandoffAssumption DEF Content, Key
<1>6. /\ file' \in [File -> Content \cup {None}]
      /\ \A g \in File : g # f => file'[g] = file[g]
      /\ file'[f] # None
      /\ \A g \in File : file[g] # None => file'[g] # None
  BY <1>0, <1>2, <1>3, <1>5
<1>7. /\ \A g \in Renamed : g \in File /\ Before(g) \in 0 .. 4
      /\ "hosts.json" \in File /\ Before("hosts.json") = 1
      /\ "hosts.dta" \in Renamed /\ Before("hosts.dta") = 0
      /\ \A g \in Encrypted : g \in File
  BY DEF Renamed, Before, File, Encrypted, Plain
<1>8. SetupTypeOk'
  <2>1. step' \in 0 .. Len(Saved)
    BY <1>0, <1>4 DEF Saved
  <2>2. pc' \in Point
    BY <1>4 DEF Point
  <2> QED BY <1>0, <1>2, <1>6, <2>1, <2>2 DEF SetupTypeOk
<1>9. ScriptInv'
  BY <1>0, <1>2, <1>4 DEF ScriptInv, Rerun, Early, Handshake, HandedOver, Stopping
<1>10. ProcInv'
  BY <1>0, <1>2, <1>4 DEF ProcInv, Server, Serving
<1>11. MetaInv' /\ PortInv' /\ ReadyInv'
  BY <1>0, <1>2, <1>4, <1>6 DEF MetaInv, PortInv, HasPort, Server, ReadyInv, Serving
<1>12. FoundInv'
  BY <1>0, <1>2 DEF FoundInv, ServersFound, Server, Serving
<1>13. FilesInv'
  <2>1. ~stray => \A p \in Pid : ~Server(p)
    BY <1>0, <1>2 DEF FilesInv
  <2>2. ~stray /\ pidfile # None => \A g \in Encrypted : file'[g] # None
    BY <1>0, <1>6, <1>7 DEF FilesInv
  <2> QED BY <1>2, <2>1, <2>2 DEF FilesInv, Server
<1>14. KeptInv'
  <2> SUFFICES ASSUME ~stray, NEW g \in Renamed, pc' = "save", file'[g] # None
               PROVE  Before(g) < step'
    BY <1>2, <1>4 DEF KeptInv, Rerun, Stopping
  <2>1. g # f => Before(g) < step
    BY <1>0, <1>2, <1>6, <1>7 DEF KeptInv
  <2>2. g = f => Before(g) = step
    BY <1>3
  <2> QED BY <1>0, <1>4, <1>7, <2>1, <2>2
<1>15. ListInv'
  <2> SUFFICES ASSUME ~stray, kills = 0
               PROVE  /\ pc' = "save" /\ file'["hosts.json"] # None => step' >= 2
                      /\ file'["hosts.dta"] # None
                      /\ \A p \in Pid : Server(p)' => proc'[p].at # "hosts.json"
    BY <1>2, <1>4 DEF ListInv, Rerun, Stopping, Handshake
  <2>1. file'["hosts.dta"] # None
    <3>1. CASE step = 0
      BY <1>3, <1>6, <1>7, <3>1
    <3>2. CASE step >= 1
      BY <1>0, <1>2, <1>6, <1>7, <3>2 DEF ListInv
    <3> QED BY <1>0, <3>1, <3>2
  <2>2. ASSUME pc' = "save", file'["hosts.json"] # None PROVE step' >= 2
    <3>1. CASE f = "hosts.json"
      BY <1>0, <1>3, <1>4, <1>7, <2>2, <3>1
    <3>2. CASE f # "hosts.json"
      <4>1. file["hosts.json"] # None
        BY <1>6, <1>7, <2>2, <3>2
      <4>2. step >= 2
        BY <1>0, <1>2, <4>1 DEF ListInv
      <4> QED BY <1>0, <1>4, <2>2, <4>2
    <3> QED BY <3>1, <3>2
  <2>3. \A p \in Pid : Server(p)' => proc'[p].at # "hosts.json"
    BY <1>0, <1>2 DEF ListInv, Server
  <2> QED BY <2>1, <2>2, <2>3
<1> QED BY <1>8, <1>9, <1>10, <1>11, <1>12, <1>13, <1>14, <1>15 DEF IInv

-----------------------------------------------------------------------------
(* Failures.                                                                *)

LEMMA InvKillScript ==
    ASSUME IInv, KillScript, step' = 0, existing' = {},
           UNCHANGED <<archived, config, known, published, keys>>
    PROVE  IInv'
<1>1. SetupTypeOk /\ kills \in Nat /\ MaxKills \in Nat /\ late \in BOOLEAN
  BY Parts, HandoffAssumption
<1>2. kills' \in 0 .. MaxKills /\ kills' # 0
  BY <1>1 DEF KillScript
<1> QED BY <1>1, <1>2, InvExit DEF KillScript

LEMMA InvReboot ==
    ASSUME IInv, Reboot, step' = 0, existing' = {},
           UNCHANGED <<archived, config, known, published, keys>>
    PROVE  IInv'
<1>0. /\ SetupTypeOk /\ ScriptInv /\ ProcInv /\ MetaInv /\ FoundInv /\ FilesInv /\ ListInv
      /\ kills \in Nat /\ MaxKills \in Nat
  BY Parts, HandoffAssumption
<1>1. /\ pc' = "idle" /\ key' = None /\ child' = None /\ said' = "nothing" /\ script' = script
      /\ proc' = [p \in Pid |-> Nobody]
      /\ UNCHANGED <<file, pidfile, late, stray, shot>>
  BY DEF Reboot, End
<1>2. kills' \in 0 .. MaxKills /\ kills' # 0 /\ kills' > 0
  BY <1>0 DEF Reboot
<1>3. \A p \in Pid : /\ ~Server(p)' /\ proc'[p].at = "receive" /\ proc'[p].key = None
                     /\ proc'[p].is # "zombie"
  BY <1>1 DEF Server, Nobody
<1>4. SetupTypeOk'
  BY <1>0, <1>1, <1>2, ProcessFacts DEF SetupTypeOk, Point, Saved
<1>5. ScriptInv'
  BY <1>1 DEF ScriptInv, Rerun, Early, Handshake, HandedOver, Stopping
<1>6. ProcInv'
  BY <1>1, <1>3 DEF ProcInv, Serving
<1>7. MetaInv'
  BY <1>0, <1>1 DEF MetaInv
<1>8. PortInv' /\ ReadyInv'
  BY <1>2, <1>3 DEF PortInv, HasPort, ReadyInv
<1>9. FoundInv'
  BY <1>2, <1>3 DEF FoundInv, ServersFound, Serving
<1>10. FilesInv'
  BY <1>0, <1>1, <1>3 DEF FilesInv
<1>11. KeptInv'
  BY <1>1 DEF KeptInv, Rerun, Stopping
<1>12. ListInv'
  BY <1>2 DEF ListInv
<1> QED BY <1>4, <1>5, <1>6, <1>7, <1>8, <1>9, <1>10, <1>11, <1>12 DEF IInv

LEMMA InvPidReused == ASSUME IInv, PidReused, UNCHANGED setup PROVE IInv'
<1>0. /\ SetupTypeOk /\ ScriptInv /\ ProcInv /\ MetaInv /\ PortInv /\ ReadyInv
      /\ FoundInv /\ FilesInv /\ KeptInv /\ ListInv
      /\ proc \in [Pid -> Process] /\ child \in Pid \cup {None}
  BY Parts
<1>1. UNCHANGED <<file, pidfile, script, pc, key, child, said, kills, late, stray, shot, setup>>
  BY DEF PidReused, running
<1>2. PICK p \in Pid, is \in {"free", "other"} :
        proc[p].is \in {"free", "other"} /\ proc' = [proc EXCEPT ![p].is = is]
  BY DEF PidReused, Alive
<1>3. proc' \in [Pid -> Process]
  BY <1>0, <1>2, ProcessFacts
<1>4. /\ \A q \in Pid : q # p => proc'[q] = proc[q]
      /\ proc'[p].is = is /\ proc'[p].at = proc[p].at /\ proc'[p].key = proc[p].key
  BY <1>0, <1>2 DEF Process
<1>5. \A q \in Pid : /\ Server(q)' <=> Server(q)
                     /\ Server(q) => proc'[q] = proc[q]
  BY <1>2, <1>4 DEF Server
<1>6. SetupTypeOk'
  BY <1>0, <1>1, <1>3 DEF SetupTypeOk, setup
<1>7. ScriptInv'
  BY <1>0, <1>1 DEF ScriptInv, Rerun, setup
<1>8. ProcInv'
  BY <1>0, <1>1, <1>2, <1>4 DEF ProcInv, Server, Serving
<1>9. MetaInv'
  BY <1>0, <1>1 DEF MetaInv, setup
<1>10. PortInv'
  BY <1>0, <1>5 DEF PortInv, HasPort
<1>11. ReadyInv'
  BY <1>0, <1>1, <1>2, <1>4 DEF ReadyInv, Serving, Server
<1>12. FoundInv'
  BY <1>0, <1>1, <1>5 DEF FoundInv, ServersFound, Serving
<1>13. FilesInv'
  BY <1>0, <1>1, <1>5 DEF FilesInv
<1>14. KeptInv'
  BY <1>0, <1>1 DEF KeptInv, Rerun, setup
<1>15. ListInv'
  BY <1>0, <1>1, <1>5 DEF ListInv, Rerun, setup
<1> QED BY <1>6, <1>7, <1>8, <1>9, <1>10, <1>11, <1>12, <1>13, <1>14, <1>15 DEF IInv

LEMMA InvNext == IInv /\ [Next]_vars => IInv'
<1> SUFFICES ASSUME IInv, [Next]_vars PROVE IInv'
  OBVIOUS
<1>1. CASE SetupStep
  BY <1>1, InvRunSetup, InvConfirmReset, InvArchiveFile, InvCollectHosts, InvSaveFile,
     InvOpenConfig, InvWriteInitiated, InvPublishKey1, InvWriteMetadata, InvHandOff
     DEF SetupStep
<1>2. CASE CollectKey1 \/ Stop
  BY <1>2, InvInitiator
<1>3. CASE HandoffStep /\ StartStep
  BY <1>3, InvLaunch, InvSendKey1, InvAwaitStatus, InvTimeOut, InvGiveUp, InvWritePid
     DEF HandoffStep, StartStep
<1>4. CASE HandoffStep /\ StopStep
  BY <1>4, InvTerminate, InvAwaitEnd DEF HandoffStep, StopStep
<1>5. CASE ServerStep /\ UNCHANGED setup
  BY <1>5, InvServerStep
<1>6. CASE Failure /\ UNCHANGED <<archived, config, known, published, keys>>
  BY <1>6, InvKillScript, InvReboot DEF Failure
<1>7. CASE PidReused /\ UNCHANGED setup
  BY <1>7, InvPidReused
<1>8. CASE UNCHANGED vars
  <2>1. /\ SetupTypeOk /\ ScriptInv /\ ProcInv /\ MetaInv /\ PortInv /\ ReadyInv
        /\ FoundInv /\ FilesInv /\ KeptInv /\ ListInv
    BY Parts
  <2>2. UNCHANGED <<file, proc, pidfile, script, pc, key, child, said, kills, late, stray,
                    shot, setup>>
    BY <1>8 DEF vars, handoff, running
  <2>3. SetupTypeOk'
    BY <2>1, <2>2 DEF SetupTypeOk, setup
  <2>4. ScriptInv' /\ MetaInv' /\ KeptInv'
    BY <2>1, <2>2 DEF ScriptInv, MetaInv, KeptInv, Rerun, setup
  <2>5. ProcInv'
    BY <2>1, <2>2 DEF ProcInv, Server, Serving
  <2>6. PortInv' /\ ReadyInv' /\ FoundInv'
    BY <2>1, <2>2 DEF PortInv, HasPort, ReadyInv, FoundInv, ServersFound, Serving, Server
  <2>7. FilesInv'
    BY <2>1, <2>2 DEF FilesInv, Server
  <2>8. ListInv'
    BY <2>1, <2>2 DEF ListInv, Rerun, Server, setup
  <2> QED BY <2>3, <2>4, <2>5, <2>6, <2>7, <2>8 DEF IInv
<1> QED BY <1>1, <1>2, <1>3, <1>4, <1>5, <1>6, <1>7, <1>8 DEF Next, HandoffStep

-----------------------------------------------------------------------------
(* The properties of every reachable state.                                 *)

\* The script, the servers and the files are in the states the code can name.
THEOREM SetupTyped == Spec => []SetupTypeOk
<1>1. IInv => SetupTypeOk
  BY DEF IInv
<1> QED BY InvInit, InvNext, <1>1, PTL DEF Spec

\* A server that can be stopped through the pidfile can read every file of its
\* host, with any number of reruns and failures: see FilesInv.
THEOREM ServerOwnsFiles == Spec => []KnownServerOwnsFiles
<1>1. ASSUME IInv PROVE KnownServerOwnsFiles
  <2>1. FilesInv
    BY <1>1, Parts
  <2>2. Opened("serve") = Encrypted
    BY DEF Opened, Encrypted
  <2> QED BY <2>1, <2>2 DEF FilesInv, KnownServerOwnsFiles, Serving
<1> QED BY InvInit, InvNext, <1>1, PTL DEF Spec

\* What config.ini names has been published in full, whatever was interrupted:
\* see MetaInv.
THEOREM MetadataBoots == Spec => []MetadataBootable
<1>1. ASSUME IInv PROVE MetadataBootable
  <2>1. MetaInv
    BY <1>1, Parts
  <2> QED BY <2>1 DEF MetaInv, MetadataBootable
<1> QED BY InvInit, InvNext, <1>1, PTL DEF Spec

\* Whoever goes on after start_server() has a server on the port with its KEY1,
\* unless something was killed.
THEOREM ReadyServes == Spec => []ReadyMeansServing
<1>1. ASSUME IInv PROVE ReadyMeansServing
  <2>0. /\ SetupTypeOk /\ ScriptInv /\ ProcInv /\ ReadyInv /\ kills \in Nat
    BY <1>1, Parts
  <2> SUFFICES ASSUME child # None, pc \notin {"send", "await", "giveup", "wait"}, ~(kills > 0)
               PROVE  Serving(child) /\ proc[child].key = key
    BY DEF ReadyMeansServing
  <2>1. kills = 0
    BY <2>0
  <2>2. said = "ok"
    BY <2>0 DEF SetupTypeOk, Point, ScriptInv, Early, HandedOver, Stopping
  <2>3. Serving(child)
    BY <2>0, <2>1, <2>2 DEF ReadyInv
  <2> QED BY <2>0, <2>3 DEF ProcInv, Serving
<1> QED BY InvInit, InvNext, <1>1, PTL DEF Spec

\* stop_server() finds every server that serves, also one that gets ready after
\* its starter's timeout, outside the gaps ServersFound names: see FoundInv.
THEOREM ServingIsFound == Spec => []ServersFound
<1>1. ASSUME IInv PROVE ServersFound
  <2>1. FoundInv
    BY <1>1, Parts
  <2> QED BY <2>1 DEF FoundInv
<1> QED BY InvInit, InvNext, <1>1, PTL DEF Spec

\* While no process is killed, no other program's process is either.
THEOREM NobodyElseShot == Spec => []ForeignUntouched
<1>1. ASSUME IInv PROVE ForeignUntouched
  <2>1. ReadyInv /\ kills \in Nat
    BY <1>1, Parts
  <2>2. kills = 0 => ~shot
    BY <2>1 DEF ReadyInv
  <2> QED BY <2>1, <2>2 DEF ForeignUntouched
<1> QED BY InvInit, InvNext, <1>1, PTL DEF Spec

-----------------------------------------------------------------------------
(* The properties of every step.                                            *)

\* The steps that change a file: setup's two, and three of a server.
LEMMA FileSteps ==
    ASSUME [Next]_vars, file' # file
    PROVE  \/ ArchiveFile \/ SaveFile
           \/ \E p \in Pid : \/ EnsureFile(p) \/ EnsureMirror(p)
                             \/ \E f \in File : ServerSaves(p, f)
<1>1. CASE SetupStep
  BY <1>1 DEF SetupStep, RunSetup, ConfirmReset, CollectHosts, OpenConfig, WriteInitiated,
     PublishKey1, WriteMetadata, HandOff
<1>2. CASE CollectKey1 \/ Stop
  BY <1>2 DEF CollectKey1, Stop, RunInitiator
<1>3. CASE StartStep
  BY <1>3 DEF StartStep, Launch, SendKey1, AwaitStatus, TimeOut, GiveUp, WritePid
<1>4. CASE StopStep
  BY <1>4 DEF StopStep, Terminate, AwaitEnd
<1>5. CASE ServerStep
  BY <1>5 DEF ServerStep, ReceiveKey1, EnsureFails, Bind, Report, ServerDies
<1>6. CASE Failure \/ PidReused
  BY <1>6 DEF Failure, KillScript, Reboot, PidReused
<1>7. CASE UNCHANGED vars
  BY <1>7 DEF vars, handoff
<1> QED BY <1>1, <1>2, <1>3, <1>4, <1>5, <1>6, <1>7 DEF Next, HandoffStep

\* A server leaves what is there under its KEY1.
LEMMA ServerKeeps ==
    ASSUME IInv, ~stray, NEW p \in Pid, NEW f \in Encrypted, file[f] # None,
           EnsureFile(p) \/ EnsureMirror(p) \/ \E g \in File : ServerSaves(p, g)
    PROVE  file'[f] # None /\ file'[f].key = file[f].key
<1>0. /\ FilesInv /\ ProcInv /\ proc \in [Pid -> Process]
      /\ file \in [File -> Content \cup {None}]
  BY Parts
<1>1. f \in File /\ f \notin Plain
  BY DEF File, Encrypted, Plain
<1>2. CASE EnsureFile(p)
  BY <1>0, <1>1, <1>2 DEF EnsureFile, Create
<1>3. CASE EnsureMirror(p)
  BY <1>0, <1>1, <1>3 DEF EnsureMirror, Create
<1>4. ASSUME NEW g \in File, ServerSaves(p, g)
      PROVE  file'[f] # None /\ file'[f].key = file[f].key
  <2>1. Server(p) /\ proc[p].at = "serve" /\ file' = [file EXCEPT ![g] = [key |-> proc[p].key, by |-> "server"]]
    BY <1>4 DEF ServerSaves, Serving, Create
  <2>2. Opened("serve") = Encrypted
    BY DEF Opened, Encrypted
  <2>3. file[f].key = proc[p].key
    BY <1>0, <2>1, <2>2 DEF FilesInv
  <2>4. None # [key |-> proc[p].key, by |-> "server"]
    <3>1. proc[p].key \in Key
      BY <1>0, <2>1 DEF Process, ProcInv
    <3> QED BY <3>1, HandoffAssumption DEF Key
  <2> QED BY <1>0, <1>1, <2>1, <2>3, <2>4
<1> QED BY <1>2, <1>3, <1>4

\* No encrypted file is lost to a rerun or a server: a save by setup finds the
\* name free, for what was there has been renamed and no server makes it anew.
THEOREM NoFileLost == Spec => EncryptedFilesKept
<1>1. ASSUME IInv, [Next]_vars, NEW f \in Encrypted, ~stray, file[f] # None
      PROVE  \/ file'[f] # None /\ file'[f].key = file[f].key
             \/ <<f, file[f]>> \in archived'
  <2>0. /\ MetaInv /\ KeptInv /\ step \in 0 .. 4 /\ file \in [File -> Content \cup {None}]
    BY <1>1, Parts
  <2>1. f \in File
    BY DEF File
  <2>2. CASE file' = file
    BY <1>1, <2>2
  <2>3. CASE ArchiveFile
    BY <1>1, <2>0, <2>1, <2>3 DEF ArchiveFile
  <2>4. CASE SaveFile
    <3>1. PICK g : g = Saved[step + 1]
      OBVIOUS
    <3>2. file' = [file EXCEPT ![g] = [key |-> key, by |-> "setup"]] /\ pc = "save"
      BY <2>4, <3>1 DEF SaveFile
    <3>3. f \in Renamed => f # g
      <4>1. f \in Renamed => (f = g <=> Before(f) = step)
        BY <2>0, <3>1, NthFile
      <4>2. f \in Renamed => Before(f) < step
        BY <1>1, <2>0, <3>2 DEF KeptInv
      <4> QED BY <2>0, <4>1, <4>2 DEF Renamed, Before
    <3>4. f \notin Renamed => f # g
      BY <1>1, <2>0, <3>1, NthFile DEF Renamed, Encrypted
    <3> QED BY <1>1, <2>0, <2>1, <3>2, <3>3, <3>4
  <2>5. CASE \E p \in Pid : EnsureFile(p) \/ EnsureMirror(p) \/ \E g \in File : ServerSaves(p, g)
    BY <1>1, <2>5, ServerKeeps
  <2> QED BY <1>1, <2>2, <2>3, <2>4, <2>5, FileSteps
<1>2. IInv /\ [Next]_vars =>
        [\A f \in Encrypted : ~stray /\ file[f] # None =>
           \/ file'[f] # None /\ file'[f].key = file[f].key
           \/ <<f, file[f]>> \in archived']_vars
  BY <1>1
<1> QED BY InvInit, InvNext, <1>2, PTL DEF Spec, EncryptedFilesKept

\* A server takes the port only when its files are all under its KEY1.
THEOREM OpensItsOwn == Spec => StartsWithOwnFilesOnly
<1>1. IInv /\ [Next]_vars =>
        [\A p \in Pid : proc[p].at = "bind" /\ proc'[p].at = "report" /\ ~stray =>
           \A f \in Encrypted : file[f] # None /\ file[f].key = proc[p].key]_vars
  <2> SUFFICES ASSUME IInv, NEW p \in Pid, proc[p].at = "bind", ~stray, NEW f \in Encrypted
               PROVE  file[f] # None /\ file[f].key = proc[p].key
    OBVIOUS
  <2>1. FilesInv /\ Server(p)
    BY Parts DEF ProcInv
  <2>2. Opened("bind") = Encrypted
    BY DEF Opened, Encrypted
  <2> QED BY <2>1, <2>2 DEF FilesInv
<1> QED BY InvInit, InvNext, <1>1, PTL DEF Spec, StartsWithOwnFilesOnly

\* The list of hosts is renamed before another takes its place: no server makes
\* a new one between the renaming and the saving.
THEOREM HostListKept == Spec => HostListRenamed
<1>1. ASSUME IInv, [Next]_vars, kills = 0, ~stray, file["hosts.json"] # None,
             file'["hosts.json"] # file["hosts.json"]
      PROVE  <<"hosts.json", file["hosts.json"]>> \in archived'
  <2>0. /\ ListInv /\ ScriptInv /\ FilesInv /\ FoundInv /\ step \in 0 .. 4
        /\ file \in [File -> Content \cup {None}]
        /\ pidfile \in Pid \cup {None}
    BY <1>1, Parts
  <2>1. "hosts.json" \in File /\ "hosts.json" \notin Encrypted
    BY DEF File, Plain, Encrypted
  <2>2. CASE ArchiveFile
    BY <1>1, <2>0, <2>1, <2>2 DEF ArchiveFile
  <2>3. CASE SaveFile
    <3>1. Saved[step + 1] = "hosts.json" <=> step = 1
      BY <2>0, NthFile DEF Before
    <3>2. step >= 2
      BY <1>1, <2>0, <2>3 DEF SaveFile, ListInv
    <3> QED BY <1>1, <2>0, <2>1, <2>3, <3>1, <3>2 DEF SaveFile
  <2>4. ASSUME NEW p \in Pid, EnsureFile(p) PROVE FALSE
    BY <1>1, <2>0, <2>1, <2>4 DEF EnsureFile, Create
  <2>5. ASSUME NEW p \in Pid, EnsureMirror(p) PROVE FALSE
    <3>1. proc[p].at # "hosts.json"
      BY <1>1, <2>0, <2>5 DEF ListInv, EnsureMirror
    <3> QED BY <1>1, <2>0, <2>1, <2>5, <3>1 DEF EnsureMirror, Create
  <2>6. ASSUME NEW p \in Pid, NEW g \in File, ServerSaves(p, g) PROVE FALSE
    BY <1>1, <2>0, <2>1, <2>6 DEF ServerSaves, Create
  <2> QED BY <1>1, <2>2, <2>3, <2>4, <2>5, <2>6, FileSteps
<1>2. IInv /\ [Next]_vars =>
        [kills = 0 /\ ~stray /\ file["hosts.json"] # None
         /\ file'["hosts.json"] # file["hosts.json"] =>
           <<"hosts.json", file["hosts.json"]>> \in archived']_vars
  BY <1>1
<1> QED BY InvInit, InvNext, <1>2, PTL DEF Spec, HostListRenamed

-----------------------------------------------------------------------------
(* start_server() and stop_server() return.                                 *)

\* Where a step of start_server() or stop_server() leads: never back.
Ahead ==
    [launch |-> {"send", "idle"},
     send   |-> {"await", "idle"},
     await  |-> {"pid", "giveup", "idle"},
     giveup |-> {"idle"},
     pid    |-> {"network", "idle"},
     stop   |-> {"wait", "archive", "idle"},
     wait   |-> {"archive", "idle"}]

LEMMA HandoffLeads == ASSUME HandoffStep PROVE HandingOff /\ pc' \in Ahead[pc]
<1> USE DEF HandingOff, Ahead
<1>1. CASE Launch
  BY <1>1 DEF Launch, Exit, End
<1>2. CASE SendKey1
  BY <1>2 DEF SendKey1, Exit, End
<1>3. CASE AwaitStatus
  BY <1>3 DEF AwaitStatus, Goto, Exit, End
<1>4. CASE TimeOut
  BY <1>4 DEF TimeOut, Goto
<1>5. CASE GiveUp
  BY <1>5 DEF GiveUp, Exit, End
<1>6. CASE WritePid
  BY <1>6 DEF WritePid, Exit, End
<1>7. CASE Terminate
  BY <1>7 DEF Terminate, AfterStop, Exit, End
<1>8. CASE AwaitEnd
  BY <1>8 DEF AwaitEnd, AfterStop, End
<1> QED BY <1>1, <1>2, <1>3, <1>4, <1>5, <1>6, <1>7, <1>8
        DEF HandoffStep, StartStep, StopStep

\* Meanwhile nobody else moves the script, except by ending it.
LEMMA HandoffUndisturbed ==
    ASSUME HandingOff, [Next]_vars
    PROVE  pc' = pc \/ pc' = "idle" \/ HandoffStep
<1>1. ~SetupStep /\ ~CollectKey1 /\ ~Stop
  BY DEF HandingOff, SetupStep, RunSetup, ConfirmReset, ArchiveFile, CollectHosts, SaveFile,
     OpenConfig, WriteInitiated, PublishKey1, WriteMetadata, HandOff, CollectKey1, Stop,
     RunInitiator
<1>2. CASE ServerStep
  BY <1>2 DEF ServerStep, ReceiveKey1, EnsureFile, EnsureMirror, EnsureFails, Bind, Report,
     ServerDies, ServerSaves, running
<1>3. CASE Failure
  BY <1>3 DEF Failure, KillScript, Reboot, Exit, End
<1>4. CASE PidReused
  BY <1>4 DEF PidReused, running
<1>5. CASE UNCHANGED vars
  BY <1>5 DEF vars, handoff, running
<1> QED BY <1>1, <1>2, <1>3, <1>4, <1>5 DEF Next

\* start_server() and stop_server() return, or their script ends, if the system
\* runs it and the clock runs.  HandoffGoesOn, that they can always go on, is
\* for TLC to say; that they go on at every point, and never in circles, with
\* any number of servers, pids, reruns and failures around them, is shown here.
THEOREM HandoffReturns == FairSpec /\ []HandoffGoesOn => HandoffEnds
<1>1. HandingOff <=> \/ pc = "launch" \/ pc = "send" \/ pc = "await" \/ pc = "giveup"
                     \/ pc = "pid" \/ pc = "stop" \/ pc = "wait"
  BY DEF HandingOff
<1>2. HandingOff /\ HandoffGoesOn => ENABLED <<HandoffStep>>_vars
  BY DEF HandoffGoesOn
<1>3. [Next]_vars =>
        /\ pc = "launch" => \/ (pc = "launch")' \/ (pc = "send")' \/ ~HandingOff'
        /\ pc = "send" => \/ (pc = "send")' \/ (pc = "await")' \/ ~HandingOff'
        /\ pc = "await" => \/ (pc = "await")' \/ (pc = "pid")' \/ (pc = "giveup")'
                          \/ ~HandingOff'
        /\ pc = "giveup" => \/ (pc = "giveup")' \/ ~HandingOff'
        /\ pc = "pid" => \/ (pc = "pid")' \/ ~HandingOff'
        /\ pc = "stop" => \/ (pc = "stop")' \/ (pc = "wait")' \/ ~HandingOff'
        /\ pc = "wait" => \/ (pc = "wait")' \/ ~HandingOff'
  BY HandoffUndisturbed, HandoffLeads DEF HandingOff, Ahead
<1>4. <<HandoffStep>>_vars =>
        /\ pc = "launch" => \/ (pc = "send")' \/ ~HandingOff'
        /\ pc = "send" => \/ (pc = "await")' \/ ~HandingOff'
        /\ pc = "await" => \/ (pc = "pid")' \/ (pc = "giveup")' \/ ~HandingOff'
        /\ pc = "giveup" \/ pc = "pid" \/ pc = "wait" => ~HandingOff'
        /\ pc = "stop" => \/ (pc = "wait")' \/ ~HandingOff'
  BY HandoffLeads DEF HandingOff, Ahead
<1> QED BY <1>1, <1>2, <1>3, <1>4, PTL DEF FairSpec, Spec, HandoffEnds

=============================================================================
