----------------------------- MODULE KeyHandoff -----------------------------
(***************************************************************************)
(* The processes of one host: initiator.start_server() hands KEY1 to a       *)
(* server.py over a socketpair (key_handoff.py) and waits 10 seconds for it  *)
(* to report that it started; stop_server() finds it again by its pidfile.   *)
(* Any of them may be killed between two steps, the host may reboot, and a   *)
(* pid may get reused.  setup_secretweb.py and initiator.py, which call      *)
(* start_server() and stop_server(), are in Setup; one runs at a time.       *)
(***************************************************************************)
EXTENDS Naturals, Sequences, FiniteSets

CONSTANTS
    Pid,       \* process ids
    MaxKeys,   \* bound: KEY1s generated, one per run of the script
    MaxKills,  \* bound: processes killed, disks full, reboots
    None

ASSUME HandoffAssumption ==
    /\ MaxKeys \in Nat \ {0} /\ MaxKills \in Nat
    /\ None \notin Nat /\ None \notin Pid
    /\ None \notin [key : 1 .. MaxKeys, by : {"setup", "server"}]

VARIABLES
    file,     \* the data files: the KEY1 each belongs to, and who made it
    proc,     \* what each pid is
    pidfile,  \* the pid in server.pid
    script,   \* setup or initiator, whichever runs or ran last
    pc,       \* where it is
    key,      \* the KEY1 it has in memory
    child,    \* the server it started
    said,     \* the startup status in the socketpair
    kills,    \* processes killed so far
    late,     \* history: a report came too late to be heard, or a pid was lost
    stray,    \* history: a script left a server that no pidfile names
    shot      \* history: a process that is no server was told to terminate

running == <<script, pc, key, child, said>>
handoff == <<file, proc, pidfile, running, kills, late, stray, shot>>

Encrypted == {"hosts.dta", "sites.dta", "secrets.dta", "shares.dta"}
Plain == {"hosts.json", "sites.json"}
File == Encrypted \cup Plain

Key == 1 .. MaxKeys

\* "setup": what the operator entered.  "server": created by a starting
\* server, in case of the hosts with no host but itself.
Content == [key : Key, by : {"setup", "server"}]

\* What server.main() does next; a mirror is only made along with its file.
Stages == <<"receive", "hosts.dta", "hosts.json", "sites.dta", "sites.json",
            "secrets.dta", "shares.dta", "bind", "report", "serve">>
Stage == {Stages[i] : i \in DOMAIN Stages}
Next1(s) == Stages[1 + CHOOSE i \in DOMAIN Stages : Stages[i] = s]
AfterFile(f) == IF Next1(f) \in Plain THEN Next1(Next1(f)) ELSE Next1(f)

Nobody == [is |-> "free", at |-> "receive", key |-> None]
Process == [is : {"free", "server", "zombie", "other"}, at : Stage, key : Key \cup {None}]

Alive(p) == proc[p].is # "free"
Server(p) == proc[p].is = "server"
Serving(p) == Server(p) /\ proc[p].at = "serve"
PortTaken == \E p \in Pid : Server(p) /\ proc[p].at \in {"report", "serve"}

\* The starter has not closed its end.
Listening(p) == p = child /\ pc \in {"send", "await", "giveup"}

\* A child that has ended stays a zombie while its parent, which never waits
\* for it, is there.
Ended(p) == IF p = child THEN [Nobody EXCEPT !.is = "zombie"] ELSE Nobody

\* The script ends; what is left is nobody's child.
End ==
    /\ pc' = "idle" /\ key' = None /\ child' = None /\ said' = "nothing"
    /\ UNCHANGED script

Reaped == [p \in Pid |-> IF proc[p].is = "zombie" THEN Nobody ELSE proc[p]]
Leaves(named) == stray' = (stray \/ \E p \in Pid : Server(p) /\ p # named)

Exit ==
    /\ End
    /\ proc' = Reaped
    /\ Leaves(pidfile)

Goto(point) == pc' = point /\ UNCHANGED <<script, key, child, said, proc, stray>>

-----------------------------------------------------------------------------
(* start_server(), send_key1().                                             *)

\* Or there is no process to be had.
Launch ==
    /\ pc = "launch"
    /\ \/ \E p \in Pid :
            /\ proc[p].is = "free"
            /\ proc' = [proc EXCEPT ![p].is = "server"]
            /\ child' = p /\ pc' = "send"
            /\ UNCHANGED <<script, key, said, stray>>
       \/ Exit
    /\ UNCHANGED <<file, pidfile, kills, late, shot>>

\* A child that has ended is a broken pipe.
SendKey1 ==
    /\ pc = "send"
    /\ IF Server(child)
       THEN /\ proc' = [proc EXCEPT ![child].key = key]
            /\ pc' = "await"
            /\ UNCHANGED <<script, key, child, said, stray>>
       ELSE Exit
    /\ UNCHANGED <<file, pidfile, kills, late, shot>>

\* An error, or the end of the connection, is a ServerStartupError.
AwaitStatus ==
    /\ pc = "await"
    /\ \/ said = "ok" /\ Goto("pid")
       \/ said = "error" /\ Exit
       \/ said = "nothing" /\ ~Server(child) /\ Exit
    /\ UNCHANGED <<file, pidfile, kills, late, shot>>

\* Bug: there is no timeout.
BugTimeOut == FALSE /\ UNCHANGED handoff

\* 10 seconds are over; the socket is closed a little later.
TimeOut ==
    /\ pc = "await" /\ said = "nothing"
    /\ Goto("giveup")
    /\ UNCHANGED <<file, pidfile, kills, late, shot>>

GiveUp ==
    /\ pc = "giveup"
    /\ Exit
    /\ UNCHANGED <<file, pidfile, kills, late, shot>>

\* Setup goes on with the network, initiator is done.  Or the pidfile cannot be
\* written: "FAILED to start server", which runs.
WritePid ==
    /\ pc = "pid"
    /\ \/ /\ pidfile' = child
          /\ IF script = "setup"
             THEN pc' = "network" /\ UNCHANGED <<script, key, child, said, proc>>
             ELSE End /\ proc' = Reaped
          /\ Leaves(child)
          /\ UNCHANGED late
       \/ Exit /\ late' = TRUE /\ UNCHANGED pidfile
    /\ UNCHANGED <<file, kills, shot>>

-----------------------------------------------------------------------------
(* server.main(), receive_key1(), send_ready(), send_startup_error().       *)

ToStage(p, stage) == proc' = [proc EXCEPT ![p].at = stage]

\* The startup error is reported, if somebody is there, and the server ends.
Fails(p) ==
    /\ proc' = [proc EXCEPT ![p] = Ended(p)]
    /\ said' = IF Listening(p) THEN "error" ELSE said

\* The connection may end before KEY1 was sent.
ReceiveKey1(p) ==
    /\ Server(p) /\ proc[p].at = "receive"
    /\ \/ proc[p].key # None /\ ToStage(p, "hosts.dta")
       \/ proc[p].key = None /\ ~Listening(p) /\ proc' = [proc EXCEPT ![p] = Ended(p)]
    /\ UNCHANGED <<file, pidfile, running, kills, late, stray, shot>>

Create(p, f) == file' = [file EXCEPT ![f] = [key |-> proc[p].key, by |-> "server"]]

\* Bug: whether the file opens is left for later.
BugEnsureFile(p) ==
    /\ Server(p) /\ proc[p].at \in Encrypted
    /\ LET f == proc[p].at IN
       IF file[f] = None THEN Create(p, f) /\ ToStage(p, Next1(f))
       ELSE ToStage(p, AfterFile(f)) /\ UNCHANGED file
    /\ UNCHANGED <<pidfile, running, kills, late, stray, shot>>

\* ensure(), or the first half of ensure_mirrored(): a file of another KEY1
\* does not decrypt.
EnsureFile(p) ==
    /\ Server(p) /\ proc[p].at \in Encrypted
    /\ LET f == proc[p].at IN
       \/ /\ file[f] = None
          /\ Create(p, f) /\ ToStage(p, Next1(f)) /\ UNCHANGED said
       \/ /\ file[f] # None /\ file[f].key = proc[p].key
          /\ ToStage(p, AfterFile(f)) /\ UNCHANGED <<file, said>>
       \/ /\ file[f] # None /\ file[f].key # proc[p].key
          /\ Fails(p) /\ UNCHANGED file
    /\ UNCHANGED <<pidfile, script, pc, key, child, kills, late, stray, shot>>

EnsureMirror(p) ==
    /\ Server(p) /\ proc[p].at \in Plain
    /\ Create(p, proc[p].at) /\ ToStage(p, Next1(proc[p].at))
    /\ UNCHANGED <<pidfile, running, kills, late, stray, shot>>

\* The disk is full.
EnsureFails(p) ==
    /\ Server(p) /\ proc[p].at \in File /\ kills < MaxKills
    /\ kills' = kills + 1
    /\ Fails(p)
    /\ UNCHANGED <<file, pidfile, script, pc, key, child, late, stray, shot>>

\* The certificates may be unreadable, the port another program's.
Bind(p) ==
    /\ Server(p) /\ proc[p].at = "bind"
    /\ \/ ~PortTaken /\ ToStage(p, "report") /\ UNCHANGED said
       \/ Fails(p)
    /\ UNCHANGED <<file, pidfile, script, pc, key, child, kills, late, stray, shot>>

\* Bug: the server tells as soon as it has KEY1 and its files.
BugReport(p) ==
    /\ Server(p) /\ proc[p].at \in {"bind", "report"}
    /\ IF Listening(p) THEN said' = "ok" /\ ToStage(p, Next1(proc[p].at))
       ELSE proc' = [proc EXCEPT ![p] = Ended(p)] /\ UNCHANGED said
    /\ UNCHANGED <<file, pidfile, script, pc, key, child, kills, late, stray, shot>>

\* Bug: a server whose report cannot be sent goes on.
BugReportAnyway(p) ==
    /\ Server(p) /\ proc[p].at = "report"
    /\ ToStage(p, "serve")
    /\ IF Listening(p) THEN said' = "ok" /\ late' = (late \/ pc = "giveup")
                       ELSE UNCHANGED <<said, late>>
    /\ UNCHANGED <<file, pidfile, script, pc, key, child, kills, stray, shot>>

\* When the starter has closed the socket, this is a broken pipe; when it is
\* about to, nobody reads the report.
Report(p) ==
    /\ Server(p) /\ proc[p].at = "report"
    /\ IF Listening(p)
       THEN said' = "ok" /\ ToStage(p, "serve") /\ late' = (late \/ pc = "giveup")
       ELSE proc' = [proc EXCEPT ![p] = Ended(p)] /\ UNCHANGED <<said, late>>
    /\ UNCHANGED <<file, pidfile, script, pc, key, child, kills, stray, shot>>

\* A POST makes the server write the whole file, under its own KEY1.
ServerSaves(p, f) ==
    /\ Serving(p) /\ f \in {"secrets.dta", "shares.dta"}
    /\ Create(p, f)
    /\ UNCHANGED <<proc, pidfile, running, kills, late, stray, shot>>

-----------------------------------------------------------------------------
(* stop_server(), called by setup before and after it has a KEY1, and by    *)
(* initiator --stop.                                                        *)

\* Bug: the pidfile is not removed.
BugStopped == pidfile' = pidfile

\* The pidfile is removed.
Stopped == pidfile' = None

\* Back to the caller.
AfterStop(processes) ==
    IF script = "setup" /\ key = None
    THEN /\ pc' = "archive" /\ proc' = processes
         /\ UNCHANGED <<script, key, child, said, stray>>
    ELSE /\ End
         /\ proc' = [p \in Pid |-> IF processes[p].is = "zombie" THEN Nobody ELSE processes[p]]
         /\ Leaves(pidfile)

\* SIGTERM, to whatever process the pidfile names; one that belongs to another
\* user may not be signalled, and the script ends.
Terminate ==
    /\ pc = "stop"
    /\ \/ /\ pidfile # None /\ Alive(pidfile)
          /\ proc' = IF Server(pidfile) THEN [proc EXCEPT ![pidfile] = Ended(pidfile)]
                     ELSE proc
          /\ shot' = (shot \/ proc[pidfile].is = "other")
          /\ pc' = "wait"
          /\ UNCHANGED <<script, key, child, said, stray, pidfile>>
       \/ /\ pidfile # None /\ proc[pidfile].is = "other"
          /\ Exit /\ UNCHANGED <<pidfile, shot>>
       \/ /\ ~(pidfile # None /\ Alive(pidfile))
          /\ AfterStop(proc) /\ Stopped /\ UNCHANGED shot
    /\ UNCHANGED <<file, kills, late>>

\* It is gone, or 5 seconds are over and it is killed.
AwaitEnd ==
    /\ pc = "wait"
    /\ AfterStop(IF proc[pidfile].is = "other" THEN [proc EXCEPT ![pidfile] = Nobody]
                 ELSE proc)
    /\ Stopped
    /\ UNCHANGED <<file, kills, late, shot>>

-----------------------------------------------------------------------------
(* Failures, and the rest of the host.                                      *)

\* Ctrl+C, or systemctl stop while the unit is starting.
KillScript ==
    /\ pc # "idle" /\ kills < MaxKills
    /\ kills' = kills + 1
    /\ Exit
    /\ UNCHANGED <<file, pidfile, late, shot>>

ServerDies(p) ==
    /\ Server(p) /\ kills < MaxKills
    /\ kills' = kills + 1
    /\ proc' = [proc EXCEPT ![p] = Ended(p)]
    /\ UNCHANGED <<file, pidfile, running, late, stray, shot>>

Reboot ==
    /\ kills < MaxKills
    /\ kills' = kills + 1
    /\ End
    /\ proc' = [p \in Pid |-> Nobody]
    /\ UNCHANGED <<file, pidfile, late, stray, shot>>

\* The pid in the pidfile is given to another program, which ends some time.
PidReused ==
    /\ \E p \in Pid :
        \/ p = pidfile /\ ~Alive(p) /\ proc' = [proc EXCEPT ![p].is = "other"]
        \/ proc[p].is = "other" /\ proc' = [proc EXCEPT ![p].is = "free"]
    /\ UNCHANGED <<file, pidfile, running, kills, late, stray, shot>>

-----------------------------------------------------------------------------
StartStep == Launch \/ SendKey1 \/ AwaitStatus \/ TimeOut \/ GiveUp \/ WritePid
StopStep == Terminate \/ AwaitEnd

ServerStep ==
    \E p \in Pid :
        \/ ReceiveKey1(p) \/ EnsureFile(p) \/ EnsureMirror(p) \/ EnsureFails(p)
        \/ Bind(p) \/ Report(p) \/ ServerDies(p)
        \/ \E f \in File : ServerSaves(p, f)

=============================================================================
