# secretweb in TLA+

A verification project for secretweb, the peer-distributed auto-unseal system of
this repository: hosts keep Shamir shares of one another's secrets, and of the
KEY1 each of them needs to open its own files. The modules here model its
servers, its client commands, the bootstrap of a network, the boot of a
host, the processes and data files of one host, the
secret sharing and the writing of files themselves. TLC checks them on small instances
(`PROJECT.json` lists the runs), TLAPS proves the theorems in the `...Proofs`
modules for every instance.

```
tlc -config MCStoreConcurrent.cfg MCSecretStore.tla
tlapm SecretStoreProofs.tla
```

## 1. The system

### Components

| component | state it keeps | operations | in the models |
|---|---|---|---|
| `server.py` | in memory and in two encrypted files: the shares other hosts handed it (`shares.dta`), the metadata of this host's own secrets (`secrets.dta`); also `hosts.dta` and `sites.dta`, written only when missing | POST/GET `/shares/<uuid>`, POST/GET `/secrets/<name>`; start (open or create all four files, then bind); death | `Server`, `ServerAcks`; the start over all files in `KeyHandoff` |
| `shamir.py` | a decoder: the shares it accepted | split, accept or refuse a share, decode | `Shamir` (packing, field, polynomials); `ShareDecoder` (what the network relies on) |
| `peer_client.py` | none | the HTTPS calls, each with a timeout; which answers count as success | `Peers`, and the request life cycle in `SecretStore` |
| `hosts_data.py` | none (reads `hosts.json`) | own name, trusted peers | `Peers` |
| `secretweb_client.py` | one command's variables | `store-secret`, `get-secret`, `get-key1` | `SecretStore`, `Key1Client` |
| `setup_secretweb.py` | `config.ini`, the data files | archive, enter hosts, generate KEY1, start a server, wait for all hosts, publish KEY1, hand over to systemd | `Key1Boot` (network), `Setup` (one host) |
| `initiator.py` | `server.pid` | reconstruct KEY1 from peers, start the server, `--stop` | `Key1Boot` (network), `KeyHandoff` and `Setup` (one host) |
| `key_handoff.py` | none | KEY1 to the server, startup status back | `KeyHandoff` |
| `cryptofile.py` | files | encrypted write by replace, mirrors, ensure | `CryptoFile`, over `AtomicFiles` |
| `ansible/restart.yml` | none | rolling restart, one host at a time | `Key1Boot` |
| `ansible/` provisioning, `timeutils.py` | - | - | not modelled |

### Interaction

Hosts talk over mutual TLS only, one request per connection. A server handles
one connection at a time (bottle's `WSGIRefServer`), so handlers never
interleave *within* a server; everything else interleaves: commands on one host
and on several, hosts booting, setup scripts that run "mirrored" on all hosts,
an operator who confirms hand-offs, a rolling restart, and crashes. A command or
script that stops waiting for an answer leaves the request to be handled later
all the same. Processes on one host share the data directory: setup, initiator
and server write and open the same files without a lock.

### What is hard

* **A save may fail after memory changed.** `store_share` and
  `store_secret_metadata` change the dict first and persist then; an `OSError`
  makes the answer 500, the dict stays changed.
* **An answer may be lost.** The handler ran, the client does not know. It
  counts confirmations and decides on the count.
* **Crashes** of a server between any two requests, of a host, and of a script
  between any two changes of a file.
* **Circular dependence at boot.** A host that boots waits without limit for
  peers, who may be booting and waiting for it.
* **Identity in two spellings.** Shares carry the name the operator typed,
  requests the certificate's CN.
* **Files of different keys.** Each run of setup makes a new KEY1; files that
  belong to different KEY1s may end up side by side.
* **A child that is slower than its parent waits.** The script that started a
  server gives up after ten seconds, the server goes on; a pidfile names a pid,
  which the system may give to somebody else.
* **Files that reach the disk when they like.** `atomic_write_bytes` syncs the
  file and not the directory; a document and its mirror are two files.

### What makes each component correct

* *server*: what it has answered stays true. A share answered 201 is in the file
  for good; nobody but its owner gets it; it never changes; a record answered
  201 is never followed by an older one.
* *store-secret / get-secret*: what a host has on record can be put together
  from the disks of its peers; what is decoded is the version and secret asked
  for; any treshold of holders is enough; commands end.
* *bootstrap*: `config.ini` names a KEY1 split only when every peer has its
  share on disk; no script fails without a fault; the hand-off and the rolling
  restart never leave the network without a quorum, and they finish.
* *boot*, *get-key1*: the key that comes back is the host's own; a boot goes
  through once a quorum stays up, and `get-key1` fails for want of shares only
  if too few peers answer when they are asked.
* *files of a host*: no encrypted file is lost, a server runs only over files of
  its own key, and the host list is never replaced without a copy.
* *processes of a host*: whoever goes on after `start_server()` has a server on
  the port; `stop_server()` finds every server that serves, however late it got
  ready; nothing but a server is told to terminate; neither waits for ever.
* *cryptofile*: a reader finds a whole version, whatever was interrupted; a
  mirror is never ahead of its document, and says the same after a save.
* *shamir*: any treshold of shares gives the secret back, fewer say nothing
  about it, and damage shows.

## 2. The modules

```
ShareDecoder <- Server <- ServerAcks <- ServerAcksProofs
                  ^  \--- ServerProofs <-/       (step lemmas)
                  |
                Peers <- SecretStore <- SecretStoreRefines <- SecretStoreProofs
                  ^                        \--INSTANCE--> SecretRegister
                Key1Boot <- Key1Client <- Key1BootProofs
KeyHandoff <- Setup <- SetupProofs
CryptoFile <- CryptoFileProofs          CryptoFile --INSTANCE--> AtomicFiles
Shamir <- ShamirProofs
InductionProofs: extended by ShamirProofs; ServerProofs: also by SecretStoreProofs
and Key1BootProofs
MCServerAcks, MCSecretStore, MCKey1Boot <- MCKey1Client, MCSetup, MCCryptoFile, MCShamir: instances for TLC
```

Between the groups the abstraction goes by what one shows and the other assumes:
`Shamir` shows that damaged shares are noticed and that genuine ones fit (they
have different coordinates, or the run would deadlock), which `ShareDecoder`
takes for granted; `CryptoFile` shows that a save is one step or
none, which `Server` and `Setup` take for granted.

An operator named `Bug...` is a plausible mistake in the definition that follows
it. No specification uses these; each property is checked to fail when one
replaces the definition it stands before (`PROJECT.json`, "mutants").

### ShareDecoder

The data: a share is a record of its uuid, owner, name, numbers, x-coordinate,
and whether its y values are as they were drawn. `PopulateDecoder` has the
checks of `populate_decoder` in two groups, those on the share alone
(`WellFormed`) and those against what was accepted (`Consistent`).
`secret_hash` and `creation_date` are drawn with the uuid, so "same uuid" stands
for them; a test on them could only differ for a forged share. `decode` is
abstracted to "every accepted share is intact", as interpolation of a damaged
column gives another hash.

### Server

`up`, `shares`/`sharesDta`, `secrets`/`secretsDta`: one server per host, memory
and file apart. `StoreShare` and `StoreSecretMetadata` have one disjunct per
response (the code's order of checks is kept: body, owner, existing). The
persisting half is `PersistShares`: the whole dict is written and the answer is
201, or nothing is and it is 500. `CrashServer` forgets memory, `StartServer`
loads the files. The module is open: it says what requests do, not who sends
them. Names are sequences of DNS labels, so that `HostnameFromCommonName` drops
the domain as the code does.

### ServerAcks

Closes `Server` with clients that post anything in `Submitted` under any
certificate, any number of times, and two history variables: the answers given
(`posted`), and the records posted since the last acknowledged one (`since`).
The properties relate the answers to what is served and stored later.

### SecretStore

`store-secret` and `get-secret` as processes (`Client`, each on `HostOf[c]`). A
POST is three steps: sent (`conn[h]` is the request that server works on, and
while it does nobody else's is accepted), handled (`HandleShare`,
`HandleRecord`), and its answer read, in the same step, if the client still
waits; the client may give up at any moment before. The server dying takes the
request with it. A GET changes nothing and is one step. `split` remembers what
each uuid was drawn for, `acked` which commands printed OK; both are history.
The code asks peers in a fixed (store) or shuffled (get) order; here any order.

### SecretRegister and SecretStoreRefines

What `store-secret` promises without shares or requests: a host's secret has a
current version in memory and one that survives a restart; a version is
committed only once it is recoverable; whoever is told so, its version is
durable. The mapping reads `recoverable` off the files of all hosts and
`current`/`durable` off the records.

### Key1Boot

All hosts run setup, boot and restart. `setup[h]` is where the script is:
`poll` (waiting for the others), `publish`, `gate` (waiting for the operator),
`over`. `service[h]` is the systemd unit; `activating` is initiator collecting
shares. `Waiting` says which scripts an operator counts as "safely waiting":
{"gate"} is the reading of the printed instruction with which the bootstrap
works, {"poll", "gate"} the one with which it does not (see section 5).
`Faults` switches failed saves and lost answers. The order of peers in
publishing is left open. `NetworkUp` is a network after its bootstrap, the
initial state of the runs about operation.

`CutAnswer` is a peer that dies while it sends its share: the boot that asked
fails, as `IncompleteRead` is caught by nobody. `StartFails` is `start_server()`
failing for any other reason than a taken port or shares that do not combine
(these are in `FinishBoot`). In all of these the unit has failed (`UnitFails`),
and if `restart.yml` was restarting it, so has the batch of one host, which ends
the play; so does a host that is down when its turn comes (`Unreachable`). An
ended play is one with nothing left to restart (`restarted = Host`). The
operator starts a failed unit again by hand (`StartService`).

### Key1Client

`get-key1` as a process on `ClientHost`, next to everything `Key1Boot` does. One
step is one request: the peer answers, with its share or an error
(`PeerAnswers`), or does not, because it is down or busy for longer than ten
seconds (`PeerSilent`, which is possible at any moment: nothing is assumed of a
peer that is up). Hosts crash, boot and restart between two requests. A peer that
dies while it sends its share ends the command (`AnswerCut`: `IncompleteRead` is
not caught here either), as does the end of its own machine. `silent` is history.
The order of peers is random in the code and open here.

### KeyHandoff

The processes of one host. `proc` says what each pid is, a free one, a server
and where it is in `server.main`, a zombie of a script that is still there, or
another program. The script that runs is at `pc`; a step is a system call that
others can tell: the fork, KEY1 into the socketpair, the status read or not, the
pidfile; on the server's side each file it opens or creates, the bind, the
report. The end of ten seconds is a step that may come at any time while no
status is there (`TimeOut`), and closing the socket another one (`GiveUp`), so
that a report in between meets a socket nobody reads. A write to a closed socket
is a broken pipe: of a server that reports to nobody, it is the end. `late`,
`stray` and `shot` are history: a report came in between (or a pid was lost), a
script left a server that the pidfile does not name, a process that is no server
was signalled. A pid of another user may not be signalled, which ends the script
and leaves the pidfile (`Terminate`).

### Setup

`KeyHandoff` with the scripts that call it: one host's files and `config.ini`,
with the KEY1 each file belongs to. Steps are as small as the code's changes of
files: each rename, each save, the truncation and the writing of `config.ini`.
`existing` is the list of files the script made before it asked the operator:
what appears later is not renamed. Any process can be killed between any two
steps, and boots, stops and reruns interleave with servers that are still
starting. The other hosts are one step that succeeds or not (`PublishKey1`).
`HandoffStep` is what a script does inside `start_server()` or `stop_server()`.

### CryptoFile and AtomicFiles

`now` is what processes find under a name, `durable` what they would find after
a power loss; a name is written back in its own time (`Settle`), with data that
was synced or perhaps not. `Save` and `Ensure` begin a call of
`atomic_write_bytes`, whose steps follow, then those of the mirror's.
`AtomicFiles` is the promise: a call replaces the whole file in one step or
changes nothing, and a power loss goes back to a whole state. The temporary file
is no part of it.

### Shamir

`shamir.py` over a field that can be enumerated: `PRIME`, the base of a byte and
the bytes per integer are constants, everything else is the code's arithmetic.
`GenerateShares` is one integer of `create_secret`'s loop with any coefficients
and any x-coordinates; `PopulateDecoder` lets the shares arrive in any order.

## 3. The runs

| run | instance | what it shows |
|---|---|---|
| `server_acks` | one server, two certificates (one fully qualified), five share bodies (a conflict, a foreign owner, a malformed one), three record bodies | what has been answered stays true, through failed saves, crashes and retries; the inductive invariant of the proofs |
| `store_concurrent` | two clients of one host, two peers, two versions, one crash | what is on record is recoverable, decodes to itself and never goes back; the inductive invariant of the proofs; the refinement of `SecretRegister` |
| `store_peers` | one client, three trusted peers and a distrusted one, treshold 2 or 3, one crash | any treshold of peers that answer is enough; commands can always go on, only go forward, and end |
| `key1_bootstrap` | four hosts, no faults, the operator going through the hosts one by one, the rolling restart starting any time | nobody's setup fails, at most one host in the gap, no mutual waiting, never stuck, all get there |
| `key1_faults` | three hosts, two crashes or aborted scripts, failed saves, lost and cut answers, the careless operator | `config.ini` names only KEY1s whose shares are saved; no boot asks in vain a peer that is up; the right key comes back |
| `key1_operation` | four hosts from `NetworkUp`, one distrusted, two crashes | the unit of a host whose quorum stays up becomes active and stays so (which says nothing of a detached server that dies later); `get-key1`, run in the middle of it, prints only the host's own KEY1, and fails for want of shares only if too few peers answered |
| `setup` | two runs of setup, two pids, one failure | files are kept, opened by their key only; `config.ini` names complete splits; servers are reported as they should be, and found when they serve |
| `shamir` | PRIME 5, two bits to an integer, strings of 0 to 2 bytes, 2 of 2, 2 of 3 and 3 of 3 | the four promises of secret sharing, over every draw |
| `cryptofile` | two processes, a mirrored and a plain document, three saves, one power loss | the refinement of `AtomicFiles`; mirrors |
| `confirmed_share`, `qualified_names`, `setup_rerun` | as above | the three findings of section 5 |

**Bounds.** *Hosts*: four is the least setup accepts (three servers, one
controller), and the least at which a treshold (2 of 3) tolerates a missing
peer. `key1_faults` has three, which the script would not accept: its
invariants relate one host with one other, and three leave a bystander; with
four the crashes make it too large for routine checking. The store runs have two or three peers: two
are the least a treshold of 2 can have, three the least at which one can be
missing. *Versions*: two, one that replaces the other; with the reuse of clients
for one command after another that is enough for every ordering of two stores
and a fetch, and `NoStaleRecord` needs two. *Crashes* (`MaxCrashes`): one in the
store runs, enough for a loss of memory before, between or after the two stores;
two in `key1_operation`, enough to take a quorum of 2 out of 2 trusted peers
down and to hit a host again while it boots; in the behaviours in which
`get-key1` has been run, one (`CrashesWithCommand`), between any two of its
requests: with two the run does not fit its time, and the theorems about the
command have no bound. *Setup* (`MaxKeys`, `MaxKills`,
`Pid`): two KEY1s are the least for files of different keys to meet; two pids
let a server that was left behind meet the next one, or a program that got the
pid of a dead one; one failure, anywhere, since with two the run does not fit
its time; what two failures could do together is covered by the proofs (section
4) for the properties that are proved. *CryptoFile* (`MaxSaves`, `MaxLosses`):
three saves let two processes meet on a document that a third version follows.
*Shamir*: 5 is the least prime for which three participants have distinct
coordinates and one is left; two bits to an integer leave values of the field
that fit no integer, as 2^64 to 2^127 - 2 do. The proofs (section 4) are about
the code's own numbers, too. There is no bound on retries,
requests or restarts elsewhere.
*Deadlock*: not checked in `Key1Boot`, `Setup` and `CryptoFile`, where a network with
all hosts restarted, or with the bounds used up, has nothing more to do;
elsewhere it is. That a bootstrap is never stuck before is `BootstrapGoesOn`, that
the host's scripts never wait for each other is `HandoffGoesOn`.

**Symmetry** is used in safety runs only: peers, uuids and clients of one host in the
store runs, hosts in `key1_faults` and `qualified_names`, where the uuid and
name of a host are the host itself or built from it, pids in `setup`, processes
in `cryptofile`.

**Fairness.** `SecretStore.FairSpec` is weak fairness of a client's steps as a
whole: every call of `peer_client` has a socket timeout, so a client that waits
can always go on. Servers are not fair: they may never answer, or answer and
then be silent. In `Key1Boot`
the setup scripts, with the operator's confirmation once it may be given, and
the operator's `systemctl start`, also of a unit that failed, go on (weak
fairness per host); `AskPeer` is weakly fair per peer, since a round of `_collect_key1` asks
every peer that has not contributed, and there is a next round ten seconds
later; a peer that is up only now and then is not promised to be met.
`NextUnit` is fair, as the playbook goes on when the unit is up. Nothing is
assumed of crashes, of `RestartUnit`, or of `get-key1`.
`QuorumRecovers` ends with the unit being active: systemd does not notice when
the detached server dies later, so that is as much as the code gives. `Setup.FairSpec` is weak fairness of
`HandoffStep`: the system runs a script that can run, and the clock its two
timeouts (`TimeOut`, and the end of the wait in `AwaitEnd`). Servers, which the
script waits for, are not fair, nor is the operator. `HandoffGoesOn` says that
the step can always be taken, whoever else stands still.

## 4. The proofs

The type invariants are parts of the inductive ones: `AcksTyped`, `StoreInv`,
`Key1Typed`, `SetupTyped`, `FilesTyped`.

**`ServerProofs`** has lemmas on single requests: a save that returns leaves
file and memory equal, an answer leaves other entries alone, a 201 means the share
is in the file, and so on. They do not depend on who calls and serve the modules below.

**`ServerAcksProofs`** proves `AcksInvariant`, the inductive invariant of types,
`DiskInMemory` and the answers; `StoredShareDurable`, `ServedToStorer` and
`RecordNeverReverts` follow, and from the same invariant the action property
`HeldSharesImmutable`. `DiskInMemory` is what makes them inductive: a save writes
the *whole* dict, so that a share already in the file survives the next save only
because memory still has it, unchanged.

**`SecretStoreProofs`** has four parts. The first proves `Spec => []StoreInv`, and from it
`RecordedIsRecoverable`, for any finite set of hosts, any number of concurrent
clients, versions and crashes. `RecordedRecoverable` speaks of records only; the
strengthening follows a confirmation from the handler to the record:

1. `ConnectionsSound`: a request whose client still waits is the one that client
   sent, so an answer is never counted for another version.
2. `UnsentUnseen`: no server has seen a share before it is sent, and each is
   sent once. Without it, a confirmation could be a 200 for a share whose save
   failed earlier (which is what finding 1 is about); with it, it is a 201,
   and that means the file has it.
3. `VersionsOwned`: no two commands work on one uuid.
4. `SavedHeld`: what a client has counted is in files, and it records only with
   enough of it; `RecordsInFlightRecoverable`: the same for a record on its way,
   whose client may be gone.
5. `DiskInMemory`: files only grow, so holders stay holders.

The second part proves that `SecretStore` implements `SecretRegister`
(`RegisterImplemented`), under the mapping of `SecretStoreRefines`. Most steps
publish, perhaps nothing: shares on disk stay, so what was recoverable remains
so. A handled record commits its version in memory, or in memory and file;
that it is recoverable by then is `RecordsInFlightRecoverable` of `StoreInv`. A
crash and a start are the register's own.

The third part proves what `StoreInv` says nothing about, which version is
stored and fetched: `NoStaleRecord`, `DecodesOwnVersion` and
`GetToleratesMissingPeers`. Its invariant, `VersionInv`:

1. `SharesAsSplit`, `RequestsOwn`, `RecordsOwn`: whatever is held, on its way or
   on record is what that host split; `CollectedOwn`: so is what a decoder has
   accepted, and never more than a treshold of it. A decoder that is ready
   therefore holds the version asked for.
2. `PublishedFirst`, `AskedAnswered`: once a version can be fetched nobody
   publishes it any more, so a peer that answered "not found" is no holder, then
   or later. Whoever is asked in vain was missing, and that is counted.
3. `OverSettled`, `AckedLast`: a command whose version was over when a later one
   was split stores nothing afterwards; the one request of it that may still be
   on its way is at the server, which takes one at a time, so it is handled
   before the record that is acknowledged.

The fourth part is about how commands get to their end. `ToGo(c)` counts what a
command has before it: two steps for each host it has yet to post to, one for
each it has yet to ask, one for an answer it waits for, and those to the end. `CommandsGoForward` shows that no
step of anybody makes it grow, or changes what the command has collected without
making it smaller, for any number of hosts, commands and crashes. That an
answer is read once is `StoreInv`'s; what it needs besides is `LiveSharesSound`:
a share whose client still waits belongs to a command that is publishing.
`CommandsProgress` adds the fairness of one command's process: from any point it
gets to its end or nearer to it, though no server need answer. `CommandsEnd` is
induction over the naturals from there.

**`Key1BootProofs`** proves `MetadataMeansPublished` and `BootsWithOwnKey` from
one invariant, for any finite set of hosts with any faults and crashes:

1. `PublishedSound`: what a script has counted is in files, what it has not
   posted is unseen (so that, again, a confirmation is a 201), and nothing but
   that one share is ever found under a host's KEY1 uuid.
2. `CollectedSound`: a decoder holds shares of the host's own split only, and at
   most a treshold of them, since it stops accepting when it is ready.

Crashes, starts and boots are "quiet": servers forget or reload, files stay, no
script moves but to its end.

Another part is about a network in which nothing fails (`CalmNetwork`: no
crashes, no failed saves or lost answers, hosts named as their peers spell them,
and only scripts at the prompt counted as waiting), of any number of hosts:

3. `LockStep`: no script publishes before all hosts were seen, and none is handed
   over before all have published; so every post meets a running server that has
   not seen the share, and is confirmed (`SetupSucceeds`).
4. `RunningSound`: a host is down only if it has not started yet, or is between
   its two servers, or its service is being restarted. With `AtMostOneInGap`
   itself, which is inductive with these two, at most two hosts are down once
   hand-offs begin; a host that waits for shares is one of them, so it misses one
   peer, and a majority of three or more peers does not need that one
   (`NobodyWaitsForTheWaiting`, which assumes four hosts that trust each other).

For what a boot finds, `NoPeerAskedInVain`, one invariant more:

5. `AcceptedValid`: what a server holds under a host's KEY1 uuid passed its
   checks, so it gives it back to that host's certificate. Once `config.ini`
   names the split, "the peer is up" and "the peer has an answer" are therefore
   the same, for every peer.

A peer that is up has the share (`MetadataMeansPublished`, `DiskInMemory`), hands it out
(`AcceptedValid`), and the decoder takes it, since what it holds is of the same
split and from other peers (`CollectedSound`). So with a quorum up, a decoder that
is not ready has somebody to ask: it holds fewer shares than there are peers
running (`QuorumHasShare`).

`BootstrapNeverStuck` puts the parts together, for a network in which nothing
fails. Whoever polls or publishes meets a running server, or one that has not
been started, by `LockStep`. Otherwise all are at the prompt or over; those over
have their service or may go on with a boot (`NobodyWaitsForTheWaiting`,
`QuorumHasShare`); and when they all have it, every host at the prompt may be
confirmed. It is the safety half of `HandoffCompletes`, for any number of hosts.

The last part is about `get-key1`, for any number of peers, orders of asking and
crashes. The command changes nothing, but at `AnswerCut`, which is a
`CrashProcess` (`ClientChangesNothing`), so all the above holds beside it. What it
needs besides is an invariant over its pass, `ClientInv`:

6. every accepted share is the host's own and from a different peer, and a
   treshold of them at most; whoever of the trusted peers was asked and not
   silent has contributed, since it was up then and so had an answer (5.), which
   the decoder took. So a pass that got through all peers without a treshold has
   missed that many answers (`GetKey1Tolerates`), and a decoder that is ready has
   the KEY1 (`GetKey1IsOwn`).

`OperationKeepsKey1` proves both from `NetworkUp`, the initial state of run
`key1_operation`, with the invariants of publishing and boot, for three or more hosts that are named as in their
certificates (`SetUpNetwork`): nobody published there within the behaviour, so
that the shares were acceptable is an assumption.

**`CryptoFileProofs`** proves that `CryptoFile` implements `AtomicFiles`
(`FilesRefine`), with any number of processes, documents, saves and power losses,
and the invariant about mirrors:

1. `FileInv`: no name, in memory or on the disk, ever refers to data that is not
   whole and synced. It is what the order of `atomic_write_bytes` (write, flush,
   fsync, replace) is for, and each call's state carries its own part of it.
2. `SaveInv`: where documents are saved one at a time, versions are drawn in
   order, and nothing under a name is younger than the last draw.
3. `MirrorInv`: at each stage of a save, how far its document and its mirror
   have got; between saves, unless one was broken off, they say the same.

**`SetupProofs`** proves every safety property of run `setup`, but for
`HandoffGoesOn`, for any number of pids, runs of the script and failures. The
run has one failure; the invariant shows what two or more can do together. Its
parts:

1. `ScriptInv`, `ProcInv`: which point of the script goes with which child,
   status, KEY1 and pidfile; whoever is past the start of its server has heard
   "ok" from it, and a pidfile that a script relies on names its child.
2. `PortInv`: one server has the port. With `ReadyInv`, while nothing was killed,
   the pidfile and the script's child are both that server, so writing the
   pidfile loses sight of none, and stopping signals nobody else
   (`ForeignUntouched`).
3. `FoundInv`: a server that serves is the one in the pidfile or the script's
   child, which has said "ok" (`ServersFound`); a child whose starter gives up
   has not, and is at its end when it does. Unless one was left behind, the only
   servers at all, starting ones included, are these two. `FilesInv`: then no server runs between the
   first rename and the last save, and each server finds what it has opened
   under its KEY1.
4. `KeptInv`, `ListInv`: what is still there of the old files is in the list of
   files to rename, and a save finds its name free. For `hosts.json` that needs
   one fact more, that there is no host list without `hosts.dta`: it is what
   keeps a starting server from writing another list, and what a kill between
   the two renames breaks.
5. `MetaInv`: `config.ini` and what a script has read from it name KEY1s that
   were published in full; what has yet to be renamed is still there.

`HandoffReturns` is about time: `HandoffEnds` for any number of pids, reruns and
failures. A step of `HandoffStep` leads on in `Ahead`, which has no circles, and
no step of others moves the script but to its end (`HandoffUndisturbed`). Its
hypothesis, that the step can be taken (`HandoffGoesOn`), is checked in run
`setup`. (`tlc -config MCHandoff.cfg MCSetup.tla` checks `HandoffEnds` itself for
two pids, one KEY1 and two failures.)

**`InductionProofs`** is what the next module uses for recursion. Induction over data is stated with sets: a
set of naturals that has 0 and the successor of each of its elements is `Nat`
(`NaturalsBySteps`, from the well-foundedness of <), a set of subsets that is
closed under one more element has all finite ones (`FiniteByElements`). A fold of
the community modules is a `CHOOSE` over recursive functions; the lemmas show
that there is one (`FoldExists`, `LeftFoldExists`, `IterationExists`) and that
in a fold whose steps commute any element may be the last (`FoldInAnyOrder`), so
that what `CHOOSE` picks does not matter.

**`ShamirProofs`** proves the properties of run `shamir` for every prime, base,
number of bytes to an integer, secret, treshold and number of shares that
`FieldAssumption` allows; PRIME = 2^127 - 1, 256 and 8 are among them. The
invariant, `ShamirInv`: each row of the matrix is points of a polynomial with
its integer as the constant, at different x-coordinates; each accepted share is
a column of the finished matrix; no two agree in a coordinate.

1. *The field.* The laws of arithmetic modulo PRIME, no zero divisors (from
   primality), and an inverse of every number but 0, as multiplication by it is
   one-to-one on a finite set.
2. *Interpolation* (`Interpolation`). At 0 it is linear in the y-values; of the
   powers x^k it gives 1 for k = 0 and 0 for 0 < k < number of points, by
   induction on k with one point fewer (`WeightedStep`); hence the constant of any
   polynomial of lower degree.
3. *Packing* (`PackingRoundTrip`): unpacking the integers of a string gives the
   string, whatever its length. With 2., `SecretComesBack`.
4. *Damage* (`DamageIsNoticed`). Each point has a weight other than 0, because 0 is
   nobody's x-coordinate; so one changed y-value changes its integer, and by
   `PackingShows` the unpacked string, or the integer fits no more.
5. *Silence* (`FewSharesAreSilent`). For n points there is a polynomial of degree
   n that is 1 at 0 and 0 at each of them (`VanishingExists`); adding multiples of
   it maps the explanations of one value one-to-one into those of another.

Assumptions: `NamesAssumption`, `DeploymentAssumption`, `NetworkAssumption`,
`HandoffAssumption`, `FileAssumption`, `FieldAssumption` and those that say that `None` and `BadX`
are outside the sets they are added to. TLC evaluates them in the runs.

**Only model-checked**: `HandoffGoesOn` and `CommandsGoOn`, that a step is
possible (the provers know nothing of ENABLED; the theorems that need them have
them as hypotheses), and the liveness properties `CommandsEnd`,
`QuorumRecovers` and `HandoffCompletes` (induction over time is out of reach). `CommandsEnd` is proved up to one induction
(`CommandsProgress`); what `QuorumRecovers` and `HandoffCompletes`
rest on, that whoever waits has somebody to ask and somebody
can go on, are theorems about safety. Every other property of a passing run is
stated by a theorem.

## 5. Findings

1. **A confirmed share that is not saved** (`confirmed_share`). A post whose save
   fails is answered 500 but stays in memory; a retry is answered 200
   "already-stored" without another save, and `peer_client.store_share` takes a
   200 for success. No caller in the repository retries a share today, which is why
   `RecordedRecoverable` holds all the same (`UnsentUnseen` above).
2. **Domain-qualified host names** (`qualified_names`). Setup accepts them and
   makes them the owner of the shares; peers compare the owner with the CN
   *without* its domain and refuse.
3. **A rerun never starts** (`setup_rerun`). `shares.dta` is not among the files
   setup archives; after a rerun it belongs to the old KEY1 and the server
   refuses to start.
`HostListRenamed` has an exception that is no finding, as no text of the
repository says otherwise, but worth knowing: a rerun killed between archiving
`hosts.dta` and `hosts.json`, then a boot with the old KEY1. The server finds no
`hosts.dta`, creates one that lists this host alone, and overwrites `hosts.json`.
So does one that was left behind and is still starting.

Besides: the instruction of the hand-off ("still safely waiting in its own setup
script (like this one)") only works when it means a script at the same prompt.
A script that still polls has seen this host already and will publish to it
later. With `Waiting = {"poll", "gate"}` in `MCQualifiedNames.cfg`, and
`MCOwnName` for the names, TLC shows the failure; the runs otherwise use the
careful reading, except `key1_faults`, whose invariants hold with either.

## 6. Not modelled, and the plan

Not modelled: provisioning by ansible (no run-time behaviour of the program),
timestamps (`timeutils`), output, the TLS layer (a certificate is its CN; a
handshake that never ends blocks its server and is a server that does not
answer), the two debug commands of `peer_client` (they wrap `store_share` and
`retrieve_share`), an operator who types one host twice (the second share is
refused with 409 and setup stops, as for any refused share).

What the models simplify, to be read with the results:

* One script at a time runs on a host (`Setup`); nothing in the code keeps two
  apart.
* In `KeyHandoff`, `ensure()`'s look at a file and its creation are one step.
  Something can come between them only if a server runs beside a script or
  another server, and the properties about files assume that none was left
  behind (`stray`); `CryptoFile` has the steps apart.
* The properties about files (`KnownServerOwnsFiles`, `EncryptedFilesKept`,
  `StartsWithOwnFilesOnly`, `HostListRenamed`) say nothing once a server was left
  behind. It may have been left by a kill between the report and the pidfile,
  or it may still be opening its files when its starter gives up. `ServersFound`
  says that the latter ends at its report; that it does nothing to the files
  before then is not so. `HostListRenamed` assumes that no script was killed
  either.
* Nothing is stated about two processes that create the same document at once:
  `ensure()` looks first and replaces later, so a version saved in between is
  lost for its default (`CryptoFile` allows that, as the code does).
* `AtMostOneInGap`, `NobodyWaitsForTheWaiting` and `BootstrapGoesOn` are about
  restarts and hand-offs without crashes: nothing in the code keeps a quorum up
  when machines go down. With crashes, `NoPeerAskedInVain` and `QuorumRecovers`
  say what a boot needs.
* `MirrorFollows` is about documents saved one after the other and not cut off
  in the middle; after a cut the mirror may stay behind until the next save.
* A client command that dies from a cut answer (`IncompleteRead`) is in
  `SecretStore` a server that dies and a command that is killed.
* SIGTERM ends a server at once. That `stop_server` kills a process that got the
  pid while it waited is not counted in `shot`.
* Messages over the socketpair are whole.
* Temporary files that an interrupted write leaves behind are nobody's: a later
  call uses its own.
* A power loss right after `atomic_write_bytes` has returned may take the
  rename back, since the directory is not synced. `Server` counts a saved file
  as saved: its crashes are those of the process.
* `ShareDecoder` takes any damaged share for undecodable. Damage to the padding
  of a last chunk would leave the secret right, and two damages might cancel;
  the hash keeps a *wrong* secret from getting out (`Shamir`).

The plan, done in this order: the servers and their stores; the commands and
their register; bootstrap and boot; setup over a host's files; the hand-off of
KEY1 and the processes of a host; the files themselves; secret sharing;
`get-key1`; proofs for each. What is left is what TLAPS cannot do ("Only
model-checked" in section 4), and the simplifications above.
