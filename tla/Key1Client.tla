----------------------------- MODULE Key1Client -----------------------------
(***************************************************************************)
(* secretweb_client.py's get-key1: the manual, "break-glass" way to a       *)
(* host's KEY1, while everything of Key1Boot goes on.  It asks one peer     *)
(* after the other, in random order and each once; hosts crash, boot and    *)
(* restart between its requests.  It changes nothing on any host.           *)
(***************************************************************************)
EXTENDS Key1Boot

CONSTANTS
    ClientHost,         \* the host it is run on
    CrashesWithCommand  \* bound: crashes in a behaviour in which it is run

ASSUME ClientAssumption == ClientHost \in Host /\ CrashesWithCommand \in Nat

VARIABLES
    command,    \* where the last get-key1 is, or how it ended
    toAsk,      \* the trusted peers it has not asked yet
    obtained,   \* the shares its decoder accepted
    silent      \* history: the peers that were down or did not answer in time

clientVars == <<command, toAsk, obtained, silent>>
allVars == <<vars, clientVars>>

ClientTypeOk ==
    /\ command \in {"none", "asking", "printed", "gave up", "broken"}
    /\ toAsk \subseteq Host
    /\ obtained \subseteq Payload
    /\ silent \subseteq Host

ClientInit ==
    /\ command = "none"
    /\ toAsk = {} /\ obtained = {} /\ silent = {}

-----------------------------------------------------------------------------
(* get_key1_cmd().                                                          *)

\* Without the KEY1 metadata in config.ini it ends at once.
RunGetKey1 ==
    /\ command # "asking"
    /\ metadata[ClientHost]
    /\ command' = "asking"
    /\ toAsk' = TrustedPeers(ClientHost)
    /\ obtained' = {} /\ silent' = {}
    /\ UNCHANGED vars

\* The loop over the peers ends when the decoder is ready.
Asks(p) == command = "asking" /\ p \in toAsk /\ ~ReadyToDecode(obtained)

ShareStatus(p) == GetShareStatus(p, Cert[ClientHost], KeyUuid[ClientHost])

\* A peer answers: with its share, which the decoder takes or refuses, or with
\* an error, which is passed over.
PeerAnswers(p) ==
    /\ Asks(p) /\ up[p]
    /\ toAsk' = toAsk \ {p}
    /\ obtained' =
         IF ShareStatus(p) = 200
         THEN PopulateDecoder(obtained, shares[p][KeyUuid[ClientHost]],
                              Key1, OwnName[ClientHost])
         ELSE obtained
    /\ UNCHANGED <<vars, command, silent>>

\* Bug: the first peer that does not answer ends the pass.
BugNextPeer(p) == {}

\* `continue`
NextPeer(p) == toAsk \ {p}

\* A peer that is down, or busy for longer than the request may take.
PeerSilent(p) ==
    /\ Asks(p)
    /\ toAsk' = NextPeer(p)
    /\ silent' = silent \cup {p}
    /\ UNCHANGED <<vars, command, obtained>>

\* The command dies, and its decoder with it.
Dies ==
    /\ command' = "broken"
    /\ toAsk' = {} /\ obtained' = {} /\ silent' = {}

\* A peer's server dies while it sends its share: IncompleteRead, which the
\* command does not catch.
AnswerCut(p) ==
    /\ Asks(p) /\ ShareStatus(p) = 200
    /\ CrashProcess(p)
    /\ Dies

Finish ==
    /\ command = "asking"
    /\ toAsk = {} \/ ReadyToDecode(obtained)
    /\ command' = IF ReadyToDecode(obtained) /\ Decodes(obtained)
                  THEN "printed" ELSE "gave up"
    /\ toAsk' = {}
    /\ UNCHANGED <<vars, obtained, silent>>

\* A machine goes down, with the command if it runs there.
MachineCrash(h) ==
    /\ Crash(h)
    /\ IF h = ClientHost /\ command = "asking" THEN Dies ELSE UNCHANGED clientVars

ClientStep ==
    \/ RunGetKey1
    \/ \E p \in Host : PeerAnswers(p) \/ PeerSilent(p) \/ AnswerCut(p)
    \/ Finish

NetworkStep(h) ==
    \/ MachineCrash(h)
    \/ /\ SetupStep(h) \/ BootStep(h) \/ PlayStep(h) \/ ProcessFailure(h)
       /\ UNCHANGED clientVars

ClientNext ==
    /\ ClientStep \/ \E h \in Host : NetworkStep(h)
    /\ command' # "none" => crashes' <= CrashesWithCommand

ClientSpec == Init /\ ClientInit /\ [][ClientNext]_allVars

\* The command in a network after its bootstrap.
OperationInit == NetworkUp /\ ClientInit

ClientOperation == OperationInit /\ [][ClientNext]_allVars /\ Fairness

-----------------------------------------------------------------------------
(* Properties.                                                              *)

\* Whatever get-key1 prints is the KEY1 of its own host, put together from as
\* many peers as the split's treshold, though they were asked at different
\* moments of a bootstrap, crashes and restarts (get_key1_cmd).
GetKey1PrintsOwn ==
    command = "printed" =>
        /\ Cardinality({d.x : d \in obtained}) = Treshold(ClientHost)
        /\ \A d \in obtained : d = Key1Share(ClientHost, d.x)

\* get-key1 fails for want of shares only if fewer trusted peers than the
\* treshold were up and answered in time when it was their turn: each that did
\* contributed, in whatever order they were asked, whoever was silent before,
\* whatever crashed, booted or restarted in between (get_key1_cmd).
GetKey1ToleratesMissing ==
    command = "gave up" =>
        Cardinality(TrustedPeers(ClientHost) \ silent) < Treshold(ClientHost)

=============================================================================
