--------------------------- MODULE SecretRegister ---------------------------
(***************************************************************************)
(* What store-secret and the servers promise together, without shares,      *)
(* requests or clients: every host keeps one version per secret name.  A    *)
(* version is committed only once it is recoverable, committed for good if  *)
(* its writer was told so, and a crash takes a host back to what it had     *)
(* committed for good.                                                      *)
(***************************************************************************)
CONSTANTS Host, Name, Version, Absent

VARIABLES
    recoverable,  \* versions with enough shares on disk to be put together
    current,      \* the version each running host names for each secret
    durable,      \* the version it would name after a restart
    told          \* versions whose writer was told they are stored

vars == <<recoverable, current, durable, told>>

Nothing == [n \in Name |-> Absent]

Init ==
    /\ recoverable = {}
    /\ current = [h \in Host |-> Nothing]
    /\ durable = [h \in Host |-> Nothing]
    /\ told = {}

\* Shares reach disks, of several versions at once if a save that succeeds
\* catches up on earlier ones that failed.  None is ever lost.
Publish ==
    /\ \E more \in SUBSET (Version \ recoverable) :
          recoverable' = recoverable \cup more
    /\ UNCHANGED <<current, durable, told>>

\* A host names version v from now on, and after a restart; with it, whatever
\* it named already.  The writer may be told.
Commit(h, n, v) ==
    /\ v \in recoverable
    /\ current' = [current EXCEPT ![h][n] = v]
    /\ durable' = [durable EXCEPT ![h] = current'[h]]
    /\ told' \in {told, told \cup {v}}
    /\ UNCHANGED recoverable

\* As before, but until a restart only, and nobody is told.
CommitUntilRestart(h, n, v) ==
    /\ v \in recoverable
    /\ current' = [current EXCEPT ![h][n] = v]
    /\ UNCHANGED <<recoverable, durable, told>>

Down(h) ==
    /\ current' = [current EXCEPT ![h] = Nothing]
    /\ UNCHANGED <<recoverable, durable, told>>

Restart(h) ==
    /\ current' = [current EXCEPT ![h] = durable[h]]
    /\ UNCHANGED <<recoverable, durable, told>>

Next ==
    \/ Publish
    \/ \E h \in Host :
        \/ \E n \in Name, v \in Version : Commit(h, n, v) \/ CommitUntilRestart(h, n, v)
        \/ Down(h) \/ Restart(h)

Spec == Init /\ [][Next]_vars

=============================================================================
