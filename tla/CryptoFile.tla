----------------------------- MODULE CryptoFile -----------------------------
(***************************************************************************)
(* cryptofile.py on a file system that writes names and contents to the     *)
(* disk when it likes: save(), ensure() and their mirrored forms, step by   *)
(* step, by processes that know nothing of each other, may fail or be       *)
(* interrupted between any two steps, and may lose their power.             *)
(* The other modules take a save to be one step; this is why they may.      *)
(* Encryption is left out: load() opens whatever is whole.                  *)
(***************************************************************************)
EXTENDS Naturals

CONSTANTS
    Proc,       \* processes: servers, setup_secretweb.py
    Doc,        \* documents: hosts, sites, secrets, shares
    Mirrored,   \* those that have a plaintext mirror
    MaxSaves,   \* bound: documents saved
    MaxLosses,  \* bound: power losses
    None, Half  \* no file; not the whole of what was written

ASSUME FileAssumption ==
    /\ Doc # {} /\ Mirrored \subseteq Doc
    /\ MaxSaves \in Nat \ {0} /\ MaxLosses \in Nat
    /\ None \notin Nat /\ Half \notin Nat /\ None # Half

VARIABLES
    now,      \* the files a process finds
    durable,  \* the files there are after a power loss
    tmp,      \* the temporary file each process is writing
    at,       \* where each process is
    job,      \* what it saves
    saves,    \* documents saved so far; each is a version of its own
    losses,   \* power losses so far
    overlap,  \* history: documents two processes ever saved at a time
    broken    \* mirrored documents of which only one file may be new

files == <<now, durable, tmp>>
bounds == <<saves, losses>>
history == <<overlap, broken>>
vars == <<files, at, job, bounds, history>>

Path == (Doc \X {"dta"}) \cup (Mirrored \X {"json"})
Data == 1 .. MaxSaves

\* data as a process reads it, and whether it is on the disk
File == [data : Data \cup {None, Half}, synced : BOOLEAN]
NoFile == [data |-> None, synced |-> TRUE]
NewFile == [data |-> Half, synced |-> FALSE]

\* path is the file being written
Job == [path : Path, data : Data]

Stage == {"idle", "absent", "temp", "written", "synced", "replaced", "mirror",
          "returned", "failed", "interrupted"}
Working == {"absent", "temp", "written", "synced", "replaced", "mirror"}

TypeOk ==
    /\ now \in [Path -> File]
    /\ durable \in [Path -> File]
    /\ tmp \in [Proc -> File]
    /\ at \in [Proc -> Stage]
    /\ job \in [Proc -> Job]
    /\ saves \in 0 .. MaxSaves
    /\ losses \in 0 .. MaxLosses
    /\ overlap \subseteq Doc
    /\ broken \subseteq Mirrored

Init ==
    /\ now = [p \in Path |-> NoFile]
    /\ durable = [p \in Path |-> NoFile]
    /\ tmp = [w \in Proc |-> NoFile]
    /\ at = [w \in Proc |-> "idle"]
    /\ job = [w \in Proc |-> CHOOSE j \in Job : TRUE]
    /\ saves = 0
    /\ losses = 0
    /\ overlap = {}
    /\ broken = {}

Goto(w, stage) == at' = [at EXCEPT ![w] = stage]

-----------------------------------------------------------------------------
(* save(), save_mirrored(), ensure(), ensure_mirrored().                    *)

Busy(doc) == \E w \in Proc : at[w] \in Working /\ job[w].path[1] = doc

Start(w, doc, stage) ==
    /\ at[w] \notin Working /\ saves < MaxSaves
    /\ saves' = saves + 1
    /\ job' = [job EXCEPT ![w] = [path |-> <<doc, "dta">>, data |-> saves']]
    /\ overlap' = IF Busy(doc) THEN overlap \cup {doc} ELSE overlap
    /\ Goto(w, stage)
    /\ UNCHANGED <<now, durable, losses, broken>>

Save(w, doc) ==
    /\ Start(w, doc, "temp")
    /\ tmp' = [tmp EXCEPT ![w] = NewFile]

\* `not os.path.exists(path)`
Missing(doc) == now[<<doc, "dta">>].data = None

\* A document that exists is loaded, which changes nothing.
Ensure(w, doc) ==
    /\ Missing(doc)
    /\ Start(w, doc, "absent")
    /\ UNCHANGED tmp

-----------------------------------------------------------------------------
(* atomic_write_bytes().                                                    *)

\* save_mirrored() goes on with the mirror.
Mkstemp(w) ==
    /\ at[w] \in {"absent", "mirror"}
    /\ tmp' = [tmp EXCEPT ![w] = NewFile]
    /\ Goto(w, "temp")
    /\ job' = IF at[w] = "mirror"
              THEN [job EXCEPT ![w].path = <<job[w].path[1], "json">>]
              ELSE job
    /\ UNCHANGED <<now, durable, bounds, history>>

Write(w) ==
    /\ at[w] = "temp"
    /\ tmp' = [tmp EXCEPT ![w].data = job[w].data]
    /\ Goto(w, "written")
    /\ UNCHANGED <<now, durable, job, bounds, history>>

\* Bug: the data is not forced to the disk.
BugFsync(w) ==
    /\ at[w] = "written"
    /\ Goto(w, "synced")
    /\ UNCHANGED <<files, job, bounds, history>>

Fsync(w) ==
    /\ at[w] = "written"
    /\ tmp' = [tmp EXCEPT ![w].synced = TRUE]
    /\ Goto(w, "synced")
    /\ UNCHANGED <<now, durable, job, bounds, history>>

Replace(w) ==
    /\ at[w] = "synced"
    /\ now' = [now EXCEPT ![job[w].path] = tmp[w]]
    /\ tmp' = [tmp EXCEPT ![w] = NoFile]
    /\ Goto(w, "replaced")
    /\ UNCHANGED <<durable, job, bounds, history>>

\* Bug: no document has a mirror.
BugNoMirror(w) == FALSE

\* Whether what was written has a mirror to be written next.
ToMirror(w) == job[w].path[2] = "dta" /\ job[w].path[1] \in Mirrored

Return(w) ==
    /\ at[w] = "replaced"
    /\ IF ToMirror(w)
       THEN Goto(w, "mirror") /\ UNCHANGED broken
       ELSE Goto(w, "returned") /\ broken' = broken \ {job[w].path[1]}
    /\ UNCHANGED <<files, job, bounds, overlap>>

\* The encrypted file has been replaced, or the mirror as well.
Between(w) == job[w].path[2] = "json" \/ at[w] \in {"replaced", "mirror"}

\* The save as a whole ends early.
Leave(w, stage) ==
    /\ tmp' = [tmp EXCEPT ![w] = NoFile]
    /\ Goto(w, stage)
    /\ broken' = IF Between(w) THEN broken \cup ({job[w].path[1]} \cap Mirrored)
                               ELSE broken
    /\ UNCHANGED <<now, durable, job, bounds, overlap>>

\* An OSError: the temporary file is removed, if it can be.
Fail(w) ==
    /\ at[w] \in {"absent", "temp", "written", "synced", "mirror"}
    /\ Leave(w, "failed")

\* KeyboardInterrupt, or the process is killed: then a .tmp file stays, which
\* nobody ever looks at.
Interrupt(w) ==
    /\ at[w] \in Working
    /\ Leave(w, "interrupted")

-----------------------------------------------------------------------------
(* The file system: no directory is ever synced by the code.                *)

Settle(p) ==
    /\ durable[p] # now[p]
    /\ durable' = [durable EXCEPT ![p] = now[p]]
    /\ UNCHANGED <<now, tmp, at, job, bounds, history>>

\* What has not been synced may be there in part.
PowerLoss ==
    /\ losses < MaxLosses
    /\ losses' = losses + 1
    /\ \E half \in SUBSET {p \in Path : ~durable[p].synced} :
        now' = [p \in Path |-> IF p \in half THEN NewFile ELSE durable[p]]
    /\ durable' = now'
    /\ tmp' = [w \in Proc |-> NoFile]
    /\ at' = [w \in Proc |-> "idle"]
    /\ UNCHANGED <<job, saves, history>>

-----------------------------------------------------------------------------
Next ==
    \/ \E w \in Proc :
        \/ \E doc \in Doc : Save(w, doc) \/ Ensure(w, doc)
        \/ Mkstemp(w) \/ Write(w) \/ Fsync(w) \/ Replace(w) \/ Return(w)
        \/ Fail(w) \/ Interrupt(w)
    \/ \E p \in Path : Settle(p)
    \/ PowerLoss

Spec == Init /\ [][Next]_vars

-----------------------------------------------------------------------------
(* Properties.                                                              *)

\* "mirror": the first of two calls has returned.
CallIs(w) ==
    CASE at[w] \in {"absent", "temp", "written", "synced"} -> "begun"
      [] at[w] = "mirror" -> "returned"
      [] OTHER -> at[w]

Atomic == INSTANCE AtomicFiles WITH
    value <- [p \in Path |-> now[p].data],
    stable <- [p \in Path |-> durable[p].data],
    call <- [w \in Proc |->
               [path |-> job[w].path, data |-> job[w].data, is |-> CallIs(w)]]

\* Every reader finds a whole version or none, whoever else is writing and
\* whatever fails; a save that fails has not replaced the file it was at, one
\* that returns has; a power loss leaves a whole version that was there before
\* ("a crash mid-write never leaves a half-written file behind").
ImplementsAtomicFiles == Atomic!Spec

\* The mirror never says what the encrypted file has not said before, and says
\* the same once the last save has returned.  Both hold while documents are
\* saved one at a time and no power is lost: the two files are replaced and
\* reach the disk independently (save_mirrored).
MirrorFollows ==
    \A doc \in Mirrored \ overlap :
        LET plain == now[<<doc, "json">>].data
            encrypted == now[<<doc, "dta">>].data
        IN losses = 0 =>
            /\ plain # None => encrypted # None /\ plain <= encrypted
            /\ ~Busy(doc) /\ doc \notin broken => plain = encrypted

=============================================================================
