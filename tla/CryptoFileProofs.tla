-------------------------- MODULE CryptoFileProofs --------------------------
(***************************************************************************)
(* Whatever the number of processes, documents and saves: cryptofile.py     *)
(* implements AtomicFiles.  What makes it so is that no name ever refers to  *)
(* data that is not whole and on the disk: the temporary file is written    *)
(* and forced to the disk before it gets the name.                          *)
(***************************************************************************)
EXTENDS CryptoFile, TLAPS

\* Whole and on the disk.
Sound(f) == f.data # Half /\ f.synced

WholeInv ==
    /\ \A p \in Path : Sound(now[p]) /\ Sound(durable[p])
    /\ \A w \in Proc :
        /\ at[w] \in {"written", "synced"} => tmp[w].data = job[w].data
        /\ at[w] = "synced" => tmp[w].synced
        /\ at[w] = "mirror" => ToMirror(w)

FileInv == TypeOk /\ WholeInv

\* The values a save may have are neither of the two that are no version.
LEMMA DataFacts == None \notin Data /\ Half \notin Data /\ None # Half
BY FileAssumption DEF Data

LEMMA SoundFacts ==
    /\ NoFile \in File /\ NewFile \in File
    /\ Sound(NoFile)
BY DataFacts DEF NoFile, NewFile, File, Sound

\* Path and Data are not empty.
LEMMA InitialJob == \E j \in Job : TRUE
<1>1. PICK doc \in Doc : TRUE  BY FileAssumption
<1>2. <<doc, "dta">> \in Path  BY DEF Path
<1>3. 1 \in Data  BY FileAssumption DEF Data
<1>4. [path |-> <<doc, "dta">>, data |-> 1] \in Job
  BY <1>2, <1>3 DEF Job
<1> QED BY <1>4

LEMMA InvInit == Init => FileInv
<1> SUFFICES ASSUME Init PROVE FileInv
  OBVIOUS
<1>1. (CHOOSE j \in Job : TRUE) \in Job
  BY InitialJob
<1>2. TypeOk
  BY <1>1, SoundFacts, FileAssumption DEF Init, TypeOk, Stage
<1>3. WholeInv
  BY SoundFacts DEF Init, WholeInv
<1> QED BY <1>2, <1>3 DEF FileInv


\* Each step by itself: types, then what names refer to.
LEMMA InvSave ==
    ASSUME FileInv, NEW w \in Proc, NEW doc \in Doc, Save(w, doc) \/ Ensure(w, doc)
    PROVE  FileInv'
<1>1. saves' \in Data /\ saves' \in 0 .. MaxSaves
  BY FileAssumption DEF FileInv, TypeOk, Save, Ensure, Start, Data
<1>2. <<doc, "dta">> \in Path
  BY DEF Path
<1>3. PICK stage \in {"temp", "absent"} : Start(w, doc, stage)
  BY DEF Save, Ensure
<1>4. job' \in [Proc -> Job]
  BY <1>1, <1>2, <1>3 DEF FileInv, TypeOk, Start, Job
<1>5. at' \in [Proc -> Stage] /\ tmp' \in [Proc -> File]
  BY <1>3, SoundFacts DEF FileInv, TypeOk, Save, Ensure, Start, Goto, Stage
<1>6. TypeOk'
  BY <1>1, <1>3, <1>4, <1>5 DEF FileInv, TypeOk, Start
<1>7. WholeInv'
  BY <1>3, <1>4, <1>5 DEF FileInv, TypeOk, WholeInv, Save, Ensure, Start, Goto, ToMirror
<1> QED BY <1>6, <1>7 DEF FileInv

LEMMA InvWrite ==
    ASSUME FileInv, NEW w \in Proc, Mkstemp(w) \/ Write(w) \/ Fsync(w) \/ Return(w)
    PROVE  FileInv'
<1>1. job[w] \in Job /\ job[w].data \in Data /\ tmp[w] \in File
  BY DEF FileInv, TypeOk, Job
<1>2. CASE Mkstemp(w)
  <2>1. at[w] = "mirror" => <<job[w].path[1], "json">> \in Path
    BY DEF FileInv, WholeInv, ToMirror, Path
  <2>2. job' \in [Proc -> Job]
    BY <1>1, <1>2, <2>1 DEF FileInv, TypeOk, Mkstemp, Job
  <2>3. TypeOk'
    BY <1>2, <2>2, SoundFacts DEF FileInv, TypeOk, Mkstemp, Goto, Stage, bounds, history
  <2>4. WholeInv'
    BY <1>2, <2>2, <2>3 DEF FileInv, TypeOk, WholeInv, Mkstemp, Goto, ToMirror
  <2> QED BY <2>3, <2>4 DEF FileInv
<1>3. CASE Write(w)
  <2>1. [tmp[w] EXCEPT !.data = job[w].data] \in File
    BY <1>1 DEF File
  <2>2. TypeOk'
    BY <1>3, <2>1 DEF FileInv, TypeOk, Write, Goto, Stage, bounds, history
  <2>3. WholeInv'
    BY <1>1, <1>3, <2>2 DEF FileInv, TypeOk, WholeInv, Write, Goto, File, ToMirror
  <2> QED BY <2>2, <2>3 DEF FileInv
<1>4. CASE Fsync(w)
  <2>1. [tmp[w] EXCEPT !.synced = TRUE] \in File
    BY <1>1 DEF File
  <2>2. TypeOk'
    BY <1>4, <2>1 DEF FileInv, TypeOk, Fsync, Goto, Stage, bounds, history
  <2>3. WholeInv'
    BY <1>1, <1>4, <2>2 DEF FileInv, TypeOk, WholeInv, Fsync, Goto, File, ToMirror
  <2> QED BY <2>2, <2>3 DEF FileInv
<1>5. CASE Return(w)
  <2>1. TypeOk'
    BY <1>5 DEF FileInv, TypeOk, Return, Goto, Stage, files, bounds
  <2>2. WholeInv'
    BY <1>5, <2>1 DEF FileInv, TypeOk, WholeInv, Return, Goto, ToMirror, files
  <2> QED BY <2>1, <2>2 DEF FileInv
<1> QED BY <1>2, <1>3, <1>4, <1>5

\* The step all this is for.
LEMMA InvReplace ==
    ASSUME FileInv, NEW w \in Proc, Replace(w)
    PROVE  FileInv'
<1>1. job[w].path \in Path /\ job[w].data \in Data /\ tmp[w] \in File
  BY DEF FileInv, TypeOk, Job
<1>2. Sound(tmp[w])
  BY <1>1, DataFacts DEF FileInv, WholeInv, Replace, Sound
<1>3. TypeOk'
  BY <1>1, SoundFacts DEF FileInv, TypeOk, Replace, Goto, Stage, bounds, history
<1>4. \A p \in Path : now'[p] = now[p] \/ now'[p] = tmp[w]
  BY <1>1 DEF FileInv, TypeOk, Replace
<1>5. WholeInv'
  BY <1>2, <1>3, <1>4 DEF FileInv, TypeOk, WholeInv, Replace, Goto, ToMirror, Sound
<1> QED BY <1>3, <1>5 DEF FileInv

LEMMA InvLeave ==
    ASSUME FileInv, NEW w \in Proc, Fail(w) \/ Interrupt(w)
    PROVE  FileInv'
<1>1. PICK stage \in {"failed", "interrupted"} : Leave(w, stage)
  BY DEF Fail, Interrupt
<1>2. TypeOk'
  BY <1>1, SoundFacts DEF FileInv, TypeOk, Leave, Goto, Stage, bounds
<1>3. WholeInv'
  BY <1>1, <1>2 DEF FileInv, TypeOk, WholeInv, Leave, Goto, ToMirror
<1> QED BY <1>2, <1>3 DEF FileInv

LEMMA InvDisk ==
    ASSUME FileInv, (\E p \in Path : Settle(p)) \/ PowerLoss
    PROVE  FileInv'
<1>1. CASE \E p \in Path : Settle(p)
  <2>1. PICK p \in Path : Settle(p)
    BY <1>1
  <2>2. TypeOk'
    BY <2>1 DEF FileInv, TypeOk, Settle, bounds, history
  <2>3. WholeInv'
    BY <2>1, <2>2 DEF FileInv, TypeOk, WholeInv, Settle, ToMirror, Sound
  <2> QED BY <2>2, <2>3 DEF FileInv
<1>2. CASE PowerLoss
  \* Everything is on the disk, so nothing is lost in part.
  <2>1. now' = durable /\ durable' = durable
    BY <1>2 DEF PowerLoss, FileInv, TypeOk, WholeInv, Sound
  <2>2. TypeOk'
    BY <1>2, <2>1, SoundFacts, FileAssumption
    DEF FileInv, TypeOk, PowerLoss, Stage, history
  <2>3. WholeInv'
    BY <1>2, <2>1 DEF FileInv, TypeOk, WholeInv, PowerLoss, Sound
  <2> QED BY <2>2, <2>3 DEF FileInv
<1> QED BY <1>1, <1>2

LEMMA InvNext == FileInv /\ [Next]_vars => FileInv'
<1> SUFFICES ASSUME FileInv, [Next]_vars PROVE FileInv'
  OBVIOUS
<1>1. CASE UNCHANGED vars
  BY <1>1 DEF FileInv, TypeOk, WholeInv, ToMirror, vars, files, bounds, history
<1>2. CASE Next
  BY <1>2, InvSave, InvWrite, InvReplace, InvLeave, InvDisk DEF Next
<1> QED BY <1>1, <1>2

\* Every variable has its type, and no file a process finds, or finds after a
\* power loss, is other than whole (save, atomic_write_bytes).
THEOREM FilesWhole == Spec => []FileInv
BY InvInit, InvNext, PTL DEF Spec

\* The types alone.
THEOREM FilesTyped == Spec => []TypeOk
<1>1. FileInv => TypeOk
  BY DEF FileInv
<1> QED BY <1>1, FilesWhole, PTL

-----------------------------------------------------------------------------
(* The refinement.                                                          *)

LEMMA ToAtomicInit == Init => Atomic!Init
<1> SUFFICES ASSUME Init PROVE Atomic!Init
  OBVIOUS
<1>1. (CHOOSE j \in Job : TRUE) \in Job
  BY InitialJob
<1> QED BY <1>1 DEF Init, Atomic!Init, NoFile, CallIs, Job

\* What a process is at, as AtomicFiles sees it.
CallOf(w) == [path |-> job[w].path, data |-> job[w].data, is |-> CallIs(w)]

\* A step of one process leaves the calls of the others alone.
LEMMA OthersKept ==
    ASSUME FileInv, FileInv', NEW w \in Proc,
           \A v \in Proc \ {w} : at'[v] = at[v] /\ job'[v] = job[v]
    PROVE  [v \in Proc |-> CallOf(v)]'
             = [[v \in Proc |-> CallOf(v)] EXCEPT ![w] = CallOf(w)']
BY DEF CallOf, CallIs


LEMMA ToAtomicCall ==
    ASSUME FileInv, FileInv', NEW w \in Proc, NEW doc \in Doc,
           \/ Save(w, doc) \/ Ensure(w, doc) \/ Mkstemp(w) \/ Write(w) \/ Fsync(w)
           \/ Return(w) \/ Fail(w) \/ Interrupt(w)
    PROVE  [Atomic!Next]_(Atomic!vars)
<1> DEFINE calls == [v \in Proc |-> CallOf(v)]
<1>1. calls' = [calls EXCEPT ![w] = CallOf(w)']
  <2>1. \A v \in Proc \ {w} : at'[v] = at[v] /\ job'[v] = job[v]
    BY DEF FileInv, TypeOk, Save, Ensure, Start, Mkstemp, Write, Fsync, Return, Fail,
           Interrupt, Leave, Goto
  <2> QED BY <2>1, OthersKept
<1>2. now' = now /\ durable' = durable
  BY DEF Save, Ensure, Start, Mkstemp, Write, Fsync, Return, Fail, Interrupt, Leave, files
<1>3. job[w] \in Job /\ job'[w] \in Job /\ at[w] \in Stage
  BY DEF FileInv, TypeOk
<1>4. calls[w] = CallOf(w)
  OBVIOUS
<1>5. UNCHANGED <<[p \in Path |-> now[p].data], [p \in Path |-> durable[p].data]>>
  BY <1>2
<1>6. PICK p \in Path, d \in Data : job'[w].path = p /\ job'[w].data = d
  BY <1>3 DEF Job
<1>7. CASE Save(w, doc) \/ Ensure(w, doc)
  <2>1. /\ CallOf(w).is \notin {"begun", "replaced"}
        /\ CallOf(w)' = [path |-> job'[w].path, data |-> job'[w].data, is |-> "begun"]
    BY <1>3, <1>7
    DEF FileInv, TypeOk, Save, Ensure, Start, Goto, CallOf, CallIs, Working, Stage
  <2>2. Atomic!Begin(w, p, d)
    BY <1>1, <1>4, <1>5, <1>6, <2>1 DEF Atomic!Begin, CallOf
  <2> QED BY <2>2 DEF Atomic!Next
<1>8. CASE Mkstemp(w)
  <2>1. CASE at[w] = "mirror"
    <3>1. /\ CallOf(w).is = "returned"
          /\ CallOf(w)' = [path |-> job'[w].path, data |-> job'[w].data, is |-> "begun"]
      BY <1>3, <1>8, <2>1 DEF FileInv, TypeOk, Mkstemp, Goto, CallOf, CallIs
    <3>2. Atomic!Begin(w, p, d)
      BY <1>1, <1>4, <1>5, <1>6, <3>1 DEF Atomic!Begin, CallOf
    <3> QED BY <3>2 DEF Atomic!Next
  <2>2. CASE at[w] = "absent"
    <3>1. CallOf(w)' = CallOf(w)
      BY <1>3, <1>8, <2>2 DEF FileInv, TypeOk, Mkstemp, Goto, CallOf, CallIs
    <3> QED BY <1>1, <1>5, <3>1 DEF Atomic!vars, CallOf
  <2> QED BY <1>8, <2>1, <2>2 DEF Mkstemp
<1>9. CASE Write(w) \/ Fsync(w)
  <2>1. CallOf(w)' = CallOf(w)
    BY <1>3, <1>9 DEF FileInv, TypeOk, Write, Fsync, Goto, CallOf, CallIs
  <2> QED BY <1>1, <1>5, <2>1 DEF Atomic!vars, CallOf
<1>10. CASE Return(w)
  <2>1. /\ CallOf(w).is = "replaced"
        /\ CallOf(w)' = [CallOf(w) EXCEPT !.is = "returned"]
    BY <1>3, <1>10 DEF FileInv, TypeOk, Return, Goto, CallOf, CallIs
  <2>2. Atomic!Return(w)
    BY <1>1, <1>4, <1>5, <2>1 DEF Atomic!Return, Atomic!End, CallOf
  <2> QED BY <2>2 DEF Atomic!Next
<1>11. CASE Fail(w)
  <2>1. /\ CallOf(w).is \in {"begun", "returned"}
        /\ CallOf(w)' = [CallOf(w) EXCEPT !.is = "failed"]
    BY <1>3, <1>11 DEF FileInv, TypeOk, Fail, Leave, Goto, CallOf, CallIs
  <2>2. Atomic!Fail(w)
    BY <1>1, <1>4, <1>5, <2>1 DEF Atomic!Fail, Atomic!End, CallOf
  <2> QED BY <2>2 DEF Atomic!Next
<1>12. CASE Interrupt(w)
  <2>1. /\ CallOf(w).is \in {"begun", "replaced", "returned"}
        /\ CallOf(w)' = [CallOf(w) EXCEPT !.is = "interrupted"]
    BY <1>3, <1>12 DEF FileInv, TypeOk, Interrupt, Leave, Goto, CallOf, CallIs, Working
  <2>2. Atomic!Interrupt(w)
    BY <1>1, <1>4, <1>5, <2>1 DEF Atomic!Interrupt, Atomic!End, CallOf
  <2> QED BY <2>2 DEF Atomic!Next
<1> QED BY <1>7, <1>8, <1>9, <1>10, <1>11, <1>12

LEMMA ToAtomicReplace ==
    ASSUME FileInv, FileInv', NEW w \in Proc, Replace(w)
    PROVE  Atomic!Next
<1> DEFINE calls == [v \in Proc |-> CallOf(v)]
           values == [p \in Path |-> now[p].data]
<1>1. calls' = [calls EXCEPT ![w] = CallOf(w)']
  <2>1. \A v \in Proc \ {w} : at'[v] = at[v] /\ job'[v] = job[v]
    BY DEF FileInv, TypeOk, Replace, Goto
  <2> QED BY <2>1, OthersKept
<1>2. /\ CallOf(w).is = "begun"
      /\ CallOf(w)' = [CallOf(w) EXCEPT !.is = "replaced"]
  BY DEF FileInv, TypeOk, Replace, Goto, CallOf, CallIs
<1>3. calls[w] = CallOf(w)
  OBVIOUS
<1>4. job[w].path \in Path /\ tmp[w].data = job[w].data
  BY DEF FileInv, TypeOk, WholeInv, Replace, Job
<1>5. values' = [values EXCEPT ![job[w].path] = job[w].data]
  BY <1>4 DEF FileInv, TypeOk, Replace
<1>6. UNCHANGED [p \in Path |-> durable[p].data]
  BY DEF Replace
<1>7. Atomic!Replace(w)
  BY <1>1, <1>2, <1>3, <1>5, <1>6 DEF Atomic!Replace, CallOf
<1> QED BY <1>7 DEF Atomic!Next

LEMMA ToAtomicDisk ==
    ASSUME FileInv, FileInv', (\E p \in Path : Settle(p)) \/ PowerLoss
    PROVE  Atomic!Next
<1>1. CASE \E p \in Path : Settle(p)
  <2>1. PICK p \in Path : Settle(p)
    BY <1>1
  <2>2. [q \in Path |-> durable[q].data]'
          = [[q \in Path |-> durable[q].data] EXCEPT ![p] = now[p].data]
    BY <2>1 DEF FileInv, TypeOk, Settle
  <2>3. UNCHANGED <<[q \in Path |-> now[q].data], [w \in Proc |-> CallOf(w)]>>
    BY <2>1 DEF Settle, CallOf, CallIs
  <2>4. Atomic!Settle(p)
    BY <2>1, <2>2, <2>3 DEF Atomic!Settle, CallOf
  <2> QED BY <2>4 DEF Atomic!Next
<1>2. CASE PowerLoss
  <2>1. now' = durable /\ durable' = durable
    BY <1>2 DEF PowerLoss, FileInv, TypeOk, WholeInv, Sound
  <2>2. \A w \in Proc : CallOf(w)' = [CallOf(w) EXCEPT !.is = "idle"]
    BY <1>2 DEF PowerLoss, CallOf, CallIs
  <2>3. [w \in Proc |-> CallOf(w)]' = [w \in Proc |-> [CallOf(w) EXCEPT !.is = "idle"]]
    BY <2>2
  <2>4. Atomic!PowerLoss
    BY <2>1, <2>3 DEF Atomic!PowerLoss, CallOf
  <2> QED BY <2>4 DEF Atomic!Next
<1> QED BY <1>1, <1>2

LEMMA ToAtomicNext ==
    FileInv /\ FileInv' /\ [Next]_vars => [Atomic!Next]_(Atomic!vars)
<1> SUFFICES ASSUME FileInv, FileInv', [Next]_vars
             PROVE  [Atomic!Next]_(Atomic!vars)
  OBVIOUS
<1>1. CASE UNCHANGED vars
  BY <1>1 DEF vars, files, Atomic!vars, CallIs
<1>2. CASE Next
  <2>1. PICK doc \in Doc : TRUE
    BY FileAssumption
  <2> QED BY <1>2, <2>1, ToAtomicCall, ToAtomicReplace, ToAtomicDisk DEF Next
<1> QED BY <1>1, <1>2

\* A call of atomic_write_bytes() replaces its file in one step for every
\* reader and every later boot, or not at all: what the other modules assume of
\* a save (atomic_write_bytes, save, save_mirrored, ensure).
THEOREM FilesRefine == Spec => ImplementsAtomicFiles
<1>1. Init => Atomic!Init
  BY ToAtomicInit
<1>2. FileInv /\ FileInv' /\ [Next]_vars => [Atomic!Next]_(Atomic!vars)
  BY ToAtomicNext
<1> QED BY <1>1, <1>2, FilesWhole, PTL DEF Spec, ImplementsAtomicFiles, Atomic!Spec

-----------------------------------------------------------------------------
(* One save of a document at a time.                                        *)

DocOf(w) == job[w].path[1]

\* The process has a file to replace yet.
Early == {"absent", "temp", "written", "synced"}
Encrypting(w) == at[w] \in Early /\ job[w].path[2] = "dta"

\* Nobody else saves the document, and versions are drawn in order.
SaveInv ==
    /\ \A v, w \in Proc :
        at[v] \in Working /\ at[w] \in Working /\ DocOf(v) = DocOf(w)
          /\ DocOf(w) \notin overlap => v = w
    /\ \A w \in Proc : at[w] \in Working => job[w].data <= saves
    /\ \A p \in Path : now[p].data # None => now[p].data <= saves
    /\ \A p \in Path : durable[p].data # None => durable[p].data <= saves

LEMMA PathFacts ==
    ASSUME NEW p \in Path
    PROVE  p = <<p[1], p[2]>> /\ p[1] \in Doc /\ p[2] \in {"dta", "json"}
BY FileAssumption DEF Path

LEMMA SaveInvInit == Init => SaveInv
BY DEF Init, SaveInv, Working, Encrypting, Early, NoFile

LEMMA SaveInvStart ==
    ASSUME FileInv, SaveInv, NEW w \in Proc, NEW doc \in Doc, Save(w, doc) \/ Ensure(w, doc)
    PROVE  SaveInv'
<1>1. PICK stage \in {"temp", "absent"} : Start(w, doc, stage)
  BY DEF Save, Ensure
<1>2. /\ \A v \in Proc \ {w} : at'[v] = at[v] /\ job'[v] = job[v]
      /\ job'[w] = [path |-> <<doc, "dta">>, data |-> saves']
      /\ at'[w] = stage /\ at[w] \notin Working
      /\ now' = now /\ durable' = durable /\ saves' = saves + 1 /\ saves \in Nat
  BY <1>1 DEF FileInv, TypeOk, Start, Goto
<1>3. /\ overlap \subseteq overlap'
      /\ doc \notin overlap' => \A v \in Proc : at[v] \in Working => DocOf(v) # doc
  BY <1>1 DEF Start, Busy, DocOf
<1>4. ASSUME NEW v \in Proc, NEW u \in Proc,
             (at[v] \in Working)', (at[u] \in Working)', (DocOf(v) = DocOf(u))',
             (DocOf(u) \notin overlap)'
      PROVE  v = u
  BY <1>2, <1>3, <1>4 DEF SaveInv, DocOf
<1>5. ASSUME NEW v \in Proc
      PROVE  (at[v] \in Working => job[v].data <= saves)'
  <2>1. CASE v = w
    BY <1>2, <2>1
  <2>2. CASE v # w
    <3>1. job[v].data \in Nat
      BY DEF FileInv, TypeOk, Job, Data
    <3> QED BY <1>2, <2>2, <3>1 DEF SaveInv
  <2> QED BY <2>1, <2>2
<1>6. \A p \in Path : /\ now'[p].data # None => now'[p].data <= saves'
                      /\ durable'[p].data # None => durable'[p].data <= saves'
  <2>1. \A p \in Path : /\ now[p].data # None => now[p].data \in Nat
                        /\ durable[p].data # None => durable[p].data \in Nat
    BY DEF FileInv, TypeOk, WholeInv, Sound, File, Data
  <2> QED BY <1>2, <2>1 DEF SaveInv
<1> QED BY <1>4, <1>5, <1>6 DEF SaveInv

\* Any other step leaves documents with those who save them.
LEMMA SaveInvGoes ==
    ASSUME FileInv, SaveInv, NEW w \in Proc,
           \/ Mkstemp(w) \/ Write(w) \/ Fsync(w) \/ Return(w) \/ Fail(w) \/ Interrupt(w)
    PROVE  SaveInv'
<1>1. /\ \A v \in Proc \ {w} : at'[v] = at[v] /\ job'[v] = job[v]
      /\ at'[w] \in Working => at[w] \in Working
      /\ UNCHANGED <<now, durable, saves, overlap>>
  BY DEF FileInv, TypeOk, Mkstemp, Write, Fsync, Return, Fail, Interrupt, Leave, Goto,
     Working, files, bounds, history
<1>2. /\ DocOf(w)' = DocOf(w) /\ job'[w].data = job[w].data
  BY DEF FileInv, TypeOk, Mkstemp, Write, Fsync, Return, Fail, Interrupt, Leave, DocOf, Job
<1>3. ASSUME NEW v \in Proc
      PROVE  DocOf(v)' = DocOf(v) /\ (at'[v] \in Working => at[v] \in Working)
  BY <1>1, <1>2 DEF DocOf
<1>4. ASSUME NEW v \in Proc
      PROVE  (at[v] \in Working => job[v].data <= saves)'
  <2>1. CASE v = w
    BY <1>1, <1>2, <2>1 DEF SaveInv
  <2>2. CASE v # w
    BY <1>1, <2>2 DEF SaveInv
  <2> QED BY <2>1, <2>2
<1> QED BY <1>1, <1>3, <1>4 DEF SaveInv

LEMMA SaveInvReplace ==
    ASSUME FileInv, SaveInv, NEW w \in Proc, Replace(w)
    PROVE  SaveInv'
<1>1. /\ \A v \in Proc \ {w} : at'[v] = at[v]
      /\ at[w] = "synced" /\ at'[w] = "replaced" /\ job' = job
      /\ UNCHANGED <<durable, saves, overlap>>
      /\ \A p \in Path \ {job[w].path} : now'[p] = now[p]
      /\ now'[job[w].path] = tmp[w] /\ job[w].path \in Path
  BY DEF FileInv, TypeOk, Replace, Goto, bounds, history, Job
<1>2. tmp[w].data = job[w].data /\ job[w].data <= saves
  BY <1>1 DEF FileInv, WholeInv, SaveInv, Working
<1>3. \A v \in Proc : DocOf(v)' = DocOf(v) /\ (at'[v] \in Working => at[v] \in Working)
  BY <1>1 DEF DocOf, Working
<1> QED BY <1>1, <1>2, <1>3 DEF SaveInv

LEMMA SaveInvNext == FileInv /\ SaveInv /\ [Next]_vars => SaveInv'
<1> SUFFICES ASSUME FileInv, SaveInv, [Next]_vars PROVE SaveInv'
  OBVIOUS
<1>1. CASE UNCHANGED vars
  BY <1>1 DEF SaveInv, DocOf, Encrypting, vars, files, bounds, history
<1>2. ASSUME NEW p \in Path, Settle(p) PROVE SaveInv'
  BY <1>2 DEF SaveInv, DocOf, Encrypting, Settle, bounds, history, FileInv, TypeOk
<1>3. CASE PowerLoss
  <2>1. now' = durable /\ durable' = durable
    BY <1>3 DEF PowerLoss, FileInv, TypeOk, WholeInv, Sound
  <2> QED BY <1>3, <2>1 DEF SaveInv, DocOf, Encrypting, Early, Working, PowerLoss
<1> QED BY <1>1, <1>2, <1>3, SaveInvStart, SaveInvGoes, SaveInvReplace DEF Next

-----------------------------------------------------------------------------
(* The mirrors.                                                             *)

Plain(doc) == now[<<doc, "json">>].data
Encrypted(doc) == now[<<doc, "dta">>].data

\* How far the two files of a document have come: the same version before its
\* one save has replaced either, the new one in those it has replaced.
Behind(doc) ==
    Plain(doc) # None => Encrypted(doc) # None /\ Plain(doc) <= Encrypted(doc)

Progress(w, doc) ==
    /\ Encrypting(w) =>
         /\ doc \notin broken => Plain(doc) = Encrypted(doc)
         /\ Encrypted(doc) # None => Encrypted(doc) <= job[w].data
    /\ ~Encrypting(w) => Encrypted(doc) = job[w].data
    /\ job[w].path[2] = "json" /\ at[w] = "replaced" => Plain(doc) = job[w].data

MirrorOk(doc) ==
    /\ Behind(doc)
    /\ ~Busy(doc) /\ doc \notin broken => Plain(doc) = Encrypted(doc)
    /\ \A w \in Proc : at[w] \in Working /\ DocOf(w) = doc => Progress(w, doc)

MirrorInv == losses = 0 => \A doc \in Mirrored \ overlap : MirrorOk(doc)

LEMMA MirrorFacts ==
    ASSUME FileInv, SaveInv, NEW doc \in Mirrored
    PROVE  /\ doc \in Doc /\ <<doc, "dta">> \in Path /\ <<doc, "json">> \in Path
           /\ <<doc, "dta">> # <<doc, "json">>
           /\ Plain(doc) # None => Plain(doc) \in Nat
           /\ Encrypted(doc) # None => Encrypted(doc) \in Nat /\ Encrypted(doc) <= saves
<1>1. /\ doc \in Doc /\ <<doc, "dta">> \in Path /\ <<doc, "json">> \in Path
      /\ <<doc, "dta">> # <<doc, "json">>
  BY FileAssumption DEF Path
<1>2. ASSUME NEW p \in Path PROVE now[p].data # None => now[p].data \in Nat
  BY DEF FileInv, TypeOk, WholeInv, Sound, File, Data
<1> QED BY <1>1, <1>2 DEF SaveInv, Plain, Encrypted

\* A step that replaces no file of the document, and neither begins nor ends
\* a save of it.
LEMMA MirrorOkKept ==
    ASSUME NEW doc, MirrorOk(doc),
           Plain(doc)' = Plain(doc), Encrypted(doc)' = Encrypted(doc),
           doc \in broken => doc \in broken',
           \A v \in Proc :
             /\ DocOf(v)' = DocOf(v)
             /\ DocOf(v) = doc =>
                  /\ at'[v] \in Working <=> at[v] \in Working
                  /\ Encrypting(v)' <=> Encrypting(v)
                  /\ job'[v].data = job[v].data
                  /\ job'[v].path[2] = "json" /\ at'[v] = "replaced"
                       => job[v].path[2] = "json" /\ at[v] = "replaced"
    PROVE  MirrorOk(doc)'
<1>1. Busy(doc)' <=> Busy(doc)
  BY DEF Busy, DocOf
<1>2. ASSUME NEW v \in Proc, (at[v] \in Working)', DocOf(v)' = doc
      PROVE  Progress(v, doc)'
  BY <1>2 DEF MirrorOk, Progress
<1> QED BY <1>1, <1>2 DEF MirrorOk, Behind

LEMMA MirrorInvStart ==
    ASSUME FileInv, SaveInv, MirrorInv, NEW w \in Proc, NEW d \in Doc,
           Save(w, d) \/ Ensure(w, d)
    PROVE  MirrorInv'
<1>1. PICK stage \in {"temp", "absent"} : Start(w, d, stage)
  BY DEF Save, Ensure
<1>2. /\ \A v \in Proc \ {w} : at'[v] = at[v] /\ job'[v] = job[v]
      /\ job'[w] = [path |-> <<d, "dta">>, data |-> saves + 1]
      /\ at'[w] = stage /\ at[w] \notin Working
      /\ UNCHANGED <<now, broken, losses>> /\ saves \in Nat
      /\ overlap \subseteq overlap'
      /\ d \notin overlap' => ~Busy(d)
  BY <1>1 DEF FileInv, TypeOk, Start, Goto
<1> SUFFICES ASSUME losses' = 0, NEW doc \in Mirrored \ overlap'
             PROVE  MirrorOk(doc)'
  BY DEF MirrorInv
<1>3. MirrorOk(doc)
  BY <1>2 DEF MirrorInv
<1>4. UNCHANGED <<Plain(doc), Encrypted(doc)>>
  BY <1>2 DEF Plain, Encrypted
<1>5. Behind(doc)'
  BY <1>3, <1>4 DEF MirrorOk, Behind
<1>6. Busy(doc) => Busy(doc)'
  BY <1>2 DEF Busy
<1>7. ASSUME NEW v \in Proc, (at[v] \in Working)', DocOf(v)' = doc
      PROVE  Progress(v, doc)'
  <2>1. CASE v = w
    <3>1. d = doc /\ ~Busy(doc) /\ Encrypting(v)' /\ job'[v].path[2] = "dta"
          /\ job'[v].data = saves + 1
      BY <1>2, <1>7, <2>1 DEF DocOf, Encrypting, Early
    <3>2. doc \notin broken => Plain(doc) = Encrypted(doc)
      BY <1>3, <3>1 DEF MirrorOk
    <3>3. Encrypted(doc) # None => Encrypted(doc) <= saves + 1
      <4>1. Encrypted(doc) # None => Encrypted(doc) \in Nat /\ Encrypted(doc) <= saves
        BY MirrorFacts
      <4>2. saves \in Nat
        BY <1>2
      <4> QED BY <4>1, <4>2
    <3>4. (doc \notin broken => Plain(doc) = Encrypted(doc))'
      BY <1>2, <1>4, <3>2
    <3>5. (Encrypted(doc) # None => Encrypted(doc) <= job[v].data)'
      BY <1>4, <3>1, <3>3
    <3> QED BY <3>1, <3>4, <3>5 DEF Progress
  <2>2. CASE v # w
    <3>1. at[v] \in Working /\ DocOf(v) = doc /\ (Encrypting(v)' <=> Encrypting(v))
      BY <1>2, <1>7, <2>2 DEF DocOf, Encrypting
    <3> QED BY <1>2, <1>3, <1>4, <2>2, <3>1 DEF MirrorOk, Progress
  <2> QED BY <2>1, <2>2
<1> QED BY <1>2, <1>3, <1>4, <1>5, <1>6, <1>7 DEF MirrorOk

LEMMA MirrorInvWrite ==
    ASSUME FileInv, SaveInv, MirrorInv, NEW w \in Proc, Mkstemp(w) \/ Write(w) \/ Fsync(w)
    PROVE  MirrorInv'
<1>1. /\ \A v \in Proc \ {w} : at'[v] = at[v] /\ job'[v] = job[v]
      /\ UNCHANGED <<now, broken, losses, overlap>>
      /\ at[w] \in Working /\ at'[w] \in Early
  BY DEF FileInv, TypeOk, Mkstemp, Write, Fsync, Goto, Working, Early, bounds, history
<1>2. DocOf(w)' = DocOf(w) /\ job'[w].data = job[w].data
  BY DEF FileInv, TypeOk, Mkstemp, Write, Fsync, DocOf, Job
<1>3. Encrypting(w)' <=> Encrypting(w)
  <2>1. CASE Mkstemp(w)
    BY <2>1 DEF FileInv, TypeOk, Mkstemp, Goto, Encrypting, Early, Job
  <2>2. CASE Write(w) \/ Fsync(w)
    BY <2>2 DEF FileInv, TypeOk, Write, Fsync, Goto, Encrypting, Early
  <2> QED BY <2>1, <2>2
<1> SUFFICES ASSUME losses' = 0, NEW doc \in Mirrored \ overlap' PROVE MirrorOk(doc)'
  BY DEF MirrorInv
<1>4. MirrorOk(doc)
  BY <1>1 DEF MirrorInv
<1>5. ASSUME NEW v \in Proc
      PROVE  /\ DocOf(v)' = DocOf(v)
             /\ at'[v] \in Working <=> at[v] \in Working
             /\ Encrypting(v)' <=> Encrypting(v)
             /\ job'[v].data = job[v].data
             /\ job'[v].path[2] = "json" /\ at'[v] = "replaced"
                  => job[v].path[2] = "json" /\ at[v] = "replaced"
  <2>1. CASE v = w
    BY <1>1, <1>2, <1>3, <2>1 DEF Early, Working
  <2>2. CASE v # w
    BY <1>1, <2>2 DEF DocOf, Encrypting
  <2> QED BY <2>1, <2>2
<1> QED BY <1>1, <1>4, <1>5, MirrorOkKept DEF Plain, Encrypted

\* The last step of a save leaves the document to nobody.
LEMMA NobodyElse ==
    ASSUME SaveInv, NEW w \in Proc, at[w] \in Working, DocOf(w) \notin overlap,
           NEW v \in Proc, at[v] \in Working, DocOf(v) = DocOf(w)
    PROVE  v = w
BY DEF SaveInv

LEMMA MirrorInvReturn ==
    ASSUME FileInv, SaveInv, MirrorInv, NEW w \in Proc, Return(w)
    PROVE  MirrorInv'
<1>1. /\ \A v \in Proc \ {w} : at'[v] = at[v]
      /\ UNCHANGED <<now, job, losses, overlap>>
      /\ at[w] = "replaced"
      /\ ToMirror(w) => at'[w] = "mirror" /\ broken' = broken
      /\ ~ToMirror(w) => at'[w] = "returned" /\ broken' = broken \ {DocOf(w)}
      /\ job[w].path \in Path
  BY DEF FileInv, TypeOk, Return, Goto, DocOf, files, bounds, Job
<1> SUFFICES ASSUME losses' = 0, NEW doc \in Mirrored \ overlap' PROVE MirrorOk(doc)'
  BY DEF MirrorInv
<1>2. MirrorOk(doc)
  BY <1>1 DEF MirrorInv
<1>3. Plain(doc)' = Plain(doc) /\ Encrypted(doc)' = Encrypted(doc)
  BY <1>1 DEF Plain, Encrypted
<1>4. CASE DocOf(w) # doc \/ ToMirror(w)
  <2>1. doc \in broken => doc \in broken'
    BY <1>1, <1>4
  <2>2. ASSUME NEW v \in Proc
        PROVE  /\ DocOf(v)' = DocOf(v)
               /\ DocOf(v) = doc =>
                    /\ at'[v] \in Working <=> at[v] \in Working
                    /\ Encrypting(v)' <=> Encrypting(v)
                    /\ job'[v].data = job[v].data
                    /\ job'[v].path[2] = "json" /\ at'[v] = "replaced"
                         => job[v].path[2] = "json" /\ at[v] = "replaced"
    BY <1>1, <1>4 DEF DocOf, Encrypting, Early, Working
  <2> QED BY <1>2, <1>3, <2>1, <2>2, MirrorOkKept
<1>5. CASE DocOf(w) = doc /\ ~ToMirror(w)
  <2>1. job[w].path[2] = "json"
    BY <1>1, <1>5, PathFacts DEF ToMirror, DocOf
  <2>2. at[w] \in Working /\ ~Encrypting(w)
    BY <1>1 DEF Working, Encrypting, Early
  <2>3. Progress(w, doc)
    BY <1>2, <1>5, <2>2 DEF MirrorOk
  <2>4. Plain(doc) = Encrypted(doc)
    BY <1>1, <2>1, <2>2, <2>3 DEF Progress
  <2>5. \A v \in Proc : at'[v] \in Working => DocOf(v)' # doc
    BY <1>1, <1>5, <2>2, NobodyElse DEF DocOf, Working
  <2> QED BY <1>2, <1>3, <2>4, <2>5 DEF MirrorOk, Behind
<1> QED BY <1>4, <1>5

LEMMA MirrorInvLeave ==
    ASSUME FileInv, SaveInv, MirrorInv, NEW w \in Proc, Fail(w) \/ Interrupt(w)
    PROVE  MirrorInv'
<1>1. /\ \A v \in Proc \ {w} : at'[v] = at[v]
      /\ UNCHANGED <<now, job, losses, overlap>>
      /\ at[w] \in Working /\ at'[w] \notin Working
      /\ broken \subseteq broken'
      /\ Between(w) /\ DocOf(w) \in Mirrored => DocOf(w) \in broken'
      /\ job[w].path \in Path
  BY DEF FileInv, TypeOk, Fail, Interrupt, Leave, Goto, DocOf, bounds, Job, Working
<1> SUFFICES ASSUME losses' = 0, NEW doc \in Mirrored \ overlap' PROVE MirrorOk(doc)'
  BY DEF MirrorInv
<1>2. MirrorOk(doc)
  BY <1>1 DEF MirrorInv
<1>3. Plain(doc)' = Plain(doc) /\ Encrypted(doc)' = Encrypted(doc)
  BY <1>1 DEF Plain, Encrypted
<1>4. CASE DocOf(w) # doc
  <2>1. ASSUME NEW v \in Proc
        PROVE  /\ DocOf(v)' = DocOf(v)
               /\ DocOf(v) = doc =>
                    /\ at'[v] \in Working <=> at[v] \in Working
                    /\ Encrypting(v)' <=> Encrypting(v)
                    /\ job'[v].data = job[v].data
                    /\ job'[v].path[2] = "json" /\ at'[v] = "replaced"
                         => job[v].path[2] = "json" /\ at[v] = "replaced"
    BY <1>1, <1>4 DEF DocOf, Encrypting
  <2> QED BY <1>1, <1>2, <1>3, <2>1, MirrorOkKept
<1>5. CASE DocOf(w) = doc
  <2>1. doc \notin broken' => Plain(doc) = Encrypted(doc)
    <3>1. SUFFICES ASSUME doc \notin broken' PROVE Plain(doc) = Encrypted(doc)
      OBVIOUS
    <3>2. job[w].path[2] = "dta" /\ at[w] \in Early
      BY <1>1, <1>5, <3>1, PathFacts DEF Between, Working, Early
    <3>3. Progress(w, doc)
      BY <1>1, <1>2, <1>5 DEF MirrorOk
    <3> QED BY <1>1, <3>1, <3>2, <3>3 DEF Progress, Encrypting
  <2>2. \A v \in Proc : at'[v] \in Working => DocOf(v)' # doc
    BY <1>1, <1>5, NobodyElse DEF DocOf
  <2> QED BY <1>2, <1>3, <2>1, <2>2 DEF MirrorOk, Behind
<1> QED BY <1>4, <1>5

LEMMA MirrorInvReplace ==
    ASSUME FileInv, SaveInv, MirrorInv, NEW w \in Proc, Replace(w)
    PROVE  MirrorInv'
<1>1. /\ \A v \in Proc \ {w} : at'[v] = at[v]
      /\ at[w] = "synced" /\ at'[w] = "replaced"
      /\ UNCHANGED <<job, losses, overlap, broken>>
      /\ \A p \in Path \ {job[w].path} : now'[p] = now[p]
      /\ now'[job[w].path] = tmp[w] /\ job[w].path \in Path /\ job[w].data \in Nat
  BY DEF FileInv, TypeOk, Replace, Goto, bounds, history, Job, Data
<1>2. tmp[w].data = job[w].data /\ at[w] \in Working /\ at[w] \in Early
  BY <1>1 DEF FileInv, WholeInv, Working, Early
<1> SUFFICES ASSUME losses' = 0, NEW doc \in Mirrored \ overlap' PROVE MirrorOk(doc)'
  BY DEF MirrorInv
<1>3. MirrorOk(doc)
  BY <1>1 DEF MirrorInv
<1>4. <<doc, "dta">> \in Path /\ <<doc, "json">> \in Path
  BY MirrorFacts
<1>5. CASE DocOf(w) # doc
  <2>1. Plain(doc)' = Plain(doc) /\ Encrypted(doc)' = Encrypted(doc)
    BY <1>1, <1>4, <1>5 DEF Plain, Encrypted, DocOf
  <2>2. ASSUME NEW v \in Proc
        PROVE  /\ DocOf(v)' = DocOf(v)
               /\ DocOf(v) = doc =>
                    /\ at'[v] \in Working <=> at[v] \in Working
                    /\ Encrypting(v)' <=> Encrypting(v)
                    /\ job'[v].data = job[v].data
                    /\ job'[v].path[2] = "json" /\ at'[v] = "replaced"
                         => job[v].path[2] = "json" /\ at[v] = "replaced"
    BY <1>1, <1>5 DEF DocOf, Encrypting
  <2> QED BY <1>1, <1>3, <2>1, <2>2, MirrorOkKept
<1>6. CASE DocOf(w) = doc
  <2>1. Progress(w, doc)
    BY <1>2, <1>3, <1>6 DEF MirrorOk
  <2>2. ~Encrypting(w)' /\ Busy(doc)'
    BY <1>1, <1>6 DEF Encrypting, Early, Busy, Working, DocOf
  <2>3. \A v \in Proc : at'[v] \in Working /\ DocOf(v)' = doc => v = w
    BY <1>1, <1>2, <1>6, NobodyElse DEF DocOf
  <2>4. CASE job[w].path = <<doc, "dta">>
    <3>1. Plain(doc)' = Plain(doc) /\ Encrypted(doc)' = job[w].data
      BY <1>1, <1>2, <1>4, <2>4 DEF Plain, Encrypted
    <3>2. Encrypted(doc) # None => Encrypted(doc) <= job[w].data
      BY <1>2, <2>1, <2>4 DEF Progress, Encrypting
    <3>3. Behind(doc)'
      <4>1. /\ Plain(doc) # None => Plain(doc) \in Nat
            /\ Encrypted(doc) # None => Encrypted(doc) \in Nat
        BY MirrorFacts
      <4>2. job[w].data # None
        BY <1>1, FileAssumption
      <4> QED BY <1>1, <1>3, <3>1, <3>2, <4>1, <4>2 DEF MirrorOk, Behind
    <3>4. Progress(w, doc)'
      BY <1>1, <2>2, <2>4, <3>1 DEF Progress
    <3> QED BY <2>2, <2>3, <3>3, <3>4 DEF MirrorOk
  <2>5. CASE job[w].path = <<doc, "json">>
    <3>1. Encrypted(doc) = job[w].data
      BY <2>1, <2>5 DEF Progress, Encrypting
    <3>2. Plain(doc)' = job[w].data /\ Encrypted(doc)' = job[w].data
      BY <1>1, <1>2, <1>4, <2>5, <3>1 DEF Plain, Encrypted
    <3>3. Behind(doc)'
      <4>1. job[w].data # None
        BY <1>1, FileAssumption
      <4> QED BY <1>1, <3>2, <4>1 DEF Behind
    <3>4. Progress(w, doc)'
      BY <1>1, <2>2, <3>2 DEF Progress
    <3> QED BY <2>2, <2>3, <3>3, <3>4 DEF MirrorOk
  <2> QED BY <1>1, <1>6, <2>4, <2>5, PathFacts DEF DocOf
<1> QED BY <1>5, <1>6

LEMMA MirrorInvInit == Init => MirrorInv
<1> SUFFICES ASSUME Init, NEW doc \in Mirrored PROVE MirrorOk(doc)
  BY DEF MirrorInv
<1>1. <<doc, "dta">> \in Path /\ <<doc, "json">> \in Path
  BY FileAssumption DEF Path
<1>2. Plain(doc) = None /\ Encrypted(doc) = None
  BY <1>1 DEF Init, NoFile, Plain, Encrypted
<1>3. \A w \in Proc : at[w] \notin Working
  BY DEF Init, Working
<1> QED BY <1>2, <1>3 DEF MirrorOk, Behind

LEMMA MirrorInvNext == FileInv /\ SaveInv /\ MirrorInv /\ [Next]_vars => MirrorInv'
<1> SUFFICES ASSUME FileInv, SaveInv, MirrorInv, [Next]_vars PROVE MirrorInv'
  OBVIOUS
<1>1. CASE UNCHANGED <<now, at, job, losses, history>>
  BY <1>1 DEF MirrorInv, MirrorOk, Behind, Busy, Progress, Plain, Encrypted, Encrypting,
     DocOf, history
<1>2. ASSUME NEW p \in Path, Settle(p) PROVE MirrorInv'
  BY <1>1, <1>2 DEF Settle, bounds
<1>3. CASE PowerLoss
  <2>1. losses' # 0
    BY <1>3, FileAssumption DEF PowerLoss, FileInv, TypeOk
  <2> QED BY <2>1 DEF MirrorInv
<1>4. CASE UNCHANGED vars
  BY <1>1, <1>4 DEF vars, files, bounds
<1> QED BY <1>2, <1>3, <1>4, MirrorInvStart, MirrorInvWrite, MirrorInvReturn,
           MirrorInvLeave, MirrorInvReplace DEF Next

\* A mirror is never ahead of its encrypted file, and says the same between
\* saves, as long as documents are saved one at a time and no power is lost
\* (save_mirrored, ensure_mirrored).
THEOREM MirrorsFollow == Spec => []MirrorFollows
<1>1. MirrorInv => MirrorFollows
  BY DEF MirrorInv, MirrorOk, Behind, MirrorFollows, Plain, Encrypted
<1>2. Spec => []SaveInv
  BY SaveInvInit, SaveInvNext, FilesWhole, PTL DEF Spec
<1> QED BY <1>1, <1>2, MirrorInvInit, MirrorInvNext, FilesWhole, PTL DEF Spec

=============================================================================
