---------------------------- MODULE AtomicFiles ----------------------------
(***************************************************************************)
(* What cryptofile.atomic_write_bytes() promises whoever replaces or reads  *)
(* a file: a call replaces the whole of it in one step, or changes nothing  *)
(* if it fails; an interrupted one may have done either.  A power loss takes *)
(* a file back to a whole state it was in before.                           *)
(***************************************************************************)
CONSTANTS Proc, Path, Data, None

VARIABLES
    value,   \* what a reader of each file gets
    stable,  \* what it gets after a power loss
    call     \* each process's latest call

vars == <<value, stable, call>>

Init ==
    /\ value = [p \in Path |-> None]
    /\ stable = [p \in Path |-> None]
    /\ call \in [Proc -> [path : Path, data : Data, is : {"idle"}]]

Begin(w, p, d) ==
    /\ call[w].is \notin {"begun", "replaced"}
    /\ call' = [call EXCEPT ![w] = [path |-> p, data |-> d, is |-> "begun"]]
    /\ UNCHANGED <<value, stable>>

Replace(w) ==
    /\ call[w].is = "begun"
    /\ value' = [value EXCEPT ![call[w].path] = call[w].data]
    /\ call' = [call EXCEPT ![w].is = "replaced"]
    /\ UNCHANGED stable

\* The call comes to an end: returns, raises an OSError, is interrupted.
End(w, from, is) ==
    /\ call[w].is \in from
    /\ call' = [call EXCEPT ![w].is = is]
    /\ UNCHANGED <<value, stable>>

Return(w) == End(w, {"replaced"}, "returned")
Fail(w) == End(w, {"begun", "returned"}, "failed")
Interrupt(w) == End(w, {"begun", "replaced", "returned"}, "interrupted")

Settle(p) ==
    /\ stable' = [stable EXCEPT ![p] = value[p]]
    /\ UNCHANGED <<value, call>>

PowerLoss ==
    /\ value' = stable
    /\ call' = [w \in Proc |-> [call[w] EXCEPT !.is = "idle"]]
    /\ UNCHANGED stable

Next ==
    \/ \E w \in Proc :
        \/ \E p \in Path, d \in Data : Begin(w, p, d)
        \/ Replace(w) \/ Return(w) \/ Fail(w) \/ Interrupt(w)
    \/ \E p \in Path : Settle(p)
    \/ PowerLoss

Spec == Init /\ [][Next]_vars

=============================================================================
