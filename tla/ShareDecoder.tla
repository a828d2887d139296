---------------------------- MODULE ShareDecoder ----------------------------
(***************************************************************************)
(* A participant's share, as shamir.ShamirSecret.iterate_participants()     *)
(* yields it, and what the decoder of the same class does with shares:      *)
(* populate_decoder() accepts or refuses one, decode() combines the         *)
(* accepted ones.  The field arithmetic is not here: a column of points is  *)
(* its x-coordinate and whether its y values still lie on the polynomials   *)
(* the owner drew ("intact").  secret_hash, creation_date and the number of *)
(* points are drawn together with the uuid and stand behind it.             *)
(***************************************************************************)
EXTENDS Naturals, FiniteSets

CONSTANTS
    UUID,        \* identifiers of splits (uuid4 of ShamirSecret.__init__)
    Name,        \* secret names
    OwnerName,   \* the typed names of hosts, as sequences of DNS labels
    XCoord,      \* x-coordinates in 1 .. PRIME - 1
    BadX         \* stands for an x that is not an integer of that range

ASSUME BadXOutOfRange == BadX \notin XCoord

Payload == [uuid : UUID, owner : OwnerName, name : Name,
            treshold : Nat, shares : Nat,
            x : XCoord \cup {BadX}, intact : BOOLEAN]

\* The checks populate_decoder() makes of a share on its own.
WellFormed(d) ==
    /\ d.treshold >= 2 /\ d.shares >= 2 /\ d.treshold <= d.shares
    /\ d.x \in XCoord

\* The checks against what the decoder was built with (first share) or has
\* accepted (later shares); later shares are not checked for their owner.
Consistent(accepted, d, name, owner) ==
    IF accepted = {}
    THEN d.name = name /\ d.owner = owner
    ELSE \A e \in accepted :
            /\ e.uuid = d.uuid /\ e.name = d.name
            /\ e.shares = d.shares /\ e.treshold = d.treshold
            /\ e.x # d.x

\* populate_decoder(): the shares held afterwards; a refused share
\* (InvalidShareError, which every caller skips) leaves them as they were.
PopulateDecoder(accepted, d, name, owner) ==
    IF WellFormed(d) /\ Consistent(accepted, d, name, owner)
    THEN accepted \cup {d}
    ELSE accepted

\* Bugs: one share too many, or too few, is waited for.
BugReadyLate(accepted) == \E d \in accepted : Cardinality(accepted) > d.treshold
BugReadyEarly(accepted) == \E d \in accepted : Cardinality(accepted) >= d.treshold - 1

\* ready_to_decode is set by the share that reaches the treshold it carries.
ReadyToDecode(accepted) ==
    \E d \in accepted : Cardinality(accepted) >= d.treshold

\* decode() interpolates through every accepted share and compares the hash.
Decodes(accepted) == \A d \in accepted : d.intact

=============================================================================
