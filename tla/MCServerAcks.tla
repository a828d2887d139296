---------------------------- MODULE MCServerAcks ----------------------------
(* One host "a"; its own certificate and that of a host "b", whose CN is    *)
(* fully qualified.  Host b's shares, a conflicting one, one in a's name,   *)
(* one that is not well formed; two records for one name.                   *)
EXTENDS ServerAcks

CONSTANTS a, b, net, u1, u2, x1, x2

MCCommonName == {<<a>>, <<b, net>>}
MCOwnerName == {<<a>>, <<b>>}
MCOwnName == [h \in Host |-> <<a>>]

Share(u, o, x) == [uuid |-> u, owner |-> o, name |-> "s", treshold |-> 2,
                   shares |-> 3, x |-> x, intact |-> TRUE]
MCSubmitted == {Share(u1, <<b>>, x1), Share(u1, <<b>>, x2),
                Share(u2, <<b>>, x1), Share(u1, <<a>>, x1),
                Share(u1, <<b>>, BadX)}
MCRecords == {[uuid |-> u, treshold |-> 2, shares_saved |-> 2] : u \in {u1, u2}}
             \cup {[uuid |-> u1]}
MCName == {"s"}

=============================================================================
