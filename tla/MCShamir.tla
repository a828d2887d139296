----------------------------- MODULE MCShamir -----------------------------
(* Strings that are empty, that leave their last chunk short, that end in a *)
(* zero byte; one share more than needed, or none to spare.                 *)
EXTENDS Shamir

Of(secret, treshold, shares) ==
    [secret |-> secret, treshold |-> treshold, shares |-> shares]

MCSplit == {Of(<<>>, 3, 3), Of(<<>>, 2, 3), Of(<<1>>, 2, 2), Of(<<1, 0>>, 2, 2)}
=============================================================================
