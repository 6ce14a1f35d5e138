---------------------------- MODULE MCReplayStore ----------------------------
(* Small instances of ReplayStore: the phone's request store, where two     *)
(* messages may share an id or a nonce, and the desktop's response store.   *)
EXTENDS ReplayPlatforms

CONSTANTS p1, p2, phoneScope, otherScope

MCProcs == {p1, p2}
MCScopes == {phoneScope, otherScope}

MCRequests ==
    {RequestEntry(1, 1, 1), RequestEntry(1, 2, 2),
     RequestEntry(2, 2, 3), RequestEntry(3, 3, 2)}

MCResponses == {ResponseEntry(1, 1), ResponseEntry(2, 2), ResponseEntry(3, 3)}

MCKeys == UNION {m.keys : m \in MCRequests \cup MCResponses}
=============================================================================
