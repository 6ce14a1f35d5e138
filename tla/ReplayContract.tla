--------------------------- MODULE ReplayContract ---------------------------
(***************************************************************************)
(* What a ReplayStore promises to its caller (the trait of replay.rs, and  *)
(* consumeRequest of the phone's PairingStateStore), without files, locks  *)
(* or processes: the list of consume calls that returned Ok, which no      *)
(* failure shortens.  A message joins the list only inside its validity    *)
(* window, at a time no earlier than every acceptance before it, for the   *)
(* scope of the store, and never while a message it shares an identifier   *)
(* with is still alive.                                                    *)
(***************************************************************************)
EXTENDS Integers, Sequences

CONSTANTS Scopes, Messages, Ttl, Time

VARIABLE accepted

\* A consume call for message m, made when the clock shows now, may return Ok.
MayAccept(scope, m, now) ==
    /\ m.expires >= now
    /\ m.expires - now <= Ttl
    /\ \A i \in 1 .. Len(accepted) :
           /\ accepted[i].scope = scope
           /\ accepted[i].at <= now
           /\ accepted[i].entry.keys \cap m.keys # {}
                  => accepted[i].entry.expires < now

Accept(scope, m, now) ==
    /\ MayAccept(scope, m, now)
    /\ accepted' = Append(accepted, [scope |-> scope, entry |-> m, at |-> now])

Init == accepted = <<>>

Next == \E scope \in Scopes, m \in Messages, now \in Time : Accept(scope, m, now)

Spec == Init /\ [][Next]_accepted
=============================================================================
