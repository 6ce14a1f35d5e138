--------------------------- MODULE MCPhoneIdentity ---------------------------
(* Small instances of PhoneIdentity: a desktop with a fresh id per pairing, *)
(* one that keeps its id, and two identities one after the other.           *)
EXTENDS PhoneIdentity

CONSTANTS d1, d2, i1, i2, q1

MCDesktops == {d1, d2}
MCKept == {d2}
MCIds == {i1, i2}
MCRequests == {q1}
=============================================================================
