------------------------------- MODULE MCRemoval -------------------------------
(* Small instances of Removal: an earlier release left nothing, one pairing *)
(* or two that share a desktop state; one or two more are made.             *)
EXTENDS Removal

CONSTANTS q1, q2, q3, i1, i2, s1, s2, r1, r2, u1, u2

MCPairings == {q1, q2, q3}
MCPhones == {i1, i2}
MCStatePaths == {s1, s2}
MCReplayPaths == {r1, r2}
MCStubPaths == {u1, u2}
MCManaged == [q \in MCPairings |-> IF q = q1 THEN <<s1, r1>> ELSE <<s2, r2>>]

Old == [name |-> <<i1>>, d |-> q1, i |-> i1, fp |-> q1, state |-> s1, replay |-> r1]
Sharing == [name |-> <<i2, q1>>, d |-> q1, i |-> i2, fp |-> q2, state |-> s1, replay |-> r2]
MCInherited == {{Old}, {Old, Sharing}}
MCPlatforms == {"windows", "macos"}
=============================================================================
