------------------------- MODULE MCDesktopLifecycle -------------------------
(* Small instances of DesktopLifecycle: two pairings set up and removed one *)
(* after the other, while plugin runs come and go.                          *)
EXTENDS DesktopLifecycle

CONSTANTS d1, d2, u1, u2

MCPairings == {d1, d2}
MCRuns == {u1}
=============================================================================
