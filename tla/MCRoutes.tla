------------------------------ MODULE MCRoutes ------------------------------
(* Two operations, one device and two addresses; the addresses are alike. *)
EXTENDS Routes

CONSTANTS o1, o2, d1, x1, x2

MCPlatforms == {"linux", "windows"}
MCOps == {o1, o2}
MCDevices == {d1}
MCAddresses == {x1, x2}
=============================================================================
