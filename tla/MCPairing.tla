----------------------------- MODULE MCPairing -----------------------------
(* Two commands and two phones.  A command's own paths go by its name; the *)
(* two share the desktop state or the replay state.                        *)
EXTENDS Pairing, TLC

CONSTANTS a1, a2, h1, h2, common

MCAttempts == {a1, a2}
MCPhones == {h1, h2}
MCPaths == MCAttempts \cup {common}
MCOwn == [a \in MCAttempts |-> [desktop |-> a, replay |-> a, stub |-> a]]
MCGiven == {[a \in MCAttempts |-> [MCOwn[a] EXCEPT !.desktop = common]],
            [a \in MCAttempts |-> [MCOwn[a] EXCEPT !.replay = common]]}
MCKeys == {"sign", "select"} \X MCAttempts \cup {"identity", "phone"} \X MCPhones
          \cup {<<"one-time", i>> : i \in 0..2}
MCSelector == [e \in MCKeys |-> [k \in MCKeys |-> <<e, k>>]]
MCSymmetry == Permutations(MCAttempts) \cup Permutations(MCPhones)
=============================================================================
