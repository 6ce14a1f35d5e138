-------------------------- MODULE MCUnwrapProtocol --------------------------
(* Small instances of UnwrapProtocol: one plugin run and one run of the     *)
(* unwrap command compete for one phone.                                    *)
EXTENDS UnwrapProtocol

CONSTANTS p1, p2, c1, f1, f2

MCPlugins == {p1, p2}
MCOnePlugin == {p1}
MCClis == {c1}
MCFiles == {f1, f2}
MCOneFile == {f1}
=============================================================================
