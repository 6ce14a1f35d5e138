---------------------------- MODULE MCAgePlugin ----------------------------
(* Small instance of AgePlugin: two paired phones and a stranger, headers of *)
(* up to two stanzas that age, another tool or a splice may have made.       *)
EXTENDS AgePlugin

CONSTANTS pA, pB, pC, sA, sB, sC, e1, e2, iA, iB, iC, k1, k2

MCKeys == {pA, pB, pC, sA, sB, sC, e1, e2}
\* Under e1 the public bytes of all keys collide, under e2 they differ.
MCSelector == [e \in {e1, e2} |-> [k \in MCKeys |-> IF e = e1 THEN e1 ELSE k]]

A == PairedRecipient(pA, sA, iA)
B == PairedRecipient(pB, sB, iB)
C == PairedRecipient(pC, sC, iC)
MCConfigured == {<<>>, <<A>>, <<A, B>>, <<B, A>>, <<A, A>>}

ForA == WrapFileKey(A, e2, k1)
ForB == WrapFileKey(B, e2, k2)
MCStanzas == {
    Stanza("X25519", <<>>, Bad),
    Stanza(V2, <<Point("compressed", e2)>>, ForA.body),
    Stanza(V2, ForA.args, ForB.body),
    ForA, ForB, WrapFileKey(C, e2, k1),
    WrapFileKey(LegacyRecipient(pA), e2, k1),
    WrapFileKey(LegacyRecipient(pC), e2, k1),
    WrapTagged(pA, e2, k1), WrapTagged(pB, e2, k2), WrapTagged(pB, e1, k2),
    WrapTagged(pC, e2, k1)}
MCHeaders == UNION {[1 .. n -> MCStanzas] : n \in 0 .. 2}
=============================================================================
