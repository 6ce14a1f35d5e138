-------------------------- MODULE AgePluginProofs --------------------------
(***************************************************************************)
(* Whatever a header holds, whatever has become of the pairing files and   *)
(* however the exchange ends: age is told of a miss only when there is one,*)
(* a phone is asked at most once about a file, and only about a stanza     *)
(* that is certain to be its own.  For any set of keys, identities and     *)
(* headers.                                                                *)
(***************************************************************************)
EXTENDS AgePlugin, WellFoundedInduction, TLAPS

\* Where a file is not settled yet, and has room for its result.
UnderWay == {"selecting", "selected", "asked"}

Typed ==
    /\ identities \in Configured
    /\ file \in Headers \cup {<<>>}
    /\ stage \in UnderWay \cup {"settled", "cancelled", "aborted"}
    /\ candidates \subseteq DOMAIN file
    /\ tagged = None \/ /\ tagged.identity \in DOMAIN identities
                        /\ tagged.stanza \in candidates
    /\ selected = None \/ /\ selected.identity \in DOMAIN identities
                          /\ selected.stanza \in candidates
    /\ outcome.kind \in {"absent", "errors", "key"}
    /\ results \in Seq({"absent", "errors", "key"})
    /\ Len(results) <= MaxFiles
    /\ stage \in UnderWay => Len(results) < MaxFiles

\* What the header of a file under way is known to be, and which of its stanzas
\* are left: the one that answers to a public match, or all private ones.
Sorted ==
    stage \in UnderWay =>
        /\ file \in Headers
        /\ Malformed(file) = {}
        /\ \/ /\ tagged = None
              /\ Owned(file) = {}
              /\ candidates = PhoneStanzas(file) \ TagStanzas(file)
           \/ /\ tagged # None
              /\ ~Ambiguous(file)
              /\ tagged.stanza \in TagStanzas(file)
              /\ tagged.identity \in TagOwners(file, tagged.stanza)
              /\ candidates = {tagged.stanza}

\* What was selected: a stanza whose selector names the identity, or one without
\* a name that only this identity is left for.
Chosen ==
    stage \in {"selected", "asked"} =>
        /\ selected.identity \in DOMAIN identities
        /\ selected.stanza \in candidates
        /\ \/ selected.stanza \in MatchesOf(selected.identity)
           \/ /\ file[selected.stanza].tag \in {V1, Tag}
              /\ Considered = {selected.identity}

\* A file for which a phone was asked has its result, or will be the next to.
Asked ==
    /\ contacts \in Seq(Nat)
    /\ \A i, j \in DOMAIN contacts : i < j => contacts[i] < contacts[j]
    /\ stage # "aborted" =>
        \A i \in DOMAIN contacts :
            contacts[i] <= IF stage = "asked" THEN Len(results) + 1 ELSE Len(results)

IInv == Typed /\ Sorted /\ Chosen /\ Asked /\ MissIsReal

-----------------------------------------------------------------------------
(* The data. *)

LEMMA MinIsLeast ==
    ASSUME NEW S \in SUBSET Nat, S # {}
    PROVE  Min(S) \in S /\ \A y \in S : Min(S) <= y
  <1> DEFINE less == {ss \in Nat \X Nat : ss[1] < ss[2]}
  <1>1. IsWellFoundedOn(less, Nat)
      BY NatLessThanWellFounded DEF OpToRel
  <1>2. PICK x \in S : \A y \in S : <<y, x>> \notin less
      BY <1>1, WFMin
  <1>3. ASSUME NEW y \in S, ~(x <= y) PROVE FALSE
    <2>1. x \in Nat /\ y \in Nat /\ y < x
        BY <1>3
    <2>2. <<y, x>> \in less
        BY <2>1
    <2> QED
        BY <1>2, <2>2
  <1> QED
      BY <1>3 DEF Min

LEMMA Lists ==
    /\ \A list \in Configured :
           /\ DOMAIN list \subseteq Nat \ {0}
           /\ \A n \in DOMAIN list : list[n].id # Bad
    /\ \A h \in Headers \cup {<<>>} : DOMAIN h \subseteq Nat \ {0}
  <1>1. \A list \in Configured :
            /\ DOMAIN list \subseteq Nat \ {0}
            /\ \A n \in DOMAIN list : list[n] \in PairedRecipients
      BY AgePluginAssumption
  <1>2. \A h \in Headers : DOMAIN h \subseteq Nat \ {0}
      BY AgePluginAssumption
  <1>3. \A r \in PairedRecipients : r.id # Bad
      BY AgePluginAssumption DEF PairedRecipients
  <1> QED
      BY <1>1, <1>2, <1>3

\* Only phone stanzas have an ephemeral key, and a body.
LEMMA ValidOnes ==
    ASSUME NEW s, ValidStanza(s)
    PROVE  /\ s.body # Bad /\ s.tag \in {V1, V2, Tag}
           /\ s.tag = V2 => s.args[2] # Bad
  BY DEF ValidStanza, Ephemeral, V1, V2, Tag

LEMMA UnwrappedIsValid ==
    ASSUME NEW phone, NEW s, UnwrapFileKey(phone, s) # Bad
    PROVE  ValidStanza(s) /\ (s.tag = Tag => TagMatches(phone, s))
  BY DEF UnwrapFileKey, ValidStanza

LEMMA Tags == V1 # V2 /\ V1 # Tag /\ V2 # Tag
  BY DEF V1, V2, Tag

\* What age wrapped for a pairing is found by its selector.
LEMMA WrappedMatches ==
    ASSUME NEW r, NEW e, NEW key, NEW s, s = WrapPaired(r, e, key), ValidStanza(s)
    PROVE  Matches(r, r.selection, s)
  <1> DEFINE body == FileKeyBox(V2, e, Agree(e, r.phone), r.phone, key)
             box == SelectionBox(e, Agree(e, r.selection), r, body)
             dk == DeriveKey(Agree(r.selection, e), e, r.selection, <<V2, "selection">>)
  <1>1. /\ s.tag = V2 /\ s.body = body /\ s.args[2] = box
        /\ s.args[1] = Point("compressed", e)
      BY DEF WrapPaired, Stanza
  <1>2. Ephemeral(s) = e
      BY <1>1, Tags DEF Ephemeral, ValidStanza, ReadPoint, Point
  <1>3. Agree(e, r.selection) = Agree(r.selection, e)
      BY DEF Agree
  <1>4. box.key = dk /\ box.aad = SelectionData(e, r, body) /\ box.plain = r.id
      BY <1>3 DEF SelectionBox, Seal
  <1>5. box # Bad
      BY <1>1, ValidOnes
  <1>6. Open(dk, SelectionData(e, r, body), box) = r.id
      BY <1>4, <1>5 DEF Open
  <1> QED
      BY <1>1, <1>2, <1>6 DEF Matches

\* A selector that opens stands beside the body it was made for, which the phone
\* it names can open.
LEMMA MatchedUnwraps ==
    ASSUME NEW h \in Headers, NEW i \in DOMAIN h, NEW r, r.id # Bad,
           ValidStanza(h[i]), Matches(r, r.selection, h[i])
    PROVE  UnwrapFileKey(r.phone, h[i]) # Bad
  <1> DEFINE s == h[i]
             e == Ephemeral(s)
  <1>1. PICK q \in PairedRecipients, f \in DOMAIN Selector, k \in FileKeys :
            s.args[2] = WrapPaired(q, f, k).args[2]
      BY SelectorAssumption DEF Matches
  <1> DEFINE body == FileKeyBox(V2, f, Agree(f, q.phone), q.phone, k)
  <1>2. s.args[2].aad = SelectionData(f, q, body)
      BY <1>1 DEF WrapPaired, Stanza, SelectionBox, Seal
  <1>3. s.tag = V2 /\ s.args[2].aad = SelectionData(e, r, s.body)
      BY DEF Matches, Open
  <1>4. e = f /\ r.phone = q.phone /\ s.body = body
      BY <1>2, <1>3 DEF SelectionData
  <1>5. /\ body.key = DeriveKey(Agree(r.phone, e), e, r.phone, <<V2, "file-key">>)
        /\ body.aad = AssociatedData(V2, e, r.phone) /\ body.plain = k
      BY <1>4 DEF FileKeyBox, Seal, Agree
  <1>6. e # Bad /\ s.body # Bad
      BY ValidOnes DEF ValidStanza
  <1>7. UnwrapFileKey(r.phone, s) = k
      BY <1>3, <1>4, <1>5, <1>6, Tags DEF UnwrapFileKey, Open
  <1> QED
      BY <1>7, AgePluginAssumption

-----------------------------------------------------------------------------
LEMMA InitInv == Init => IInv
  <1> SUFFICES ASSUME Init PROVE IInv
      OBVIOUS
  <1>1. Typed
      BY AgePluginAssumption DEF Init, Typed, UnderWay, Absent, Result
  <1>2. Sorted /\ Chosen /\ Asked
      BY DEF Init, Sorted, Chosen, Asked, UnderWay
  <1>3. MissIsReal
      BY DEF Init, MissIsReal
  <1> QED
      BY <1>1, <1>2, <1>3 DEF IInv

-----------------------------------------------------------------------------
(* A file is taken. *)

LEMMA Taken ==
    ASSUME IInv, NEW h \in Headers, Take(h)
    PROVE  /\ file' = h /\ file' \in Headers /\ selected' = None
           /\ identities' = identities /\ contacts' = contacts
           /\ results \in Seq({"absent", "errors", "key"}) /\ Len(results) < MaxFiles
           /\ \A i \in DOMAIN contacts : contacts[i] <= Len(results)
  BY AgePluginAssumption DEF IInv, Typed, Asked, Take

LEMMA TakeUnusableInv ==
    ASSUME IInv, NEW h \in Headers, TakeUnusable(h) PROVE IInv'
  <1>1. Take(h) /\ stage' = "settled" /\ outcome' = Errors
        /\ results' = Append(results, "errors")
      BY DEF TakeUnusable, Settled, Errors, Result
  <1>2. Typed'
      BY <1>1, Taken, AgePluginAssumption
      DEF IInv, Typed, TakeUnusable, UnderWay, Errors, Result
  <1>3. Sorted' /\ Chosen'
      BY <1>1 DEF Sorted, Chosen, UnderWay
  <1>4. Asked'
      BY <1>1, Taken DEF IInv, Asked
  <1>5. MissIsReal'
      BY <1>1 DEF MissIsReal, Errors, Absent, Result
  <1> QED
      BY <1>2, <1>3, <1>4, <1>5 DEF IInv

\* No stanza of a foreign header was wrapped for an identity.
LEMMA ForeignIsMiss ==
    ASSUME NEW h, Owned(h) = {}, NEW i \in DOMAIN h, NEW n \in DOMAIN identities,
           i \in PhoneStanzas(h) => i \in TagStanzas(h),
           NEW key, key = UnwrapFileKey(identities[n].phone, h[i]), key # Bad
    PROVE  FALSE
  <1>1. ValidStanza(h[i]) /\ (h[i].tag = Tag => TagMatches(identities[n].phone, h[i]))
      BY UnwrappedIsValid
  <1>2. i \in TagStanzas(h)
      BY <1>1, ValidOnes DEF PhoneStanzas
  <1>3. n \in TagOwners(h, i)
      BY <1>1, <1>2 DEF TagStanzas, TagOwners
  <1> QED
      BY <1>2, <1>3 DEF Owned

LEMMA TakeForeignInv ==
    ASSUME IInv, NEW h \in Headers, TakeForeign(h) PROVE IInv'
  <1>1. Take(h) /\ stage' = "settled" /\ outcome' = Absent
        /\ results' = Append(results, "absent")
      BY DEF TakeForeign, Settled, Absent, Result
  <1>2. Typed'
      BY <1>1, Taken, AgePluginAssumption
      DEF IInv, Typed, TakeForeign, UnderWay, Absent, Result
  <1>3. Sorted' /\ Chosen'
      BY <1>1 DEF Sorted, Chosen, UnderWay
  <1>4. Asked'
      BY <1>1, Taken DEF IInv, Asked
  <1>5. MissIsReal'
    <2>1. ASSUME NEW n \in DOMAIN identities, NEW i \in DOMAIN h
          PROVE  UnwrapFileKey(identities[n].phone, h[i]) = Bad
        BY <2>1, ForeignIsMiss DEF TakeForeign
    <2> QED
        BY <2>1, <1>1, Taken DEF MissIsReal
  <1> QED
      BY <1>2, <1>3, <1>4, <1>5 DEF IInv

LEMMA TakeTaggedInv ==
    ASSUME IInv, NEW h \in Headers, TakeTagged(h) PROVE IInv'
  <1> DEFINE i == Min(Owned(h))
             n == Min(TagOwners(h, i))
  <1>1. i \in Owned(h)
    <2>1. Owned(h) \in SUBSET Nat
        BY Lists DEF Owned, TagStanzas
    <2> QED
        BY <2>1, MinIsLeast DEF TakeTagged
  <1>2. n \in TagOwners(h, i)
    <2>1. TagOwners(h, i) \in SUBSET Nat
        BY Lists DEF IInv, Typed, TagOwners
    <2> QED
        BY <2>1, <1>1, MinIsLeast DEF Owned
  <1>3. /\ tagged' = [identity |-> n, stanza |-> i] /\ candidates' = {i}
        /\ stage' = "selecting" /\ outcome' = outcome /\ results' = results
        /\ Take(h) /\ Malformed(h) = {} /\ ~Ambiguous(h)
      BY DEF TakeTagged
  <1>4. i \in TagStanzas(h) /\ i \in DOMAIN h /\ n \in DOMAIN identities
      BY <1>1, <1>2 DEF Owned, TagStanzas, TagOwners
  <1>5. tagged' # None
      BY <1>3, <1>4, Lists DEF None
  <1>6. Typed'
      BY <1>3, <1>4, Taken DEF IInv, Typed, UnderWay
  <1>7. Sorted'
      BY <1>2, <1>3, <1>4, <1>5, Taken
      DEF Sorted, Malformed, Ambiguous, PhoneStanzas, TagStanzas, TagOwners
  <1>8. Chosen' /\ Asked' /\ MissIsReal'
      BY <1>3, Taken DEF IInv, Chosen, Asked, MissIsReal
  <1> QED
      BY <1>6, <1>7, <1>8 DEF IInv

LEMMA TakePrivateInv ==
    ASSUME IInv, NEW h \in Headers, TakePrivate(h) PROVE IInv'
  <1>1. /\ tagged' = None /\ candidates' = PhoneStanzas(h) \ TagStanzas(h)
        /\ stage' = "selecting" /\ outcome' = outcome /\ results' = results
        /\ Take(h) /\ Malformed(h) = {} /\ Owned(h) = {}
      BY DEF TakePrivate
  <1>2. Typed'
      BY <1>1, Taken DEF IInv, Typed, UnderWay, PhoneStanzas
  <1>3. Sorted'
      BY <1>1, Taken DEF Sorted, Malformed, Owned, PhoneStanzas, TagStanzas, TagOwners
  <1>4. Chosen' /\ Asked' /\ MissIsReal'
      BY <1>1, Taken DEF IInv, Chosen, Asked, MissIsReal
  <1> QED
      BY <1>2, <1>3, <1>4 DEF IInv

-----------------------------------------------------------------------------
(* A file is settled, or given up. *)

\* A result, and nothing else, is noted.
LEMMA SettledInv ==
    ASSUME IInv, stage \in UnderWay, NEW result,
           result.kind \in {"absent", "errors", "key"}, Settled(result),
           UNCHANGED <<identities, file, choice, contacts>>
    PROVE  Typed' /\ Sorted' /\ Chosen' /\ Asked'
  <1>1. stage' = "settled" /\ outcome' = result /\ results' = Append(results, result.kind)
      BY DEF Settled
  <1>2. Typed'
      BY <1>1, AgePluginAssumption DEF IInv, Typed, choice, UnderWay
  <1>3. Sorted' /\ Chosen'
      BY <1>1 DEF Sorted, Chosen, UnderWay
  <1>4. Asked'
      BY <1>1, AgePluginAssumption DEF IInv, Typed, Asked, UnderWay
  <1> QED
      BY <1>2, <1>3, <1>4

LEMMA ErrorsInv ==
    ASSUME IInv, stage \in UnderWay, Settled(Errors),
           UNCHANGED <<identities, file, choice, contacts>>
    PROVE  IInv'
  <1>1. Typed' /\ Sorted' /\ Chosen' /\ Asked'
      BY SettledInv DEF Errors, Result
  <1>2. MissIsReal'
      BY DEF MissIsReal, Settled, Errors, Absent, Result
  <1> QED
      BY <1>1, <1>2 DEF IInv

LEMMA AnsweredInv == ASSUME IInv, Answered PROVE IInv'
  <1> DEFINE key == UnwrapFileKey(identities[selected.identity].phone,
                                  file[selected.stanza])
  <1>1. /\ stage = "asked" /\ Settled(Result("key", key))
        /\ UNCHANGED <<identities, file, choice, contacts>>
      BY DEF Answered
  <1>2. Typed' /\ Sorted' /\ Chosen' /\ Asked'
      BY <1>1, SettledInv DEF UnderWay, Result
  <1>3. MissIsReal'
      BY <1>1 DEF MissIsReal, Settled, Absent, Result
  <1> QED
      BY <1>2, <1>3 DEF IInv

LEMMA NoneSelectedInv ==
    ASSUME IInv, NEW state \in States, NoneSelected(state) PROVE IInv'
  <1>1. CASE \E n \in DOMAIN identities : state[n] = "closed"
      BY <1>1, ErrorsInv DEF NoneSelected, UnderWay
  <1>2. CASE ~\E n \in DOMAIN identities : state[n] = "closed"
    <2>1. /\ stage = "selecting" /\ Settled(Absent)
          /\ UNCHANGED <<identities, file, choice, contacts>>
        BY <1>2 DEF NoneSelected
    <2>2. Typed' /\ Sorted' /\ Chosen' /\ Asked'
        BY <2>1, SettledInv DEF UnderWay, Absent, Result
    <2>3. \A n \in DOMAIN identities : state[n] = "own" /\ MatchesOf(n) = {}
        BY <1>2 DEF NoneSelected, States, Stops
    <2>4. \A i \in candidates : file[i].tag \notin {V1, Tag}
        BY DEF NoneSelected, Anonymous
    <2>5. Owned(file) = {} /\ candidates = PhoneStanzas(file) \ TagStanzas(file)
        BY <2>1, <2>4 DEF IInv, Sorted, TagStanzas, UnderWay
    <2>6. ASSUME NEW n \in DOMAIN identities, NEW i \in DOMAIN file, NEW e,
                 NEW key, key = UnwrapFileKey(identities[n].phone, file[i]), key # Bad
          PROVE  /\ file[i] # WrapPaired(identities[n], e, key)
                 /\ file[i] # WrapLegacy(identities[n], e, key)
                 /\ file[i] # WrapTagged(identities[n].phone, e, key)
      <3>1. i \in candidates
          BY <2>5, <2>6, ForeignIsMiss
      <3>2. file[i].tag \notin {V1, Tag}
          BY <3>1, <2>4
      <3>3. /\ file[i] # WrapLegacy(identities[n], e, key)
            /\ file[i] # WrapTagged(identities[n].phone, e, key)
          BY <3>2 DEF WrapLegacy, WrapTagged, Stanza
      <3>4. ~Matches(identities[n], identities[n].selection, file[i])
          BY <3>1, <2>3 DEF MatchesOf
      <3> QED
          BY <3>3, <3>4, <2>6, UnwrappedIsValid, WrappedMatches
    <2>7. MissIsReal'
        BY <2>1, <2>6 DEF MissIsReal
    <2> QED
        BY <2>2, <2>7 DEF IInv
  <1> QED
      BY <1>1, <1>2

LEMMA CancelledInv == ASSUME IInv, Cancelled PROVE IInv'
  <1>1. /\ stage = "asked" /\ stage' = "cancelled" /\ outcome' = Errors
        /\ results' = Append(results, "errors")
        /\ UNCHANGED <<identities, file, choice, contacts>>
      BY DEF Cancelled
  <1>2. Typed'
      BY <1>1, AgePluginAssumption DEF IInv, Typed, choice, UnderWay, Errors, Result
  <1>3. Sorted' /\ Chosen' /\ MissIsReal'
      BY <1>1 DEF Sorted, Chosen, MissIsReal, UnderWay
  <1>4. Asked'
      BY <1>1, AgePluginAssumption DEF IInv, Typed, Asked, UnderWay
  <1> QED
      BY <1>2, <1>3, <1>4 DEF IInv

LEMMA AbortedInv == ASSUME IInv, Aborted PROVE IInv'
  <1>1. /\ stage' = "aborted" /\ outcome' = Absent /\ results' = <<>>
        /\ UNCHANGED <<identities, file, choice, contacts>>
      BY DEF Aborted
  <1>2. Typed'
      BY <1>1, AgePluginAssumption DEF IInv, Typed, choice, UnderWay, Absent, Result
  <1>3. Sorted' /\ Chosen' /\ MissIsReal' /\ Asked'
      BY <1>1 DEF IInv, Sorted, Chosen, MissIsReal, UnderWay, Asked
  <1> QED
      BY <1>2, <1>3 DEF IInv

-----------------------------------------------------------------------------
(* A stanza is selected, and put before a phone. *)

LEMMA SelectedInv ==
    ASSUME IInv, stage = "selecting", stage' = "selected",
           NEW n \in DOMAIN identities, NEW i \in candidates,
           selected' = [identity |-> n, stanza |-> i, own |-> selected'.own],
           i \in MatchesOf(n) \/ (file[i].tag \in {V1, Tag} /\ Considered = {n}),
           UNCHANGED <<identities, file, candidates, tagged, outcome, results, contacts>>
    PROVE  IInv'
  <1>1. selected'.identity = n /\ selected'.stanza = i
      OBVIOUS
  <1>2. Typed'
      BY <1>1 DEF IInv, Typed, UnderWay
  <1>3. Sorted'
      BY DEF IInv, Sorted, UnderWay, Malformed, Ambiguous, Owned, PhoneStanzas,
             TagStanzas, TagOwners
  <1>4. Chosen'
      BY <1>1 DEF Chosen, MatchesOf, Considered
  <1>5. Asked' /\ MissIsReal'
      BY DEF IInv, Asked, MissIsReal
  <1> QED
      BY <1>2, <1>3, <1>4, <1>5 DEF IInv

LEMMA SelectAnonymousInv ==
    ASSUME IInv, NEW state \in States, SelectAnonymous(state) PROVE IInv'
  <1>1. PICK n \in Considered, i \in candidates :
            /\ Considered = {n}
            /\ candidates = {i}
            /\ selected' = [identity |-> n, stanza |-> i, own |-> state[n] = "own"]
      BY DEF SelectAnonymous
  <1>2. file[i].tag \in {V1, Tag}
      BY <1>1 DEF SelectAnonymous, Anonymous
  <1>3. n \in DOMAIN identities
      BY DEF IInv, Typed, Considered
  <1>4. selected' = [identity |-> n, stanza |-> i, own |-> selected'.own]
      BY <1>1
  <1> QED
      BY <1>1, <1>2, <1>3, <1>4, SelectedInv DEF SelectAnonymous

LEMMA SelectPrivateInv ==
    ASSUME IInv, NEW state \in States, SelectPrivate(state) PROVE IInv'
  <1> DEFINE n == Min(Stops(state))
             i == Min(MatchesOf(n))
  <1>1. n \in Stops(state)
    <2>1. Stops(state) \in SUBSET Nat
        BY Lists DEF IInv, Typed, Stops
    <2> QED
        BY <2>1, MinIsLeast DEF SelectPrivate
  <1>2. CASE state[n] = "foreign"
      BY <1>2, ErrorsInv DEF SelectPrivate, UnderWay, choice
  <1>3. CASE state[n] # "foreign"
    <2>1. n \in DOMAIN identities /\ MatchesOf(n) # {}
        BY <1>1, <1>3 DEF Stops
    <2>2. MatchesOf(n) \in SUBSET Nat
        BY Lists DEF IInv, Typed, MatchesOf
    <2>3. i \in MatchesOf(n) /\ i \in candidates
        BY <2>1, <2>2, MinIsLeast DEF MatchesOf
    <2>4. /\ stage = "selecting" /\ stage' = "selected"
          /\ selected' = [identity |-> n, stanza |-> i, own |-> TRUE]
          /\ UNCHANGED <<identities, file, candidates, tagged, outcome, results, contacts>>
        BY <1>3 DEF SelectPrivate
    <2>5. selected' = [identity |-> n, stanza |-> i, own |-> selected'.own]
        BY <2>4
    <2> QED
        BY <2>1, <2>3, <2>4, <2>5, SelectedInv
  <1> QED
      BY <1>2, <1>3

LEMMA AskInv == ASSUME IInv, Ask PROVE IInv'
  <1>1. /\ stage = "selected" /\ stage' = "asked"
        /\ contacts' = Append(contacts, Len(results) + 1)
        /\ UNCHANGED <<identities, file, choice, outcome, results>>
      BY DEF Ask
  <1>2. Typed'
      BY <1>1 DEF IInv, Typed, choice, UnderWay
  <1>3. Sorted'
      BY <1>1 DEF IInv, Sorted, UnderWay, choice, Malformed, Ambiguous, Owned, PhoneStanzas,
                  TagStanzas, TagOwners
  <1>4. Chosen' /\ MissIsReal'
      BY <1>1 DEF IInv, Chosen, MissIsReal, choice, MatchesOf, Considered
  <1>5. Asked'
      BY <1>1 DEF IInv, Typed, Asked
  <1> QED
      BY <1>2, <1>3, <1>4, <1>5 DEF IInv

-----------------------------------------------------------------------------
LEMMA StepInv == IInv /\ [Next]_vars => IInv'
  <1> SUFFICES ASSUME IInv, [Next]_vars PROVE IInv'
      OBVIOUS
  <1>1. ASSUME NEW h \in Headers,
               TakeUnusable(h) \/ TakeForeign(h) \/ TakeTagged(h) \/ TakePrivate(h)
        PROVE  IInv'
      BY <1>1, TakeUnusableInv, TakeForeignInv, TakeTaggedInv, TakePrivateInv
  <1>2. ASSUME NEW state \in States, SelectionRefused(state) PROVE IInv'
      BY <1>2, ErrorsInv DEF SelectionRefused, UnderWay
  <1>3. ASSUME NEW state \in States,
               SelectAnonymous(state) \/ SelectPrivate(state) \/ NoneSelected(state)
        PROVE  IInv'
      BY <1>3, SelectAnonymousInv, SelectPrivateInv, NoneSelectedInv
  <1>4. CASE RootFails \/ NotAsked \/ Failed
      BY <1>4, ErrorsInv DEF RootFails, NotAsked, Failed, UnderWay
  <1>5. CASE Ask \/ Answered \/ Cancelled \/ Aborted
      BY <1>5, AskInv, AnsweredInv, CancelledInv, AbortedInv
  <1>6. CASE UNCHANGED vars
      BY <1>6 DEF vars, choice, IInv, Typed, Sorted, Chosen, Asked, MissIsReal, MatchesOf,
                  Considered, Malformed, Ambiguous, Owned, PhoneStanzas, TagStanzas, TagOwners
  <1> QED
      BY <1>1, <1>2, <1>3, <1>4, <1>5, <1>6 DEF Next

-----------------------------------------------------------------------------
(* Theorems. *)

\* The inductive invariant holds in every reachable state.
THEOREM Invariance == Spec => []IInv
  BY InitInv, StepInv, PTL DEF Spec

\* Every variable has its type.
THEOREM TypeCorrect == Spec => []TypeOK
  <1>1. IInv => TypeOK
      BY DEF IInv, Typed, TypeOK, UnderWay
  <1> QED
      BY <1>1, Invariance, PTL

\* A file of which age is told that it is not for the configured identities has
\* no stanza that was wrapped for one of them (select_candidate).
THEOREM MissesAreReal == Spec => []MissIsReal
  <1>1. IInv => MissIsReal
      BY DEF IInv
  <1> QED
      BY <1>1, Invariance, PTL

\* A phone is asked about a v2 stanza only if it can open it, because the
\* selector that named it is bound to the body beside it (matches_stanza_v2).
THEOREM SplicesWakeNoPhone == Spec => []AskedIsOpenable
  <1>1. IInv => AskedIsOpenable
    <2> SUFFICES ASSUME IInv, stage = "asked", file[selected.stanza].tag = V2
                 PROVE  UnwrapFileKey(identities[selected.identity].phone,
                                      file[selected.stanza]) # Bad
        BY DEF AskedIsOpenable
    <2> DEFINE n == selected.identity
               i == selected.stanza
               r == identities[n]
    <2>1. n \in DOMAIN identities /\ i \in MatchesOf(n) /\ i \in DOMAIN file
        BY Tags DEF IInv, Typed, Chosen
    <2>2. Matches(r, r.selection, file[i])
        BY <2>1 DEF MatchesOf
    <2>3. file \in Headers /\ ValidStanza(file[i])
        BY <2>1 DEF IInv, Sorted, UnderWay, Malformed, PhoneStanzas
    <2>4. r.id # Bad
        BY <2>1, Lists DEF IInv, Typed
    <2> QED
        BY <2>1, <2>2, <2>3, <2>4, MatchedUnwraps
  <1> QED
      BY <1>1, Invariance, PTL

\* A stanza without a name is put before a phone only if all the identities it
\* could be for have that phone's key (select_candidate).
THEOREM OwnersAreCertain == Spec => []CertainOwner
  <1>1. IInv => CertainOwner
    <2> SUFFICES ASSUME IInv, stage = "asked", file[selected.stanza].tag # V2,
                        NEW n \in DOMAIN identities,
                        \/ file[selected.stanza].tag = V1
                        \/ TagMatches(identities[n].phone, file[selected.stanza])
                 PROVE  identities[n].phone = identities[selected.identity].phone
        BY DEF CertainOwner
    <2> DEFINE i == selected.stanza
    <2>1. /\ i \in candidates /\ Considered = {selected.identity}
          /\ selected.identity \in DOMAIN identities
        BY DEF IInv, Chosen, MatchesOf, Matches
    <2>2. CASE tagged = None
        BY <2>1, <2>2 DEF Considered
    <2>3. CASE tagged # None
      <3>1. /\ ~Ambiguous(file) /\ i \in TagStanzas(file)
            /\ selected.identity \in TagOwners(file, i)
          BY <2>1, <2>3 DEF IInv, Sorted, UnderWay, Considered
      <3>2. n \in TagOwners(file, i)
          BY <3>1, Tags DEF TagStanzas, TagOwners
      <3> QED
          BY <3>1, <3>2 DEF Ambiguous
    <2> QED
        BY <2>2, <2>3
  <1> QED
      BY <1>1, Invariance, PTL

\* No file is put before a phone twice, and none once the user has cancelled.
THEOREM FilesAreAskedOnce == Spec => []AskedOnce
  <1>1. IInv => AskedOnce
      BY DEF IInv, Asked, AskedOnce
  <1> QED
      BY <1>1, Invariance, PTL
=============================================================================
