----------------------------- MODULE AgePlugin -----------------------------
(***************************************************************************)
(* One run of age-plugin-phone as age's identity-v1 plugin (crates/desktop *)
(* age_identity.rs): age hands over the identities it was given and the    *)
(* stanzas of each file, and the plugin decides which stanza, if any, to   *)
(* put before which phone.  A file ends with its key, with errors, or with *)
(* no result at all, which age takes for "not for these identities".       *)
(*                                                                         *)
(* The headers are those age writes with WrapFileKey, those of other tools *)
(* and those somebody has spliced; the pairing files behind an identity    *)
(* may be missing, unreadable or another pairing's; the exchange with the  *)
(* phone may end in every way ExchangeError knows.  The run is sequential: *)
(* what varies is the data and the failures, at every step of every file.  *)
(***************************************************************************)
EXTENDS Stanzas, Integers, FiniteSets, FiniteSetsExt

CONSTANTS
    Ids,         \* the ids of phone identities
    FileKeys,    \* the file keys age may wrap
    Configured,  \* the lists of paired recipients a user may configure
    Headers,     \* the stanza lists age may hand over
    MaxFiles     \* bound on the files of one run

VARIABLES
    identities,  \* the identities of this run, in the order age named them
    file,        \* the stanzas of the file at hand
    stage,       \* how far that file is
    candidates,  \* the positions of its phone stanzas still in the running
    tagged,      \* the identity and position of the public match, if any
    selected,    \* what is to be put before which phone
    outcome,     \* the result of the file at hand
    results,     \* the kinds of result of the files settled, in order
    contacts     \* history: the files for which a phone was asked, in order

choice == <<candidates, tagged, selected>>
vars == <<identities, file, stage, choice, outcome, results, contacts>>

None == [identity |-> 0, stanza |-> 0]
Result(kind, key) == [kind |-> kind, key |-> key]
Absent == Result("absent", Bad)
Errors == Result("errors", Bad)

PairedRecipients == [version : {2}, phone : Keys, selection : Keys, id : Ids]

ASSUME AgePluginAssumption ==
    /\ MaxFiles \in Nat
    /\ Bad \notin Ids \cup FileKeys
    /\ Configured \subseteq Seq(PairedRecipients)
    /\ \A h \in Headers : h \in Seq({h[i] : i \in DOMAIN h})

\* Selectors come from wrap_file_key_v2, whatever they stand beside in a header:
\* they may be moved, but nobody makes up one of his own.
ASSUME SelectorAssumption ==
    \A h \in Headers : \A i \in DOMAIN h :
        h[i].tag = V2 /\ ValidStanza(h[i]) =>
            \E r \in PairedRecipients, e \in DOMAIN Selector, k \in FileKeys :
                h[i].args[2] = WrapPaired(r, e, k).args[2]

\* add_identity: a stub that does not decode never becomes an identity.
Init ==
    /\ identities \in Configured
    /\ file = <<>>
    /\ stage = "settled"
    /\ candidates = {}
    /\ tagged = None
    /\ selected = None
    /\ outcome = Absent
    /\ results = <<>>
    /\ contacts = <<>>

-----------------------------------------------------------------------------
(* What a header offers. *)

PhoneStanzas(h) == {i \in DOMAIN h : h[i].tag \in {V1, V2, Tag}}
TagStanzas(h) == {i \in DOMAIN h : h[i].tag = Tag /\ ValidStanza(h[i])}
Malformed(h) == {i \in PhoneStanzas(h) : ~ValidStanza(h[i])}

\* The identities whose public bytes a p256tag stanza carries.
TagOwners(h, i) == {n \in DOMAIN identities : TagMatches(identities[n].phone, h[i])}

\* Mutant: two keys behind the same public bytes are not told apart.
AmbiguousNever(h) == FALSE

Ambiguous(h) ==
    \E i \in TagStanzas(h) : \E m, n \in TagOwners(h, i) :
        identities[m].phone # identities[n].phone

Owned(h) == {i \in TagStanzas(h) : TagOwners(h, i) # {}}

-----------------------------------------------------------------------------
(* unwrap_with_prepared_exchange, file by file. *)

Take(h) ==
    /\ stage = "settled"
    /\ Len(results) < MaxFiles
    /\ file' = h
    /\ selected' = None
    /\ UNCHANGED <<identities, contacts>>

Settled(result) ==
    /\ stage' = "settled"
    /\ outcome' = result
    /\ results' = Append(results, result.kind)

\* One malformed phone stanza condemns the whole file; so does a p256tag stanza
\* that two different keys answer to.
TakeUnusable(h) ==
    /\ Malformed(h) # {} \/ Ambiguous(h)
    /\ Take(h)
    /\ candidates' = {}
    /\ tagged' = None
    /\ Settled(Errors)

\* No phone stanza, or none but p256tag stanzas of other keys.
TakeForeign(h) ==
    /\ Malformed(h) = {}
    /\ Owned(h) = {}
    /\ PhoneStanzas(h) = TagStanzas(h)
    /\ Take(h)
    /\ candidates' = {}
    /\ tagged' = None
    /\ Settled(Absent)

\* The first owned p256tag stanza decides, and its first owner is final.
TakeTagged(h) ==
    /\ Malformed(h) = {}
    /\ ~Ambiguous(h)
    /\ Owned(h) # {}
    /\ Take(h)
    /\ tagged' = [identity |-> Min(TagOwners(h, Min(Owned(h)))),
                  stanza   |-> Min(Owned(h))]
    /\ candidates' = {Min(Owned(h))}
    /\ stage' = "selecting"
    /\ UNCHANGED <<outcome, results>>

\* Without an owned p256tag stanza, those stanzas are out of the running.
TakePrivate(h) ==
    /\ Malformed(h) = {}
    /\ Owned(h) = {}
    /\ PhoneStanzas(h) # TagStanzas(h)
    /\ Take(h)
    /\ candidates' = PhoneStanzas(h) \ TagStanzas(h)
    /\ tagged' = None
    /\ stage' = "selecting"
    /\ UNCHANGED <<outcome, results>>

-----------------------------------------------------------------------------
(* select_candidate.  What open_pairing_locator and DesktopKeyState::open find *)
(* for each identity: its own keys, those of another pairing, or nothing.      *)

States == [DOMAIN identities -> {"own", "foreign", "closed"}]

Considered == IF tagged = None THEN DOMAIN identities ELSE {tagged.identity}
Anonymous == \E i \in candidates : file[i].tag \in {V1, Tag}

\* The configuration root is not available.
RootFails ==
    /\ stage = "selecting"
    /\ Settled(Errors)
    /\ UNCHANGED <<identities, file, choice, contacts>>

\* There is no identity, an anonymous stanza leaves open whose it is, or the
\* files of the one it must be for do not open.
SelectionRefused(state) ==
    /\ stage = "selecting"
    /\ \/ Considered = {}
       \/ Anonymous /\ (Cardinality(Considered) # 1 \/ Cardinality(candidates) # 1)
       \/ Anonymous /\ \E n \in Considered : state[n] = "closed"
    /\ Settled(Errors)
    /\ UNCHANGED <<identities, file, choice, contacts>>

\* A v1 or p256tag stanza names no identity: one of each, or nothing is asked.
SelectAnonymous(state) ==
    /\ stage = "selecting"
    /\ Anonymous
    /\ \E n \in Considered, i \in candidates :
           /\ Considered = {n}
           /\ candidates = {i}
           /\ state[n] # "closed"
           /\ selected' = [identity |-> n, stanza |-> i, own |-> state[n] = "own"]
    /\ stage' = "selected"
    /\ UNCHANGED <<identities, file, candidates, tagged, outcome, results, contacts>>

MatchesOf(n) == {i \in candidates :
                     Matches(identities[n], identities[n].selection, file[i])}

\* The identities at which the search ends: another pairing's keys are an error,
\* a matching selector is the choice.
Stops(state) == {n \in DOMAIN identities :
                     \/ state[n] = "foreign"
                     \/ state[n] = "own" /\ MatchesOf(n) # {}}

\* Identities in their order, then stanzas in theirs: the first match is chosen.
SelectPrivate(state) ==
    /\ stage = "selecting"
    /\ ~Anonymous
    /\ Stops(state) # {}
    /\ LET n == Min(Stops(state)) IN
           IF state[n] = "foreign"
           THEN Settled(Errors) /\ UNCHANGED selected
           ELSE /\ selected' = [identity |-> n, stanza |-> Min(MatchesOf(n)),
                                own |-> TRUE]
                /\ stage' = "selected"
                /\ UNCHANGED <<outcome, results>>
    /\ UNCHANGED <<identities, file, candidates, tagged, contacts>>

\* Mutant: an identity whose files do not open counts as one that missed.
MissUnopened(state) ==
    /\ stage = "selecting"
    /\ ~Anonymous
    /\ Considered # {}
    /\ Stops(state) = {}
    /\ Settled(Absent)
    /\ UNCHANGED <<identities, file, choice, contacts>>

\* No selector opens: a miss if every identity could be tried, else an error.
NoneSelected(state) ==
    /\ stage = "selecting"
    /\ ~Anonymous
    /\ Considered # {}
    /\ Stops(state) = {}
    /\ Settled(IF \E n \in DOMAIN identities : state[n] = "closed" THEN Errors ELSE Absent)
    /\ UNCHANGED <<identities, file, choice, contacts>>

-----------------------------------------------------------------------------
(* The exchange. *)

\* No route, no replay guard, or a request that create_request refuses, as it
\* does under the keys of another pairing.
NotAsked ==
    /\ stage = "selected"
    /\ Settled(Errors)
    /\ UNCHANGED <<identities, file, choice, contacts>>

Ask ==
    /\ stage = "selected"
    /\ selected.own
    /\ stage' = "asked"
    /\ contacts' = Append(contacts, Len(results) + 1)
    /\ UNCHANGED <<identities, file, choice, outcome, results>>

\* The phone opens the stanza it was asked about, its user agrees, and
\* receive_response accepts the answer.
Answered ==
    LET key == UnwrapFileKey(identities[selected.identity].phone,
                             file[selected.stanza]) IN
    /\ stage = "asked"
    /\ key # Bad
    /\ Settled(Result("key", key))
    /\ UNCHANGED <<identities, file, choice, contacts>>

\* Mutant: when the phone does not answer, the remaining stanzas are tried.
FailedTriesOthers ==
    /\ stage = "asked"
    /\ candidates' = candidates \ {selected.stanza}
    /\ IF candidates' = {} THEN Settled(Errors)
       ELSE stage' = "selecting" /\ UNCHANGED <<outcome, results>>
    /\ selected' = None
    /\ UNCHANGED <<identities, file, tagged, contacts>>

\* ConnectionFailed, InvalidResponse, Failed, or an answer that is rejected: the
\* file is given up and the next one is tried.
Failed ==
    /\ stage = "asked"
    /\ Settled(Errors)
    /\ UNCHANGED <<identities, file, choice, contacts>>

\* Cancelled: the files after this one have no result.
Cancelled ==
    /\ stage = "asked"
    /\ stage' = "cancelled"
    /\ outcome' = Errors
    /\ results' = Append(results, "errors")
    /\ UNCHANGED <<identities, file, choice, contacts>>

\* The clock or the connection to age is gone: no file has a result.
Aborted ==
    /\ stage \in {"selected", "asked"}
    /\ stage' = "aborted"
    /\ results' = <<>>
    /\ outcome' = Absent
    /\ UNCHANGED <<identities, file, choice, contacts>>

Next ==
    \/ \E h \in Headers :
           TakeUnusable(h) \/ TakeForeign(h) \/ TakeTagged(h) \/ TakePrivate(h)
    \/ \E state \in States :
           \/ SelectionRefused(state) \/ SelectAnonymous(state)
           \/ SelectPrivate(state) \/ NoneSelected(state)
    \/ RootFails \/ NotAsked \/ Ask \/ Answered \/ Failed \/ Cancelled \/ Aborted

Spec == Init /\ [][Next]_vars

-----------------------------------------------------------------------------
(* Properties. *)

\* Every variable has its type.
TypeOK ==
    /\ identities \in Configured
    /\ file \in Headers \cup {<<>>}
    /\ stage \in {"settled", "selecting", "selected", "asked", "cancelled", "aborted"}
    /\ candidates \subseteq DOMAIN file
    /\ tagged = None \/ /\ tagged.identity \in DOMAIN identities
                        /\ tagged.stanza \in candidates
    /\ selected = None \/ /\ selected.identity \in DOMAIN identities
                          /\ selected.stanza \in candidates
    /\ outcome.kind \in {"absent", "errors", "key"}
    /\ \A i \in DOMAIN results : results[i] \in {"absent", "errors", "key"}
    /\ Len(results) <= MaxFiles

\* age is told "not for these identities" only when that is so: a file with a
\* stanza that age wrapped for one of the configured identities ends with its key
\* or with an error, whatever else is in its header, in whichever order the
\* identities are configured and whatever happened to their files on disk.
MissIsReal ==
    stage = "settled" /\ outcome = Absent =>
        \A n \in DOMAIN identities, i \in DOMAIN file, e \in DOMAIN Selector :
            LET key == UnwrapFileKey(identities[n].phone, file[i]) IN
            key # Bad =>
                /\ file[i] # WrapPaired(identities[n], e, key)
                /\ file[i] # WrapLegacy(identities[n], e, key)
                /\ file[i] # WrapTagged(identities[n].phone, e, key)

\* A private selector cannot be moved to another body: a phone asked about a v2
\* stanza is always one that can open it, so a splice never wakes a phone.
AskedIsOpenable ==
    stage = "asked" /\ file[selected.stanza].tag = V2 =>
        UnwrapFileKey(identities[selected.identity].phone, file[selected.stanza]) # Bad

\* A stanza that names no identity is put before a phone only when every
\* configured identity it could be meant for belongs to that same phone key.
CertainOwner ==
    LET s == file[selected.stanza] IN
    stage = "asked" /\ s.tag # V2 =>
        \A n \in DOMAIN identities :
            s.tag = V1 \/ TagMatches(identities[n].phone, s)
                => identities[n].phone = identities[selected.identity].phone

\* No file is put before a phone twice, not even for another of its stanzas or
\* identities, and none after the user has cancelled.
AskedOnce ==
    /\ \A i, j \in DOMAIN contacts : i < j => contacts[i] < contacts[j]
    /\ stage = "cancelled" => \A i \in DOMAIN contacts : contacts[i] <= Len(results)
=============================================================================
