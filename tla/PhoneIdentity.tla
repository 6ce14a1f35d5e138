---------------------------- MODULE PhoneIdentity ----------------------------
(***************************************************************************)
(* The phone's identity and its pairings on disk: PhoneIdentityKeyStore    *)
(* and PairingStateStore, in their Android (Kotlin) and iOS (Swift) forms. *)
(*                                                                         *)
(* The identity is a metadata file that is `preparing', `committed' or     *)
(* `deleting', and two hardware keys under aliases derived from its random *)
(* id.  Each pairing is one file, named after its scope, that holds the    *)
(* public record together with the requests already consumed; a revoked    *)
(* pairing is renamed to a `.deleting' twin of that file and then removed. *)
(*                                                                         *)
(* The app runs one operation at a time (PhoneOperations), as a sequence   *)
(* of durable steps.  A step may fail, before or after it took effect, and *)
(* the app may die between two steps; what it then finds on disk is all    *)
(* that the next operation knows.                                          *)
(***************************************************************************)
EXTENDS Integers

CONSTANTS
    Desktops,      \* desktop ids
    Kept,          \* those whose `pair' reopens the state they already have
    Ids,           \* identity ids; provisioning draws a fresh one
    Requests,      \* signed unwrap requests of a desktop
    MaxPairings,   \* bound on pairing transcripts
    MaxFaults,     \* bound on failed steps, crashes and lost keys
    None

Scopes == Desktops \X Ids
Roles == {"identity", "signing"}
Transcripts == 1 .. MaxPairings

ASSUME IdentityAssumption ==
    /\ Kept \subseteq Desktops
    /\ None \notin Ids /\ None \notin Scopes /\ None \notin Transcripts
    /\ MaxPairings \in Nat /\ MaxFaults \in Nat

VARIABLES
    os,                 \* "android" or "ios", never changed
    phase, identity,    \* the metadata file
    keys,               \* hardware keys: <<role, id>>
    record,             \* each scope's active pairing, by its transcript
    pending,            \* each scope's `.deleting' file
    entries,            \* the requests that each active pairing has consumed
    op, step, target,   \* the running operation, its next step, its scope
    transcripts, used,  \* pairings offered and identity ids drawn so far
    faults,
    leaked,             \* history: keys whose deletion failed and was skipped
    scrapped,           \* history: scopes whose pairing was revoked
    asked               \* history: how often each request reached its approval

metadata == <<phase, identity>>
pairings == <<record, pending, entries, scrapped>>
operation == <<op, step, target>>
history == <<transcripts, used, leaked, asked>>
vars == <<os, metadata, keys, pairings, operation, faults, history>>

\* An "undo" takes a failed attempt away again; a "short" deletion has listed a
\* file that it will not find.
Ops == {"idle", "provision", "undo", "delete", "short", "revoke", "pair"}

DropStages == {"dropIdentity", "dropSigning", "dropState"}
MakeStages == {"makeIdentity", "makeSigning", "commit"}

Stages == DropStages \cup MakeStages \cup
          {"none", "prepare", "mark", "records", "rename", "unlink", "offer", "confirm"}

Android == os = "android"

\* open: committed metadata whose two keys are both there.
Opens == phase = "committed" /\ Roles \X {identity} \subseteq keys

Twin(s) == record[s] # None /\ pending[s] # None

Mine(files) == {s \in Scopes : s[2] = identity /\ files[s] # None}

Then(s) == step' = s /\ UNCHANGED <<op, target>>

Done == op' = "idle" /\ step' = "none" /\ target' = None

Fault == faults < MaxFaults /\ faults' = faults + 1

-----------------------------------------------------------------------------
Init ==
    /\ os \in {"android", "ios"}
    /\ phase = "none" /\ identity = None
    /\ keys = {}
    /\ record = [s \in Scopes |-> None]
    /\ pending = [s \in Scopes |-> None]
    /\ entries = [s \in Scopes |-> {}]
    /\ op = "idle" /\ step = "none" /\ target = None
    /\ transcripts = 0 /\ used = {}
    /\ faults = 0
    /\ leaked = {} /\ scrapped = {}
    /\ asked = [s \in Scopes |-> [q \in Requests |-> 0]]

-----------------------------------------------------------------------------
(* Operations begin. *)

Begin(o, first) ==
    /\ op = "idle"
    /\ op' = o
    /\ step' = first
    /\ UNCHANGED <<os, metadata, keys, pairings, faults, history>>

\* provision: refused over a committed or a deleting identity; over an
\* interrupted attempt it first takes that one away.
BeginProvision ==
    /\ \/ phase = "none" /\ used # Ids /\ Begin("provision", "prepare")
       \/ phase = "preparing" /\ Begin("provision", "dropIdentity")
    /\ UNCHANGED target

\* Mutant: a deletion is never resumed.
BeginDeletionOnce ==
    /\ Opens /\ Begin("delete", "mark")
    /\ UNCHANGED target

\* deleteIdentity: starts over an identity that opens, resumes a deletion.
BeginDeletion ==
    /\ \/ Opens /\ Begin("delete", "mark")
       \/ phase = "deleting" /\ Begin("delete", "records")
    /\ UNCHANGED target

\* revokePairing: the user picks an active pairing, or one pending deletion.
BeginRevocation(s) ==
    /\ Opens /\ s[2] = identity
    /\ \/ record[s] # None /\ Begin("revoke", "rename")
       \/ pending[s] # None /\ Begin("revoke", "unlink")
    /\ target' = s

\* preparePhonePairing: Android provisions the identity on the way when there is
\* none; iOS only pairs with one that opens.
BeginPairing ==
    /\ transcripts < MaxPairings
    /\ \/ Opens /\ Begin("pair", "offer")
       \/ Android /\ phase = "none" /\ used # Ids /\ Begin("pair", "prepare")
    /\ UNCHANGED target

-----------------------------------------------------------------------------
(* The steps of provisioning and of deletion. *)

Prepare ==
    /\ step = "prepare"
    /\ \E i \in Ids \ used :
           identity' = i /\ phase' = "preparing" /\ used' = used \cup {i}
    /\ Then("makeIdentity")
    /\ UNCHANGED <<os, keys, pairings, faults, transcripts, leaked, asked>>

MakeKey(role) ==
    /\ step = IF role = "identity" THEN "makeIdentity" ELSE "makeSigning"
    /\ keys' = keys \cup {<<role, identity>>}
    /\ Then(IF role = "identity" THEN "makeSigning" ELSE "commit")
    /\ UNCHANGED <<os, metadata, pairings, faults, history>>

Commit ==
    /\ step = "commit"
    /\ phase' = "committed"
    /\ IF op = "pair" THEN Then("offer") ELSE Done
    /\ UNCHANGED <<os, identity, keys, pairings, faults, history>>

\* Mutant: the deletion goes straight for the keys.
MarkOnly ==
    /\ step = "mark"
    /\ phase' = "deleting"
    /\ Then("dropIdentity")
    /\ UNCHANGED <<os, identity, keys, pairings, faults, history>>

Mark ==
    /\ step = "mark"
    /\ phase' = "deleting"
    /\ Then("records")
    /\ UNCHANGED <<os, identity, keys, pairings, faults, history>>

\* Mutant: the metadata goes when the first of the keys is gone.
DropKeyOnly(role) ==
    /\ step = IF role = "identity" THEN "dropIdentity" ELSE "dropSigning"
    /\ keys' = keys \ {<<role, identity>>}
    /\ Then("dropState")
    /\ UNCHANGED <<os, metadata, pairings, faults, history>>

DropKey(role) ==
    /\ step = IF role = "identity" THEN "dropIdentity" ELSE "dropSigning"
    /\ keys' = keys \ {<<role, identity>>}
    /\ Then(IF role = "identity" THEN "dropSigning" ELSE "dropState")
    /\ UNCHANGED <<os, metadata, pairings, faults, history>>

\* A recovering provision goes on to its own attempt (here: while the model has
\* a fresh id for it).
DropState ==
    /\ step = "dropState"
    /\ phase' = "none" /\ identity' = None
    /\ IF op = "provision" /\ used # Ids THEN Then("prepare") ELSE Done
    /\ UNCHANGED <<os, keys, pairings, faults, history>>

-----------------------------------------------------------------------------
(* The steps of revocation. *)

\* The active record becomes the pending file.  Android refuses to overwrite a
\* pending file that is still there; iOS overwrites it.
Rename(s) ==
    /\ Android => pending[s] = None
    /\ pending' = [pending EXCEPT ![s] = record[s]]
    /\ record' = [record EXCEPT ![s] = None]
    /\ entries' = [entries EXCEPT ![s] = {}]
    /\ scrapped' = scrapped \cup {s}

RevokeRename ==
    /\ step = "rename"
    /\ \/ Rename(target) /\ Then("unlink")
       \/ Android /\ pending[target] # None /\ Done /\ UNCHANGED pairings
    /\ UNCHANGED <<os, metadata, keys, faults, history>>

Unlink ==
    /\ step = "unlink"
    /\ pending' = [pending EXCEPT ![target] = None]
    /\ IF op = "revoke" THEN Done ELSE Then("records")
    /\ UNCHANGED <<os, metadata, keys, record, entries, scrapped, faults, history>>

\* revokeAll goes through the files it listed.  Android revokes the active
\* pairings and then removes the pending files, iOS takes them as they come.
\* Where iOS overwrites a pending file it listed, it will later miss that file.
RevokeNext(s) ==
    /\ step = "records"
    /\ step' = "unlink" /\ target' = s
    /\ \/ /\ s \in Mine(record)
          /\ Rename(s)
          /\ op' = IF pending[s] = None THEN op ELSE "short"
       \/ /\ s \in Mine(pending)
          /\ Android => Mine(record) = {}
          /\ UNCHANGED <<op, pairings>>
    /\ UNCHANGED <<os, metadata, keys, faults, history>>

\* The walk is over, or it meets a file that it cannot revoke or cannot find.
RevokedAll ==
    /\ step = "records"
    /\ \/ /\ op = "delete" /\ Mine(record) = {} /\ Mine(pending) = {}
          /\ Then("dropIdentity")
       \/ Android /\ (\E s \in Mine(record) : Twin(s)) /\ Done
       \/ op = "short" /\ Done
    /\ UNCHANGED <<os, metadata, keys, pairings, faults, history>>

-----------------------------------------------------------------------------
(* Pairing and unwrapping. *)

\* The phone has verified an offer and shows its signed answer.  A desktop set
\* up by `setup' has a fresh id; the others may offer the same one again.
Offer(d) ==
    /\ step = "offer"
    /\ Opens
    /\ transcripts < MaxPairings
    /\ d \in Kept \/ \A i \in Ids : <<d, i>> \notin scrapped /\ record[<<d, i>>] = None
    /\ transcripts' = transcripts + 1
    /\ target' = <<d, identity>>
    /\ step' = "confirm"
    /\ UNCHANGED <<os, metadata, keys, pairings, op, faults, used, leaked, asked>>

\* The identity can no longer answer.
OfferFails ==
    /\ step = "offer"
    /\ ~Opens
    /\ Done
    /\ UNCHANGED <<os, metadata, keys, pairings, faults, history>>

\* Mutant: the record is written over an existing one.
ConfirmAnyway ==
    /\ step = "confirm"
    /\ record' = [record EXCEPT ![target] = transcripts]
    /\ entries' = [entries EXCEPT ![target] = {}]
    /\ Done
    /\ UNCHANGED <<os, metadata, keys, pending, scrapped, faults, history>>

\* The fingerprints match: createAt writes a record with no consumed requests,
\* unless the scope has an active one already.
ConfirmPairing ==
    /\ step = "confirm"
    /\ record[target] = None
    /\ record' = [record EXCEPT ![target] = transcripts]
    /\ entries' = [entries EXCEPT ![target] = {}]
    /\ Done
    /\ UNCHANGED <<os, metadata, keys, pending, scrapped, faults, history>>

\* The user declines, or the pairing exists.
DropPairing ==
    /\ step = "confirm"
    /\ Done
    /\ UNCHANGED <<os, metadata, keys, pairings, faults, history>>

\* Mutant: only a request that nobody is asked about is remembered.
ConsumeUnasked(s, q) ==
    /\ op = "idle"
    /\ record[s] # None
    /\ q \notin entries[s]
    /\ IF Opens /\ s[2] = identity
          THEN asked' = [asked EXCEPT ![s][q] = @ + 1] /\ UNCHANGED entries
          ELSE entries' = [entries EXCEPT ![s] = @ \cup {q}] /\ UNCHANGED asked
    /\ UNCHANGED <<os, metadata, keys, record, pending, operation, faults,
                   transcripts, used, leaked, scrapped>>

\* preparePhoneUnwrap: the request is consumed before the identity is opened,
\* and only then put to the user.
Consume(s, q) ==
    /\ op = "idle"
    /\ record[s] # None
    /\ q \notin entries[s]
    /\ entries' = [entries EXCEPT ![s] = @ \cup {q}]
    /\ asked' = IF Opens /\ s[2] = identity THEN [asked EXCEPT ![s][q] = @ + 1]
                                            ELSE asked
    /\ UNCHANGED <<os, metadata, keys, record, pending, operation, faults,
                   transcripts, used, leaked, scrapped>>

-----------------------------------------------------------------------------
(* What goes wrong. *)

\* Once the attempt is recorded, a failure undoes it; a commit that fails may
\* have reached the disk.
ProvisionFails ==
    /\ step \in MakeStages
    /\ Fault
    /\ phase' \in {phase} \cup (IF step = "commit" THEN {"committed"} ELSE {})
    /\ op' = "undo" /\ step' = "dropIdentity"
    /\ UNCHANGED <<os, identity, keys, pairings, target, history>>

\* The undo ignores what it cannot delete.  Android gives up on both keys when
\* the first cannot be deleted; iOS tries each, also when it recovers an attempt.
SkipKey ==
    /\ op = "undo" \/ (op = "provision" /\ ~Android)
    /\ Fault
    /\ \/ /\ step = "dropIdentity"
          /\ leaked' = leaked \cup (IF Android THEN Roles ELSE {"identity"}) \X {identity}
          /\ Then(IF Android THEN "dropState" ELSE "dropSigning")
       \/ /\ step = "dropSigning"
          /\ leaked' = leaked \cup {<<"signing", identity>>}
          /\ Then("dropState")
    /\ UNCHANGED <<os, metadata, keys, pairings, transcripts, used, asked>>

SkipState ==
    /\ op = "undo" /\ step = "dropState"
    /\ Fault
    /\ Done
    /\ UNCHANGED <<os, metadata, keys, pairings, history>>

\* The app dies, or a step throws and nothing catches it: the operation is over,
\* and the disk is as the last step left it.
Interrupted ==
    /\ op # "idle"
    /\ Fault
    /\ Done
    /\ UNCHANGED <<os, metadata, keys, pairings, history>>

\* The platform discards the identity key: the enrolled biometrics changed.
LoseKey ==
    /\ <<"identity", identity>> \in keys
    /\ Fault
    /\ keys' = keys \ {<<"identity", identity>>}
    /\ UNCHANGED <<os, metadata, pairings, operation, history>>

-----------------------------------------------------------------------------
IdentitySteps ==
    \/ Prepare \/ Commit \/ Mark \/ DropState
    \/ \E role \in Roles : MakeKey(role) \/ DropKey(role)

RevocationSteps ==
    \/ RevokeRename \/ Unlink \/ RevokedAll
    \/ \E s \in Scopes : RevokeNext(s)

PairingSteps ==
    \/ OfferFails \/ ConfirmPairing \/ DropPairing
    \/ \E d \in Desktops : Offer(d)

Steps == IdentitySteps \/ RevocationSteps \/ PairingSteps

Faults == ProvisionFails \/ SkipKey \/ SkipState \/ Interrupted \/ LoseKey

Next ==
    \/ BeginProvision \/ BeginDeletion \/ BeginPairing
    \/ \E s \in Scopes : BeginRevocation(s)
    \/ \E s \in Scopes, q \in Requests : Consume(s, q)
    \/ Steps
    \/ Faults

\* A running operation goes on; a user who finds an identity pending deletion or
\* half made asks again for its deletion or for a new one.
Spec ==
    /\ Init /\ [][Next]_vars
    /\ WF_vars(Steps)
    /\ WF_vars(phase = "deleting" /\ BeginDeletion)
    /\ WF_vars(phase = "preparing" /\ BeginProvision)

-----------------------------------------------------------------------------
(* Properties. *)

\* Every variable has its type.
TypeOK ==
    /\ os \in {"android", "ios"}
    /\ phase \in {"none", "preparing", "committed", "deleting"}
    /\ identity \in Ids \cup {None}
    /\ phase = "none" <=> identity = None
    /\ keys \subseteq Roles \X Ids /\ leaked \subseteq Roles \X Ids
    /\ record \in [Scopes -> Transcripts \cup {None}]
    /\ pending \in [Scopes -> Transcripts \cup {None}]
    /\ entries \in [Scopes -> SUBSET Requests]
    /\ op \in Ops /\ step \in Stages
    /\ target \in Scopes \cup {None}
    /\ transcripts \in 0 .. MaxPairings
    /\ used \subseteq Ids /\ scrapped \subseteq Scopes
    /\ faults \in 0 .. MaxFaults
    /\ asked \in [Scopes -> [Requests -> Nat]]

\* The metadata always leads to the keys: wherever an operation fails or the app
\* dies, no hardware key is left under an id that nothing on disk names, save
\* one whose deletion failed and was passed over (provision, deleteIdentity).
KeysNamed == \A k \in keys \ leaked : k[2] = identity

\* Pairings never outlive their identity: every record and every pending file
\* belongs to the identity that is committed or being deleted (deleteIdentity
\* revokes before it destroys the keys and the metadata).
RecordsOwned ==
    \A s \in Scopes : record[s] # None \/ pending[s] # None =>
        s[2] = identity /\ phase \in {"committed", "deleting"}

\* A request is put to the user once, over all revocations, deletions, new
\* pairings and crashes, when its desktop has a fresh id for each pairing.
AskedOnce ==
    \A s \in Scopes, q \in Requests : s[1] \notin Kept => asked[s][q] <= 1

\* An active pairing is never replaced by another and never forgets a consumed
\* request, short of its revocation (createAt, consumeRequest, revokeState).
LivePairingStays ==
    [][\A s \in Scopes : record[s] # None /\ record'[s] # None =>
           record'[s] = record[s] /\ entries[s] \subseteq entries'[s]]_vars

\* An interrupted operation can be finished: an identity pending deletion goes
\* away when the user asks again, unless Android has an active pairing beside
\* its pending twin, and an interrupted provisioning is replaced.
InterruptedEnds ==
    /\ (phase = "deleting" /\ ~ (Android /\ \E s \in Scopes : Twin(s))) ~> phase = "none"
    /\ phase = "preparing" ~> phase # "preparing"

=============================================================================
