------------------------------- MODULE Journals -------------------------------
(***************************************************************************)
(* The two journals of the desktop (setup.rs, cleanup_journal.rs): what    *)
(* they hold, how a build writes and reads them and what earlier builds    *)
(* wrote, and which file names they may claim on macOS.                    *)
(*                                                                         *)
(* A written journal is a record of its fields; the layout of a version is *)
(* part of the version.  Reading is strict: a value is accepted only if    *)
(* writing it gives the same bytes again.                                  *)
(***************************************************************************)
EXTENDS Integers, Sequences, FiniteSets, Functions

CONSTANTS
    Pairings,     \* desktop ids; a fresh one for every setup
    None,         \* no pairing, no value, no file
    Torn          \* a file without its contents

ASSUME JournalsAssumption ==
    /\ None # Torn
    /\ None \notin Pairings

-----------------------------------------------------------------------------
(* The setup journal. *)

\* SetupStage.
Provisioning == 1
Pairing == 2
ResponseVerified == 3
Confirmed == 4
Stages == 1 .. 4
WithCandidate == {ResponseVerified, Confirmed}

\* SetupJournal, without the setup code and the transport, which change nothing
\* here; its paths are those of its desktop id, or were given by the user.
SetupJournal == [explicit : BOOLEAN, stage : Stages, d : Pairings,
                 candidate : Pairings \cup {None}]

\* new, new_explicit.
NewJournal(d, explicit) ==
    [explicit |-> explicit, stage |-> Provisioning, d |-> d, candidate |-> None]

\* set_pairing.
SetPairing(j) == [j EXCEPT !.stage = Pairing]

\* set_candidate: only a stub for this desktop.
SetCandidate(j) == [j EXCEPT !.stage = ResponseVerified, !.candidate = j.d]

\* set_confirmed: the recorded candidate alone.
SetConfirmed(j) == [j EXCEPT !.stage = Confirmed]

\* The states of a written journal file.
SetupFile == [version : 1 .. 3, stage : Stages, d : Pairings, candidate : Pairings \cup {None}]

\* encode: version 3 for paths given by the user, 2 for managed ones.
Encode(j) ==
    [version |-> IF j.explicit THEN 3 ELSE 2, stage |-> j.stage, d |-> j.d,
     candidate |-> j.candidate]

\* encode_legacy, which the first release wrote.
EncodeLegacy(j) == [Encode(j) EXCEPT !.version = 1]

\* decode: what it accepts ...
Decodes(f) ==
    /\ f.version \in 1 .. 3
    /\ f.candidate # None <=> f.stage \in WithCandidate
    /\ f.candidate \in {None, f.d}

\* ... and what it makes of it.
Decode(f) ==
    [explicit |-> f.version = 3, stage |-> f.stage, d |-> f.d, candidate |-> f.candidate]

-----------------------------------------------------------------------------
(* The cleanup journal. *)

\* CleanupJournal::encode; version 2 tells the kind of target.
EncodeCleanup(kind, d) == [version |-> 2, kind |-> kind, d |-> d]

\* encode_legacy: the first release knew the normal cleanup alone.
EncodeLegacyCleanup(d) == [version |-> 1, kind |-> "paired", d |-> d]

CleanupFile == [version : 1 .. 2, kind : {"paired", "orphan"}, d : Pairings]

ASSUME FilesAssumption == {None, Torn} \cap (SetupFile \cup CleanupFile) = {}

\* decode, decode_legacy, decode_current.
DecodesCleanup(f) == f.version = 1 => f.kind = "paired"

-----------------------------------------------------------------------------
(* File names on macOS: a name is the sequence of its parts between the dots.  *)
(* Directories are the private root and any other; the file system may take   *)
(* "A" for "a".                                                                *)

\* Path::extension: a single leading dot is no extension.
Extension(n) ==
    IF Len(n) = 1 \/ (Len(n) = 2 /\ n[1] = "") THEN "" ELSE n[Len(n)]

Fold(n) == [i \in DOMAIN n |-> IF n[i] = "A" THEN "a" ELSE n[i]]

InRoot(n) == [dir |-> "root", name |-> n]

\* The names that setup gives: desktop-ID.state, replay-ID.state, identity-ID.txt.
ManagedPaths ==
    [state |-> InRoot(<<"a", "state">>), replay |-> InRoot(<<"b", "state">>),
     stub |-> InRoot(<<"a", "txt">>)]

SetupJournalName == <<"setup", "cbor">>
CleanupJournalName == <<"cleanup", "cbor">>
CleanupLockName == <<"cleanup", "lock">>
LocatorName == <<"hex", "cbor">>
Reserved == {SetupJournalName, CleanupJournalName, CleanupLockName}
Sidecars(n) == {Append(n, "lock"), Append(n, "pending")}

\* The temporaries of a replacement: .replace-NAME-PID-COUNT.tmp.
IsTemporary(n) == Len(n) > 1 /\ n[1] = "" /\ n[2] = "replace"

\* Mutant: sidecar extensions are not kept from the user's names.
NameAllowedAnyExtension(n) ==
    /\ n # <<"">>
    /\ Fold(n) = n
    /\ ~IsTemporary(n)

\* validate_explicit_root, for one name.
NameAllowed(n) ==
    /\ n # <<"">>
    /\ Fold(n) = n
    /\ Extension(n) \notin {"cbor", "lock", "pending"}
    /\ ~IsTemporary(n)

\* validate_explicit_root: state and replay state in the root, the stub anywhere.
ValidExplicitRoot(p) ==
    /\ p.state.dir = "root" /\ p.replay.dir = "root"
    /\ \A k \in DOMAIN p : NameAllowed(p[k].name)
    /\ \A k, l \in DOMAIN p : k # l => p[k].name # p[l].name

\* validate_macos_root of a cleanup journal for a pairing at these paths.
ValidCleanupRoot(p) ==
    LET locator == InRoot(LocatorName)
        private == {locator, p.state, p.replay}
        sidecars == {InRoot(n) : n \in Sidecars(p.replay.name)}
        reserved == {InRoot(n) : n \in Reserved}
    IN  /\ \A q \in private : q.dir = "root" /\ q \notin reserved
        /\ Cardinality(private) = 3
        /\ {p.state, locator} \cap sidecars = {}
        /\ p.stub \notin private \cup reserved \cup sidecars

\* Bound: the user names files with these.
Names == {<<w>> : w \in {"", "a", "A", "b"}}
         \cup {<<"a", "state">>, <<"a", "state", "lock">>}
         \cup ({"", "a", "A"} \X {"lock", "pending", "cbor", "replace"})
Paths == [dir : {"root", "elsewhere"}, name : Names]

\* The paths that an attempt may claim.
Claims ==
    {ManagedPaths}
    \cup {p \in [{"state", "replay", "stub"} -> Paths] : ValidExplicitRoot(p)}

\* No two of the files have one name, not even when case is folded, and a removal
\* of the pairing would accept them.
Apart(p) ==
    /\ ValidCleanupRoot(p)
    /\ Cardinality({Fold(p[k].name) : k \in DOMAIN p}) = 3
    /\ \A k \in DOMAIN p :
           /\ Fold(p[k].name) \notin Reserved \cup {LocatorName} \cup Sidecars(p.replay.name)
           /\ ~IsTemporary(p[k].name)

ClaimsApart == \A p \in Claims : Apart(p)
=============================================================================
