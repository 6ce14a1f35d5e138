--------------------------- MODULE ReplayPlatforms ---------------------------
(***************************************************************************)
(* The file-backed replay guard on the desktop platforms.  Linux and       *)
(* Windows take the steps of ReplayStore as they are (Windows writes       *)
(* through, so its file is durable no later than there).  macOS            *)
(* (protocol/replay_macos.rs on platform-storage/src/macos.rs) adds two    *)
(* things.  A commit is bracketed by a marker file: a synced marker comes  *)
(* before the replacement and its synced removal after it, and a guard is  *)
(* neither created nor opened beside a marker, so a commit of unknown      *)
(* outcome shuts the store for good.  And a new file is made under its     *)
(* final name and filled afterwards, so a creation may be left empty.      *)
(***************************************************************************)
EXTENDS ReplayStore

VARIABLES
    macos,      \* whether this is the macOS build
    marker,     \* the ".pending" file: is it seen, and after a power loss?
    torn        \* the file exists, but its creation did not fill it yet

pvars == <<disk, durable, lock, phase, mem, call, accepted, macos, marker, torn>>

added == <<macos, marker, torn>>

Marker == [seen : BOOLEAN, durable : BOOLEAN]

PInit ==
    /\ Init
    /\ macos \in BOOLEAN
    /\ marker = [seen |-> FALSE, durable |-> FALSE]
    /\ torn = FALSE

\* open_storage: with the lock held, anything but a missing marker refuses.
NoMarker == macos => ~marker.seen

\* create: on macOS the name appears first, O_CREAT|O_EXCL, without content.
PCreate(p, scope, now) ==
    /\ NoMarker
    /\ Create(p, scope, now)
    /\ torn' = macos
    /\ UNCHANGED <<macos, marker>>

\* Directory::create: the bytes are written and synced.
Fill(p) ==
    /\ phase[p] = "creating"
    /\ torn
    /\ torn' = FALSE
    /\ UNCHANGED <<vars, macos, marker>>

PCreateSynced(p) ==
    /\ ~torn
    /\ CreateSynced(p)
    /\ UNCHANGED added

\* open: an empty file does not decode.
POpen(p, scope) ==
    /\ NoMarker
    /\ ~torn
    /\ Open(p, scope)
    /\ UNCHANGED added

\* The checks of a consume call, on a clone: the same on every platform.
PConsume(p, scope, m, now) ==
    /\ Consume(p, scope, m, now)
    /\ UNCHANGED added

\* commit, step 1: the marker is created, O_EXCL ...
Mark(p) ==
    /\ macos
    /\ phase[p] = "writing"
    /\ ~marker.seen
    /\ marker' = [marker EXCEPT !.seen = TRUE]
    /\ UNCHANGED <<vars, macos, torn>>

\* ... and becomes durable; so does its removal.  The sync of the directory
\* does this, or the file system on its own.
MarkerSynced ==
    /\ marker.seen # marker.durable
    /\ marker' = [marker EXCEPT !.durable = marker.seen]
    /\ UNCHANGED <<vars, macos, torn>>

\* commit, step 2: replace, once the marker is durable.
PRename(p) ==
    /\ macos => marker.seen /\ marker.durable
    /\ Rename(p)
    /\ UNCHANGED added

\* Mutant: the marker is removed without the replacement having been synced.
UnmarkEarly(p) ==
    /\ macos
    /\ phase[p] = "renamed"
    /\ marker.seen
    /\ marker' = [marker EXCEPT !.seen = FALSE]
    /\ UNCHANGED <<vars, macos, torn>>

\* commit, step 3: the marker is removed, once replace has synced the directory.
Unmark(p) ==
    /\ macos
    /\ phase[p] = "renamed"
    /\ durable = disk
    /\ marker.seen
    /\ marker' = [marker EXCEPT !.seen = FALSE]
    /\ UNCHANGED <<vars, macos, torn>>

\* commit adopts the state once the removal of the marker is synced.
PCommitSynced(p) ==
    /\ macos => marker = [seen |-> FALSE, durable |-> FALSE]
    /\ CommitSynced(p)
    /\ UNCHANGED added

\* commit failed at any of its steps: the marker stays as it is.
PCommitFails(p) ==
    /\ CommitFails(p)
    /\ UNCHANGED added

\* The guard is dropped or its process dies: file and marker stay as they are.
PClose(p) ==
    /\ Close(p)
    /\ UNCHANGED added

\* The directory entry becomes durable: Directory::replace's sync, or the file
\* system on its own.
PWriteback ==
    /\ Writeback
    /\ UNCHANGED added

PPowerLoss ==
    /\ PowerLoss
    /\ marker' = [marker EXCEPT !.seen = marker.durable]
    /\ UNCHANGED <<macos, torn>>

PProcessStep(p) ==
    \/ \E s \in Scopes, now \in Time : PCreate(p, s, now)
    \/ Fill(p)
    \/ PCreateSynced(p)
    \/ \E s \in Scopes : POpen(p, s)
    \/ \E s \in Scopes, m \in Messages, now \in Time : PConsume(p, s, m, now)
    \/ Mark(p)
    \/ PRename(p)
    \/ Unmark(p)
    \/ PCommitSynced(p)
    \/ PCommitFails(p)
    \/ PClose(p)

PNext ==
    \/ \E p \in Procs : PProcessStep(p)
    \/ MarkerSynced
    \/ PWriteback
    \/ PPowerLoss

PSpec == PInit /\ [][PNext]_pvars

-----------------------------------------------------------------------------
(* Properties. *)

\* The file is what a power loss would leave, or a creation that consumed
\* nothing yet.
Certain ==
    \/ durable = disk
    \/ durable = None /\ disk.entries = {}

\* On macOS a guard that accepts messages never rests on a replacement that a
\* power loss could undo: a commit that died between its marker, the rename and
\* the sync leaves the marker, and beside a marker no guard opens
\* (replay_macos.rs commit and open_storage).
CertainOpen == \A p \in Procs : macos /\ phase[p] = "idle" => Certain

=============================================================================
