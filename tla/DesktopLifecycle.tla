--------------------------- MODULE DesktopLifecycle ---------------------------
(***************************************************************************)
(* The life of a desktop's pairings on disk (crates/desktop: setup.rs,     *)
(* main.rs, cleanup_journal.rs, desktop_cleanup.rs, locator.rs).           *)
(*                                                                         *)
(* A pairing is a handful of files and hardware keys.  `setup' creates     *)
(* them one after the other under a setup journal, `setup --cleanup' takes *)
(* them away again, `setup --resume' finishes a confirmed attempt, and     *)
(* `remove-desktop-state' and `remove-orphaned-desktop-state' delete a     *)
(* finished pairing under a cleanup journal.  One global lifecycle lock    *)
(* lets one of these commands run at a time; any of them may fail or die   *)
(* between two steps.  Plugin runs take no part in that lock: they open    *)
(* a pairing's locator, then its replay guard, while a command is at work. *)
(*                                                                         *)
(* The module has the two platforms that support setup.  They differ in    *)
(* the order of deletion, in what a failed setup does, in whether the      *)
(* replay lock is held during a cleanup, and in how a file is created:     *)
(* Windows moves a complete file into place, macOS creates and then fills. *)
(***************************************************************************)
EXTENDS Journals

CONSTANTS
    Runs,         \* plugin runs
    MaxFaults     \* bound on crashes and failed steps of the commands

VARIABLES
    platform,                     \* "windows" or "macos", never changed
    whole, torn,                  \* complete and incomplete files: <<kind, id>>
    setup,                        \* the setup journal's file, None or Torn
    cleanup,                      \* the cleanup journal's file, None or Torn
    cmd, target, todo,            \* the command that holds the lifecycle lock
    writing,                      \* the file it has created but not yet filled
    phase, runOf,                 \* each plugin run and its pairing
    holder,                       \* who holds each pairing's replay lock
    faults,
    scrapped                      \* history: ids whose replay state was deleted

files == <<whole, torn>>
command == <<cmd, target, todo, writing>>
runs == <<phase, runOf, holder>>
vars == <<platform, files, setup, cleanup, command, runs, faults, scrapped>>

Kinds == {"keys", "state", "replay", "pending", "lock", "locator", "stub"}

ASSUME LifecycleAssumption ==
    /\ MaxFaults \in Nat
    /\ None \notin Kinds \cup {"journal", "cleanup"} /\ Runs \cap {None, "cleanup"} = {}

Windows == platform = "windows"

-----------------------------------------------------------------------------
(* What the files say. *)

\* What a journal file names, whether or not this build can read it.
setupId == IF setup \in {None, Torn} THEN None ELSE setup.d
cleanupId == IF cleanup \in {None, Torn} THEN None ELSE cleanup.d

\* setup::read: it decodes, and its paths may be of this platform.
SetupReads ==
    /\ setup \notin {None, Torn}
    /\ Decodes(setup)
    /\ Decode(setup).explicit => ~Windows

\* cleanup_journal::read.
CleanupReads == cleanup \notin {None, Torn} /\ DecodesCleanup(cleanup)

\* ensure_no_cleanup_pending.
NoCleanupPending == cleanup = None

Present(k, d) == <<k, d>> \in whole \cup torn

\* The files of a finished pairing; on macOS the key references are in the state.
Essential == {"state", "replay", "locator"} \cup (IF Windows THEN {"keys"} ELSE {})

\* DesktopKeyState::open on Windows: the metadata, and the keys it names.
CngStateOpens(d) == {<<"state", d>>, <<"keys", d>>} \subseteq whole

\* DesktopKeyState::open on macOS: "pending" is no metadata, and complete metadata
\* wraps keys that the enclave can use.
EnclaveStateOpens(d) == <<"state", d>> \in whole

StateOpens(d) == IF Windows THEN CngStateOpens(d) ELSE EnclaveStateOpens(d)

\* FileReplayGuard::open, of a replay lock that is free.
ReplayOpens(d) ==
    /\ holder[d] = None
    /\ <<"replay", d>> \in whole
    /\ <<"pending", d>> \notin whole

\* Mutant: the journals are not looked at.
LocatorOpensAnyway(d) == <<"locator", d>> \in whole

\* open_pairing_locator: no journal names the pairing, or is unreadable.
LocatorOpens(d) ==
    /\ cleanup = None \/ (CleanupReads /\ cleanup.d # d)
    /\ setup = None \/ (SetupReads /\ Decode(setup).candidate # d)
    /\ <<"locator", d>> \in whole

\* cleanup_owned.
UndoOrder ==
    IF Windows THEN <<"replay", "lock", "locator", "state", "keys", "stub">>
               ELSE <<"state", "replay", "pending", "locator", "stub", "lock">>

\* Mutant: the key metadata is forgotten.
RemoveForgetsState(kind) ==
    (IF Windows THEN <<"replay", "keys">> ELSE <<"replay", "pending">>)
        \o <<"locator", "lock">>
        \o (IF kind = "paired" THEN <<"stub">> ELSE <<>>)

\* execute_cleanup; an orphan's stub is not touched.
RemoveOrder(kind) ==
    (IF Windows THEN <<"replay", "keys">> ELSE <<"replay", "pending">>)
        \o <<"state", "locator", "lock">>
        \o (IF kind = "paired" THEN <<"stub">> ELSE <<>>)

\* cleanup_owned and CheckedMacosCleanupOperations hold the replay lock, as long
\* as there is a lock file.
Locked ==
    \/ Windows
    \/ holder[target] = "cleanup"
    \/ \A i \in DOMAIN todo : todo[i] # "lock"

FilesOf(d, ks) == {<<k, d>> : k \in ks}

\* The kinds of file that the first release may have made in a stage of a setup:
\* key state, then what it commits in this order.
MadeIn(stage) ==
    LET keys == {"keys", "state"} \cap Essential
        order == <<"replay", "locator", "stub">>
        committed(n) == {order[i] : i \in 1 .. n} \cup (IF n > 0 THEN {"lock"} ELSE {})
    IN  IF stage = Provisioning
        THEN {{}, IF Windows THEN {"keys"} ELSE {"state"}, keys}
        ELSE IF stage = Confirmed THEN {keys \cup committed(n) : n \in 0 .. 3} ELSE {keys}

LeftBySetup(d, stage, ks) ==
    [files |-> FilesOf(d, ks), cleanup |-> None,
     setup |-> EncodeLegacy([NewJournal(d, FALSE) EXCEPT
         !.stage = stage, !.candidate = IF stage \in WithCandidate THEN d ELSE None])]

\* ... and what a normal cleanup of its own has not deleted yet.
LeftByRemoval(d, n) ==
    LET steps == RemoveOrder("paired") IN
    [files |-> FilesOf(d, (Essential \cup {"lock", "stub"}) \ {steps[i] : i \in 1 .. n}),
     setup |-> None, cleanup |-> EncodeLegacyCleanup(d)]

\* What the first release may have left: nothing, or an interrupted command.
Legacy ==
    {[files |-> {}, setup |-> None, cleanup |-> None]}
    \cup (UNION {{LeftBySetup(d, stage, ks) : ks \in MadeIn(stage)} :
                    d \in Pairings, stage \in Stages})
    \cup {LeftByRemoval(d, n) : d \in Pairings, n \in 0 .. Len(RemoveOrder("paired"))}

Init ==
    /\ platform \in {"windows", "macos"}
    /\ \E left \in Legacy :
           whole = left.files /\ setup = left.setup /\ cleanup = left.cleanup
    /\ torn = {}
    /\ cmd = "idle" /\ target = None /\ todo = <<>> /\ writing = None
    /\ phase = [u \in Runs |-> "idle"] /\ runOf = [u \in Runs |-> None]
    /\ holder = [d \in Pairings |-> None]
    /\ faults = 0
    /\ scrapped = IF cleanupId # None /\ <<"replay", cleanupId>> \notin whole
                  THEN {cleanupId} ELSE {}

\* The command ends: its locks are released.
Ends ==
    /\ cmd' = "idle" /\ target' = None /\ todo' = <<>> /\ writing' = None
    /\ holder' = [d \in Pairings |-> IF holder[d] = "cleanup" THEN None ELSE holder[d]]

Starts(c, d, steps) ==
    /\ cmd' = c /\ target' = d /\ todo' = steps /\ writing' = None

-----------------------------------------------------------------------------
(* setup. *)

\* run_setup_impl up to the creation of the journal, for a fresh id.
SetupBegin(d) ==
    /\ cmd = "idle"
    /\ NoCleanupPending
    /\ setup = None
    /\ \A k \in Kinds : ~Present(k, d)
    /\ d \notin scrapped
    /\ cmd' = "setup" /\ target' = d /\ todo' = <<>>
    /\ IF Windows THEN setup' = Encode(NewJournal(d, FALSE)) /\ writing' = None
                  ELSE setup' = Torn /\ writing' = "journal"
    /\ UNCHANGED <<files, cleanup, runs, faults, scrapped>>

\* The macOS setup journal is filled and synced; the explicit pair command gives
\* the paths itself.
JournalWritten ==
    /\ cmd = "setup" /\ writing = "journal"
    /\ \E explicit \in BOOLEAN : setup' = Encode(NewJournal(target, explicit))
    /\ writing' = None
    /\ UNCHANGED <<files, cleanup, cmd, target, todo, runs, faults, scrapped>>

InStage(stage) == setup \notin {None, Torn} /\ Decode(setup).stage = stage

\* create_new on Windows: the hardware keys, then the metadata.
ReserveCng ==
    /\ Windows /\ cmd = "setup" /\ InStage(Provisioning)
    /\ ~Present("keys", target)
    /\ whole' = whole \cup {<<"keys", target>>}
    /\ UNCHANGED <<torn, setup, cleanup, command, runs, faults, scrapped>>

ProvisionCng ==
    /\ Windows /\ cmd = "setup" /\ InStage(Provisioning)
    /\ Present("keys", target) /\ ~Present("state", target)
    /\ whole' = whole \cup {<<"state", target>>}
    /\ UNCHANGED <<torn, setup, cleanup, command, runs, faults, scrapped>>

\* create_new on macOS: the metadata file says "pending" until the keys exist, and
\* is then replaced.
ReserveEnclave ==
    /\ ~Windows /\ cmd = "setup" /\ InStage(Provisioning)
    /\ ~Present("state", target)
    /\ torn' = torn \cup {<<"state", target>>}
    /\ UNCHANGED <<whole, setup, cleanup, command, runs, faults, scrapped>>

ProvisionEnclave ==
    /\ ~Windows /\ cmd = "setup" /\ InStage(Provisioning)
    /\ <<"state", target>> \in torn
    /\ whole' = whole \cup {<<"state", target>>}
    /\ torn' = torn \ {<<"state", target>>}
    /\ UNCHANGED <<setup, cleanup, command, runs, faults, scrapped>>

\* replace, which both platforms do atomically.
Replace(j) == setup' = Encode(j)

\* The journal is replaced at each stage: keys exist, phone response verified,
\* fingerprint confirmed.  The last opens the commit.
Advance ==
    /\ cmd = "setup"
    /\ <<"state", target>> \in whole
    /\ LET j == Decode(setup) IN
       \/ j.stage = Provisioning /\ Replace(SetPairing(j)) /\ UNCHANGED command
       \/ j.stage = Pairing /\ Replace(SetCandidate(j)) /\ UNCHANGED command
       \/ /\ j.stage = ResponseVerified
          /\ Replace(SetConfirmed(j))
          /\ Starts("commit", target, <<"replay", "locator", "stub">>)
    /\ UNCHANGED <<files, cleanup, runs, faults, scrapped>>

\* rollback_setup_error: Windows undoes at once, macOS keeps everything.
SetupFails ==
    /\ cmd = "setup" /\ writing = None
    /\ IF Windows THEN Starts("undo", target, UndoOrder) /\ UNCHANGED runs
                  ELSE Ends /\ UNCHANGED <<phase, runOf>>
    /\ UNCHANGED <<files, setup, cleanup, faults, scrapped>>

\* resume_setup: only a confirmed journal whose key state opens.
Resume ==
    /\ cmd = "idle"
    /\ NoCleanupPending
    /\ SetupReads /\ InStage(Confirmed)
    /\ StateOpens(setupId)
    /\ Starts("commit", setupId, <<"replay", "locator", "stub">>)
    /\ UNCHANGED <<files, setup, cleanup, runs, faults, scrapped>>

\* commit_confirmed_for: the next object is accepted if it is there and valid.
CommitAccepts ==
    /\ cmd = "commit" /\ writing = None /\ todo # <<>>
    /\ LET k == Head(todo) IN
       IF k = "replay" THEN ReplayOpens(target) ELSE <<k, target>> \in whole
    /\ todo' = Tail(todo)
    /\ UNCHANGED <<files, setup, cleanup, cmd, target, writing, runs, faults, scrapped>>

\* commit_confirmed_for: the next object is created; the replay lock file too.
CommitCreates ==
    /\ cmd = "commit" /\ writing = None /\ todo # <<>>
    /\ LET k == Head(todo)
           lock == IF k = "replay" THEN {<<"lock", target>>} ELSE {}
       IN  /\ ~Present(k, target)
           /\ k = "replay" => holder[target] = None /\ ~Present("pending", target)
           /\ IF Windows
              THEN /\ whole' = whole \cup lock \cup {<<k, target>>}
                   /\ todo' = Tail(todo)
                   /\ UNCHANGED <<torn, writing>>
              ELSE /\ whole' = whole \cup lock
                   /\ torn' = torn \cup {<<k, target>>}
                   /\ writing' = k
                   /\ UNCHANGED todo
    /\ UNCHANGED <<setup, cleanup, cmd, target, runs, faults, scrapped>>

\* The file created by the last step is filled and synced (macOS).
CommitWrites ==
    /\ cmd = "commit" /\ writing # None
    /\ whole' = whole \cup {<<writing, target>>}
    /\ torn' = torn \ {<<writing, target>>}
    /\ todo' = Tail(todo)
    /\ writing' = None
    /\ UNCHANGED <<setup, cleanup, cmd, target, runs, faults, scrapped>>

\* commit_confirmed_for: an incomplete or unavailable object ends the commit.
CommitRefused ==
    /\ cmd = "commit" /\ writing = None /\ todo # <<>>
    /\ LET k == Head(todo) IN
       \/ <<k, target>> \in torn
       \/ k = "replay" /\ (holder[target] # None \/ Present("pending", target))
    /\ Ends
    /\ UNCHANGED <<files, setup, cleanup, phase, runOf, faults, scrapped>>

\* The journal goes last: the pairing is now available.
CommitDone ==
    /\ cmd = "commit" /\ todo = <<>>
    /\ setup' = None
    /\ Ends
    /\ UNCHANGED <<files, cleanup, phase, runOf, faults, scrapped>>

-----------------------------------------------------------------------------
(* Deletion. *)

\* cleanup_setup: any readable setup journal.
CleanupSetup ==
    /\ cmd = "idle"
    /\ NoCleanupPending
    /\ SetupReads
    /\ Starts("undo", setupId, UndoOrder)
    /\ UNCHANGED <<files, setup, cleanup, runs, faults, scrapped>>

\* A macOS cleanup takes the replay lock.
Relock ==
    /\ cmd \in {"undo", "remove"} /\ writing = None
    /\ ~Locked /\ holder[target] = None
    /\ holder' = [holder EXCEPT ![target] = "cleanup"]
    /\ whole' = whole \cup {<<"lock", target>>}
    /\ UNCHANGED <<torn, setup, cleanup, command, phase, runOf, faults, scrapped>>

\* The next file is deleted if it is there.  Windows cannot delete the lock file
\* of a replay guard that is open.
Delete ==
    /\ cmd \in {"undo", "remove"} /\ writing = None /\ todo # <<>>
    /\ Locked
    /\ LET k == Head(todo) IN
       /\ k = "lock" => holder[target] \notin Runs
       /\ holder' = IF k = "lock" THEN [holder EXCEPT ![target] = None] ELSE holder
       /\ whole' = whole \ {<<k, target>>}
       /\ torn' = torn \ {<<k, target>>}
       /\ scrapped' = IF k = "replay" /\ Present(k, target)
                          THEN scrapped \cup {target} ELSE scrapped
    /\ todo' = Tail(todo)
    /\ UNCHANGED <<setup, cleanup, cmd, target, writing, phase, runOf, faults>>

\* A run has the replay lock: the command fails and keeps its journal.
DeleteRefused ==
    /\ cmd \in {"undo", "remove"} /\ writing = None /\ todo # <<>>
    /\ ~Locked \/ Head(todo) = "lock"
    /\ holder[target] \in Runs
    /\ Ends
    /\ UNCHANGED <<files, setup, cleanup, phase, runOf, faults, scrapped>>

\* The journal goes last.
DeleteDone ==
    /\ cmd \in {"undo", "remove"} /\ todo = <<>>
    /\ IF cmd = "undo" THEN setup' = None /\ UNCHANGED cleanup
                       ELSE cleanup' = None /\ UNCHANGED setup
    /\ Ends
    /\ UNCHANGED <<files, phase, runOf, faults, scrapped>>

\* Mutant: a pending setup is not looked at.
RemoveBeginUnchecked(d, kind) ==
    /\ cmd = "idle"
    /\ cleanup = None
    /\ <<"locator", d>> \in whole
    /\ kind = "paired" => <<"stub", d>> \in whole
    /\ cmd' = "remove" /\ target' = d /\ todo' = RemoveOrder(kind) /\ writing' = None
    /\ cleanup' = EncodeCleanup(kind, d)
    /\ UNCHANGED <<files, setup, runs, faults, scrapped>>

\* remove_desktop_state, remove_orphaned_desktop_state: a new cleanup.
RemoveBegin(d, kind) ==
    /\ cmd = "idle"
    /\ setup = None /\ cleanup = None
    /\ LocatorOpens(d)
    /\ kind = "paired" => <<"stub", d>> \in whole
    /\ IF Windows THEN StateOpens(d) /\ ReplayOpens(d) ELSE holder[d] = None
    /\ cmd' = "remove" /\ target' = d /\ todo' = RemoveOrder(kind)
    /\ whole' = whole \cup {<<"lock", d>>}
    /\ IF Windows
       THEN /\ cleanup' = EncodeCleanup(kind, d) /\ writing' = None
            /\ UNCHANGED holder
       ELSE /\ cleanup' = Torn /\ writing' = "journal"
            /\ holder' = [holder EXCEPT ![d] = "cleanup"]
    /\ UNCHANGED <<torn, setup, phase, runOf, faults, scrapped>>

\* The macOS cleanup journal is filled and synced, and the guard dropped; before
\* the first deletion the replay lock is taken again.
RemoveWrites ==
    /\ cmd = "remove" /\ writing = "journal"
    /\ cleanup' = EncodeCleanup(IF "stub" \in Range(todo) THEN "paired" ELSE "orphan", target)
    /\ writing' = None
    /\ holder' = [holder EXCEPT ![target] = None]
    /\ UNCHANGED <<files, setup, cmd, target, todo, phase, runOf, faults, scrapped>>

\* Mutant: resuming demands the public stub.
RemoveAgainNeedsStub ==
    /\ cmd = "idle"
    /\ setup = None /\ CleanupReads
    /\ cleanup.kind = "paired" => <<"stub", cleanupId>> \in whole
    /\ Starts("remove", cleanupId, RemoveOrder(cleanup.kind))
    /\ UNCHANGED <<files, setup, cleanup, runs, faults, scrapped>>

\* remove_desktop_state, remove_orphaned_desktop_state: a pending cleanup of the
\* same target goes on, whether or not its stub is still there.
RemoveAgain ==
    /\ cmd = "idle"
    /\ setup = None /\ CleanupReads
    /\ Starts("remove", cleanupId, RemoveOrder(cleanup.kind))
    /\ UNCHANGED <<files, setup, cleanup, runs, faults, scrapped>>

\* The command dies, or one of its steps fails: only its locks go with it.
Fault ==
    /\ cmd # "idle"
    /\ faults < MaxFaults
    /\ faults' = faults + 1
    /\ Ends
    /\ UNCHANGED <<files, setup, cleanup, phase, runOf, scrapped>>

\* The public stub is the user's own file and may get lost.
StubLost(d) ==
    /\ <<"stub", d>> \in whole
    /\ setup = None
    /\ whole' = whole \ {<<"stub", d>>}
    /\ UNCHANGED <<torn, setup, cleanup, command, runs, faults, scrapped>>

-----------------------------------------------------------------------------
(* Plugin runs. *)

\* select_candidate: the locator and the key state open.
Select(u, d) ==
    /\ phase[u] = "idle"
    /\ LocatorOpens(d)
    /\ StateOpens(d)
    /\ phase' = [phase EXCEPT ![u] = "selected"]
    /\ runOf' = [runOf EXCEPT ![u] = d]
    /\ UNCHANGED <<files, setup, cleanup, command, holder, faults, scrapped>>

\* After its discovery the run opens the replay guard, and keeps it open while
\* it waits for the phone.  Taking the lock creates the lock file.
Guard(u) ==
    /\ phase[u] = "selected"
    /\ holder[runOf[u]] = None
    /\ whole' = whole \cup {<<"lock", runOf[u]>>}
    /\ IF ReplayOpens(runOf[u])
       THEN /\ phase' = [phase EXCEPT ![u] = "waiting"]
            /\ holder' = [holder EXCEPT ![runOf[u]] = u]
            /\ UNCHANGED runOf
       ELSE /\ phase' = [phase EXCEPT ![u] = "idle"]
            /\ runOf' = [runOf EXCEPT ![u] = None]
            /\ UNCHANGED holder
    /\ UNCHANGED <<torn, setup, cleanup, command, faults, scrapped>>

\* The run ends: an answer, none, or its death.  On macOS a death within the
\* commit leaves the pending marker behind.
RunEnds(u) ==
    /\ phase[u] # "idle"
    /\ whole' \in {whole} \cup
           (IF ~Windows /\ phase[u] = "waiting" THEN {whole \cup {<<"pending", runOf[u]>>}}
                                                ELSE {})
    /\ phase' = [phase EXCEPT ![u] = "idle"]
    /\ runOf' = [runOf EXCEPT ![u] = None]
    /\ holder' = [d \in Pairings |-> IF holder[d] = u THEN None ELSE holder[d]]
    /\ UNCHANGED <<torn, setup, cleanup, command, faults, scrapped>>

-----------------------------------------------------------------------------
SetupStep ==
    \/ JournalWritten \/ Advance \/ SetupFails
    \/ ReserveCng \/ ProvisionCng \/ ReserveEnclave \/ ProvisionEnclave
CommitStep ==
    \/ CommitAccepts \/ CommitCreates \/ CommitWrites \/ CommitRefused \/ CommitDone
DeleteStep ==
    \/ RemoveWrites \/ Relock \/ Delete \/ DeleteRefused \/ DeleteDone

CommandNext ==
    \/ \E d \in Pairings : SetupBegin(d) \/ StubLost(d)
    \/ \E d \in Pairings, kind \in {"paired", "orphan"} : RemoveBegin(d, kind)
    \/ SetupStep \/ CommitStep \/ DeleteStep
    \/ Resume \/ CleanupSetup \/ RemoveAgain \/ Fault
RunNext ==
    \/ \E u \in Runs, d \in Pairings : Select(u, d)
    \/ \E u \in Runs : Guard(u) \/ RunEnds(u)

Next == (CommandNext \/ RunNext) /\ UNCHANGED platform

Spec == Init /\ [][Next]_vars

\* Commands run on, runs end by their timeouts, and the user runs the cleanup
\* that a pending journal calls for until it succeeds.
FairSpec ==
    /\ Spec
    /\ WF_vars(SetupStep /\ UNCHANGED platform)
    /\ WF_vars(CommitStep /\ UNCHANGED platform)
    /\ WF_vars(DeleteStep /\ UNCHANGED platform)
    /\ SF_vars(CleanupSetup /\ UNCHANGED platform)
    /\ SF_vars(RemoveAgain /\ UNCHANGED platform)
    /\ \A u \in Runs : WF_vars(RunEnds(u) /\ UNCHANGED platform)

-----------------------------------------------------------------------------
(* Properties. *)

\* Every variable has its type.
TypeOK ==
    /\ platform \in {"windows", "macos"}
    /\ whole \cup torn \subseteq Kinds \X Pairings
    /\ whole \cap torn = {}
    /\ setup \in SetupFile \cup {None, Torn}
    /\ cleanup \in CleanupFile \cup {None, Torn}
    /\ cmd \in {"idle", "setup", "commit", "undo", "remove"}
    /\ target \in Pairings \cup {None}
    /\ todo \in Seq(Kinds)
    /\ writing \in Kinds \cup {"journal", None}
    /\ phase \in [Runs -> {"idle", "selected", "waiting"}]
    /\ runOf \in [Runs -> Pairings \cup {None}]
    /\ holder \in [Pairings -> Runs \cup {"cleanup", None}]
    /\ faults \in 0 .. MaxFaults
    /\ scrapped \subseteq Pairings

\* On macOS, whatever paths the user gives the explicit pair command, if they are
\* accepted then no two files of the pairing or of the desktop have one name, even
\* where the file system folds case and the stub's directory is the root under
\* another name; and the removal of the pairing will accept them too, so that no
\* pairing is made that cannot be removed (validate_explicit_root,
\* validate_macos_root).
ClaimedNamesApart == ~Windows => ClaimsApart

\* Setup and cleanup journals never exist together: each would refuse the
\* command that could remove the other.
OneJournal == setup = None \/ cleanup = None

\* Whatever step a command dies at, the private files it leaves are a finished
\* pairing, or a readable journal names them for the command that removes them.
Accounted ==
    \A d \in Pairings :
        \/ \A k \in Kinds \ {"lock", "stub"} : ~Present(k, d)
        \/ \A k \in Essential : <<k, d>> \in whole
        \/ d \in {setupId, cleanupId}

\* A pairing that an unwrap may select has its keys, its replay state and nothing
\* half done: partial or deletion-pending state is never opened.
AvailableIsComplete ==
    \A d \in Pairings :
        LocatorOpens(d) => \A k \in Essential : <<k, d>> \in whole

\* An interrupted setup or cleanup, of this build or an earlier one, whose journal
\* was completely written, which on Windows is always so, can be brought to an end
\* by the cleanup command: no such journal blocks the desktop for good
\* (SetupJournal::decode, cleanup_owned, CleanupJournal::decode, execute_cleanup).
ReadableRecovers ==
    /\ setupId # None ~> setupId = None
    /\ cleanupId # None ~> cleanupId = None
=============================================================================
