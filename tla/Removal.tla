-------------------------------- MODULE Removal --------------------------------
(***************************************************************************)
(* Whose files a removal takes (desktop_cleanup.rs, cleanup_journal.rs,    *)
(* locator.rs, and the explicit pair command of main.rs).                  *)
(*                                                                         *)
(* A locator names the desktop state and the replay state of a pairing by  *)
(* path.  `remove-desktop-state' takes the public stub of a pairing,       *)
(* `remove-orphaned-desktop-state' its locator; either writes the paths    *)
(* into a journal and deletes what the journal names, again from the       *)
(* journal after a crash.  Meanwhile `pair' makes new pairings at the      *)
(* paths the user gives it, on Windows without the lifecycle lock and      *)
(* reusing a desktop state that exists, and the user moves public stubs.   *)
(* DesktopLifecycle has the order of the steps and the plugin runs; here   *)
(* the files have contents, and paths may be shared.                       *)
(***************************************************************************)
EXTENDS Integers, Sequences, FiniteSets

CONSTANTS
    Platforms,    \* the systems considered: "windows", "macos"
    Pairings,     \* attempts to pair; each stands for its fingerprint, and for the
                  \* desktop id it draws when it makes a desktop state
    Phones,       \* identity ids
    StatePaths, ReplayPaths, StubPaths,
    Managed,      \* the paths setup would give a desktop id
    Inherited,    \* the sets of locators an earlier release may have left
    Nothing,
    MaxFaults     \* bound on failing steps

ASSUME RemovalAssumption ==
    /\ Platforms \subseteq {"windows", "macos"}
    /\ Nothing \notin Pairings \cup Phones \cup StatePaths \cup ReplayPaths \cup StubPaths
    /\ Managed \in [Pairings -> StatePaths \X ReplayPaths]
    /\ MaxFaults \in Nat

VARIABLES
    platform,
    state,     \* the desktop id in each state file
    keys,      \* desktop ids whose keys exist
    replay,    \* the scope of each replay state
    loc,       \* the locators
    stub,      \* the public stub at each path
    journal,   \* the cleanup journal
    removal,   \* the removal command
    todo,      \* what it has still to delete
    pair,      \* the pair command
    used,      \* attempts made
    calm,      \* history: no pair command ran since the journal was written
    faults

files == <<state, keys, replay, loc, stub>>
command == <<journal, removal, todo>>
removalVars == <<platform, files, command, pair, used, calm, faults>>

Windows == platform = "windows"
Idle == [pc |-> "idle", kind |-> Nothing, path |-> Nothing, fp |-> Nothing]

\* A public stub: what identifies the pairing in it.
Stubs == [d : Pairings, i : Phones, fp : Pairings]
StubOf(l) == [d |-> l.d, i |-> l.i, fp |-> l.fp]
Scope(l) == [d |-> l.d, i |-> l.i]

\* A locator is named after identity and desktop, by earlier releases after the
\* identity alone.
Name(i, d) == <<i, d>>
LegacyName(i) == <<i>>
Names == {Name(i, d) : i \in Phones, d \in Pairings} \cup {LegacyName(i) : i \in Phones}

\* What the locators, the cleanup journal and the pair command hold.
Locators == [name : Names, d : Pairings, i : Phones, fp : Pairings,
             state : StatePaths, replay : ReplayPaths]
CleanupJournals == [name : Names, d : Pairings, i : Phones, fp : Pairings,
                    state : StatePaths, replay : ReplayPaths,
                    stub : StubPaths \cup {Nothing}]
PairCommands == [fp : Pairings, d : Pairings, state : StatePaths, replay : ReplayPaths,
                 stub : StubPaths, made : BOOLEAN]
PairingScopes == [d : Pairings, i : Phones]

ASSUME RecordsAssumption ==
    Nothing \notin CleanupJournals \cup PairCommands \cup PairingScopes \cup Stubs

\* An earlier release left one file of a name, and drew a desktop id with its state.
ASSUME InheritedAssumption ==
    \A left \in Inherited :
        /\ left \subseteq Locators
        /\ \A l, m \in left : l.name = m.name => l = m
        /\ \A l, m \in left : l.d = m.d => l.state = m.state

-----------------------------------------------------------------------------
(* Reading the records. *)

\* CleanupJournal::targets, ensure_not_pending.
Pending(st) == journal # Nothing /\ StubOf(journal) = st

\* The locator file of a stub, the current name first.
Found(st) ==
    LET named(n) == {l \in loc : l.name = n} IN
    IF named(Name(st.i, st.d)) # {} THEN named(Name(st.i, st.d)) ELSE named(LegacyName(st.i))

\* open_pairing_locator_record: the record must be of this very pairing.
Opened(st) == {l \in Found(st) : ~Pending(st) /\ StubOf(l) = st}

\* ensure_exclusive_cleanup_target: no other locator names the same state.
Exclusive(l) ==
    \A other \in loc : other.name # l.name => other.state # l.state /\ other.replay # l.replay

\* DesktopKeyState::open, FileReplayGuard::open.
StateOpens(l) == state[l.state] = l.d /\ l.d \in keys
ReplayOpens(l) == replay[l.replay] = Scope(l)

IsManaged(l) == <<l.state, l.replay>> = Managed[l.d]

\* Mutant: the journal is written for whatever the locator names.
AcceptsByPath(l) == IF Windows THEN state[l.state] # Nothing ELSE Exclusive(l)

\* start_cleanup, start_orphan_cleanup: what a removal asks of the files a locator
\* names.  On macOS state that is gone may be removed under its managed name, and
\* of a replay state under that name only the lock is taken.
Accepts(l) ==
    IF Windows
    THEN StateOpens(l) /\ ReplayOpens(l)
    ELSE /\ state[l.state] \in {l.d} \cup (IF IsManaged(l) THEN {Nothing} ELSE {})
         /\ IsManaged(l) \/ ReplayOpens(l)
         /\ Exclusive(l)

\* The locator a new removal would take: by its stub, or named itself.
Targets(kind, path) ==
    IF kind = "paired"
    THEN IF stub[path] = Nothing THEN {} ELSE Opened(stub[path])
    ELSE {l \in loc : l.name = path}

\* confirmation_fingerprint: of the pending removal, if it is the one asked for and
\* its stub is still its own or gone; else of the stub.
PairedFingerprint(u) ==
    IF journal # Nothing
    THEN IF journal.stub = u /\ stub[u] \in {Nothing, StubOf(journal)} THEN journal.fp ELSE Nothing
    ELSE IF stub[u] # Nothing THEN stub[u].fp ELSE Nothing

\* orphan_confirmation_fingerprint_in.
OrphanFingerprint(n) ==
    IF journal # Nothing
    THEN IF journal.stub = Nothing /\ journal.name = n THEN journal.fp ELSE Nothing
    ELSE LET found == {l \in loc : l.name = n} IN
         IF found = {} THEN Nothing ELSE (CHOOSE l \in found : TRUE).fp

Fingerprint(kind, path) ==
    IF kind = "paired" THEN PairedFingerprint(path) ELSE OrphanFingerprint(path)

-----------------------------------------------------------------------------
\* The files of the pairings an earlier release left; one of a managed name may
\* have lost its state.
RemovalInit ==
    \E left \in Inherited, lost \in BOOLEAN :
        LET has(l) == ~(lost /\ IsManaged(l)) IN
        /\ platform \in Platforms
        /\ loc = left
        /\ state = [s \in StatePaths |->
               IF \E l \in left : l.state = s /\ has(l)
               THEN (CHOOSE l \in left : l.state = s).d ELSE Nothing]
        /\ keys = {l.d : l \in left}
        /\ replay = [r \in ReplayPaths |->
               IF \E l \in left : l.replay = r
               THEN Scope(CHOOSE l \in left : l.replay = r) ELSE Nothing]
        /\ LET at == CHOOSE f \in [left -> StubPaths] :
                         \A l, m \in left : f[l] = f[m] => l = m
           IN  stub = [u \in StubPaths |->
                   IF \E l \in left : at[l] = u
                   THEN StubOf(CHOOSE l \in left : at[l] = u) ELSE Nothing]
        /\ journal = Nothing /\ removal = Idle /\ todo = <<>>
        /\ pair = Nothing /\ used = {l.fp : l \in left} \cup {l.d : l \in left}
        /\ calm = TRUE /\ faults = 0

-----------------------------------------------------------------------------
(* The explicit pair command. *)

\* run_pair up to the offer.  Windows opens a state that exists.  On macOS the
\* command is a setup with explicit paths: it has the lifecycle lock, wants every
\* path unused and named by no locator, and nothing pending.
PairBegins(s, r, u) ==
    LET p == CHOOSE q \in Pairings \ used : TRUE
        made == state[s] = Nothing
        d == IF made THEN p ELSE state[s] IN
    /\ pair = Nothing /\ used # Pairings
    /\ stub[u] = Nothing /\ replay[r] = Nothing
    /\ IF Windows
       THEN made \/ d \in keys
       ELSE /\ removal.pc # "running" /\ journal = Nothing /\ made
            /\ \A l \in loc : l.state # s /\ l.replay # r
    /\ state' = [state EXCEPT ![s] = d]
    /\ keys' = keys \cup {d}
    /\ pair' = [fp |-> p, d |-> d, state |-> s, replay |-> r, stub |-> u, made |-> made]
    /\ used' = used \cup {p}
    /\ calm' = FALSE
    /\ UNCHANGED <<platform, replay, loc, stub, command, faults>>

\* The locator that pair makes for the phone that answered.
NewLocator(i) ==
    [name |-> Name(i, pair.d), d |-> pair.d, i |-> i, fp |-> pair.fp,
     state |-> pair.state, replay |-> pair.replay]

\* commit_pairing_state: replay state, locator, stub, each created new; the
\* locator wants the state to be there.
PairCommits(i) ==
    /\ pair # Nothing
    /\ replay[pair.replay] = Nothing /\ state[pair.state] # Nothing /\ stub[pair.stub] = Nothing
    /\ \A l \in loc : l.name # Name(i, pair.d)
    /\ replay' = [replay EXCEPT ![pair.replay] = Scope(NewLocator(i))]
    /\ loc' = loc \cup {NewLocator(i)}
    /\ stub' = [stub EXCEPT ![pair.stub] = StubOf(NewLocator(i))]
    /\ pair' = Nothing
    /\ UNCHANGED <<platform, state, keys, command, used, calm, faults>>

\* rollback_failed_pairing, whatever failed: what this command made goes, except a
\* locator whose creation reported an error after the fact (Windows).  macOS keeps
\* the failed attempt, and refuses removals, until `setup --cleanup' does the same.
PairFails ==
    /\ pair # Nothing
    /\ replay' = [replay EXCEPT ![pair.replay] = Nothing]
    /\ IF pair.made
       THEN keys' = keys \ {pair.d} /\ state' = [state EXCEPT ![pair.state] = Nothing]
       ELSE UNCHANGED <<keys, state>>
    /\ \/ UNCHANGED <<loc, faults>>
       \/ /\ Windows /\ faults < MaxFaults /\ faults' = faults + 1
          /\ \E i \in Phones : /\ \A l \in loc : l.name # Name(i, pair.d)
                               /\ loc' = loc \cup {NewLocator(i)}
    /\ pair' = Nothing
    /\ UNCHANGED <<platform, stub, command, used, calm>>

-----------------------------------------------------------------------------
(* The removal commands. *)

\* The command shows the fingerprint, and the user types it.
Ask(kind, path) ==
    /\ removal.pc = "idle"
    /\ Fingerprint(kind, path) # Nothing
    /\ removal' = [pc |-> "asked", kind |-> kind, path |-> path,
                   fp |-> Fingerprint(kind, path)]
    /\ UNCHANGED <<platform, files, journal, todo, pair, used, calm, faults>>

\* The steps of execute_cleanup for this journal.
Steps == <<"replay", "keys", "state", "locator", "stub", "journal">>
Runs == removal' = [removal EXCEPT !.pc = "running"] /\ todo' = Steps

\* The fingerprint is read again under the lifecycle lock.
Confirmed == Fingerprint(removal.kind, removal.path) = removal.fp

\* Mutant: a pending removal is resumed only with its public stub.
ResumableNeedsStub ==
    /\ Confirmed /\ journal # Nothing
    /\ journal.stub # Nothing => stub[journal.stub] # Nothing

\* A pending removal goes on by its journal; macOS looks again whether the target
\* is exclusive.
Resumable == Confirmed /\ journal # Nothing /\ (Windows \/ Exclusive(journal))

\* start_cleanup, start_orphan_cleanup.
Startable ==
    {l \in Targets(removal.kind, removal.path) :
         Confirmed /\ journal = Nothing /\ l.fp = removal.fp /\ Accepts(l)}

Starts ==
    \E l \in Startable :
        /\ journal' = [name |-> l.name, d |-> l.d, i |-> l.i, fp |-> l.fp,
                       state |-> l.state, replay |-> l.replay,
                       stub |-> IF removal.kind = "paired" THEN removal.path ELSE Nothing]
        /\ calm' = (pair = Nothing)
        /\ Runs

\* remove_desktop_state, remove_orphaned_desktop_state, under the lifecycle lock,
\* which on macOS a pair command holds.
Begin ==
    /\ removal.pc = "asked"
    /\ Windows \/ pair = Nothing
    /\ \/ Starts
       \/ Resumable /\ Runs /\ UNCHANGED <<journal, calm>>
       \/ ~Resumable /\ Startable = {} /\ removal' = Idle /\ UNCHANGED <<journal, todo, calm>>
    /\ UNCHANGED <<platform, files, pair, used, faults>>

\* execute_cleanup: one object, if it is there; the journal last.  Secure Enclave
\* keys cannot be deleted and go with the state that wraps them.
Delete ==
    LET k == Head(todo)
        on(what, f, path) == IF k = what /\ path # Nothing THEN [f EXCEPT ![path] = Nothing] ELSE f
    IN
    /\ removal.pc = "running"
    /\ replay' = on("replay", replay, journal.replay)
    /\ keys' = IF k = (IF Windows THEN "keys" ELSE "state") THEN keys \ {journal.d} ELSE keys
    /\ state' = on("state", state, journal.state)
    /\ loc' = IF k = "locator" THEN {l \in loc : l.name # journal.name} ELSE loc
    /\ stub' = on("stub", stub, journal.stub)
    /\ IF k = "journal"
       THEN journal' = Nothing /\ removal' = Idle /\ todo' = <<>>
       ELSE todo' = Tail(todo) /\ UNCHANGED <<journal, removal>>
    /\ UNCHANGED <<platform, pair, used, calm, faults>>

\* The removal dies or a deletion fails; the journal stays.
Fault ==
    /\ removal.pc = "running" /\ faults < MaxFaults
    /\ faults' = faults + 1
    /\ removal' = Idle /\ todo' = <<>>
    /\ UNCHANGED <<platform, files, journal, pair, used, calm>>

\* The user moves, overwrites or loses a public stub, never under a running command.
MoveStub(u, v) ==
    /\ removal.pc # "running" /\ pair = Nothing
    /\ stub[u] # Nothing /\ u # v
    /\ stub' = [w \in StubPaths |-> IF w = u THEN Nothing ELSE IF w = v THEN stub[u] ELSE stub[w]]
    /\ UNCHANGED <<platform, state, keys, replay, loc, command, pair, used, calm, faults>>

-----------------------------------------------------------------------------
\* The pending removal is asked for as it was.
AskAgain ==
    /\ journal # Nothing
    /\ IF journal.stub = Nothing THEN Ask("orphan", journal.name) ELSE Ask("paired", journal.stub)

RemovalNext ==
    \/ \E s \in StatePaths, r \in ReplayPaths, u \in StubPaths : PairBegins(s, r, u)
    \/ \E i \in Phones : PairCommits(i)
    \/ PairFails
    \/ \E u \in StubPaths : Ask("paired", u)
    \/ \E n \in Names : Ask("orphan", n)
    \/ Begin \/ Delete \/ Fault
    \/ \E u \in StubPaths, v \in StubPaths \cup {Nothing} : MoveStub(u, v)

RemovalSpec == RemovalInit /\ [][RemovalNext]_removalVars

\* Commands run on, and the user repeats a removal that is pending.
FairRemoval ==
    /\ RemovalSpec
    /\ WF_removalVars(PairFails) /\ WF_removalVars(Begin) /\ WF_removalVars(Delete)
    /\ SF_removalVars(AskAgain)

-----------------------------------------------------------------------------
(* Properties. *)

\* Every variable has its type.
RemovalTypeOK ==
    /\ platform \in Platforms
    /\ state \in [StatePaths -> Pairings \cup {Nothing}] /\ keys \subseteq Pairings
    /\ replay \in [ReplayPaths -> PairingScopes \cup {Nothing}]
    /\ loc \subseteq Locators /\ journal \in CleanupJournals \cup {Nothing}
    /\ stub \in [StubPaths -> Stubs \cup {Nothing}]
    /\ removal \in [pc : {"idle", "asked", "running"}, kind : {"paired", "orphan", Nothing},
                   path : StubPaths \cup Names \cup {Nothing}, fp : Pairings \cup {Nothing}]
    /\ pair \in PairCommands \cup {Nothing}
    /\ used \subseteq Pairings /\ calm \in BOOLEAN /\ faults \in 0 .. MaxFaults

\* A step of a removal takes nothing that another pairing's locator names and that
\* is really that pairing's, no other locator, and no other pairing's stub.
Harmless ==
    removal.pc = "running" =>
        /\ \A l \in loc : l.fp # journal.fp =>
               /\ l \in loc'
               /\ StateOpens(l) => StateOpens(l)'
               /\ ReplayOpens(l) => ReplayOpens(l)'
        /\ \A u \in StubPaths :
               stub'[u] # stub[u] => stub[u] = StubOf(journal)

\* A removal, interrupted or not, takes the files of the confirmed pairing alone,
\* whatever stale locators name the same paths and wherever stubs have moved.  On
\* Windows this is so while no pair command reuses a desktop state or runs before
\* the removal is complete (start_cleanup, ensure_exclusive_cleanup_target).
OthersUnharmed ==
    [][removal.pc = "running" =>
           \/ Windows /\ (~calm \/ \E l \in loc : l.d = journal.d /\ l.fp # journal.fp)
           \/ Harmless]_removalVars

\* A removal that was begun can always be completed by asking for it again, with
\* any part of its files gone, unless the user put another pairing's stub where its
\* own was (confirmation_fingerprint, remove_desktop_state).
RemovalEnds ==
    journal # Nothing ~>
        \/ journal = Nothing
        \/ journal.stub # Nothing /\ stub[journal.stub] \notin {Nothing, StubOf(journal)}
=============================================================================
