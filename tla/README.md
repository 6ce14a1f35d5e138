# Verification of age-plugin-phone

`age-plugin-phone` lets the hardware key of a phone decrypt age files on a
desktop. A desktop plugin asks a paired phone to unwrap a file key; the phone
checks and remembers the request, asks its user with a biometric prompt and
answers with the file key, sealed to a one-time key of the asking run; the
desktop checks and remembers the answer and hands the key to age.

This directory holds TLA+ modules of the parts of that program in which the
order of steps decides, the TLC instances that check them, and proofs for TLAPS.
Paths below are relative to `src/`; KT stands for
`plugins/tauri-plugin-phone-identity/android/.../phone_identity/` and IOS for
`plugins/tauri-plugin-phone-identity/ios/`.

    tlc -workers 2 -config MCReplayRequests.cfg MCReplayStore
    tlapm ReplayProofs.tla

## 1. Inventory

| Part | Source | State | Operations | Talks to |
|---|---|---|---|---|
| Replay guard | `crates/core/src/protocol/replay.rs`, `replay_macos.rs`, `crates/platform-storage` | one file per pairing scope: consumed messages, clock floor; a lock file; memory copy; poisoned flag | create, open, consume request or response, commit | protocol, setup, cleanup |
| Unwrap protocol | `crates/core/src/protocol/mod.rs`, `crates/desktop/src/unwrap.rs`, `age_identity.rs`, `main.rs` | one session per run, signed requests and responses | create, verify, seal, open, receive, cancel | replay guards of both sides, a route |
| Phone operations, Android | KT `PhoneIdentityPlugin.kt`, `UnwrapOperationState.kt`, `StreamTransport.kt`, the native controllers | some fifteen nullable fields under `stateLock`, each naming the operation that owns it; worker threads | the Tauri commands, `onStart`/`onStop`, network callbacks, the auto-listener, biometric callbacks | sockets, main-thread queue, stores |
| Phone operations, iOS | IOS `Sources/PhoneIdentityPlugin.swift`, `StreamTransport.swift` | one `operationActive` flag, an auto-listener | the same commands | Network framework, stores |
| Identity and pairing store | KT `PhoneIdentityKeyStore.kt`, `PairingStateStore.kt`, `PairingConfirmationSession.kt`; IOS `Sources/IdentityKeyStore.swift`, `PairingStateStore.swift` | metadata file (preparing, committed, deleting), two hardware keys, a file per pairing and its `.deleting` twin | provision, open, delete, pair, revoke, consume request | operations |
| Desktop lifecycle | `crates/desktop/src/setup.rs`, `main.rs`, `cleanup_journal.rs`, `desktop_cleanup.rs`, `locator.rs`, `macos_state.rs`, `pairing.rs` | setup journal, cleanup journal, keys, state, replay state, locator, stub; a lifecycle lock | setup, resume, cleanup, remove desktop state, open a locator | replay guard, plugin runs |
| QR transfer | `crates/core/src/protocol/qr.rs`, `crates/desktop/src/qr_terminal.rs`, `qr_scanner.rs`; KT `QrFraming.kt`, `QrScanSession.kt`, `NativeQrScannerController.kt`; IOS `QRFraming.swift`, `NativeQRFlow.swift` | an active assembly, its start, poisoned flag, scan deadlines | show, restart, push a frame, expire, cancel | a camera |
| Routes | `crates/desktop/src/adb.rs`, `wifi.rs`, `transport.rs`, `transport_policy.rs`; KT `WifiDiscovery.kt`, `WifiAutoListen.kt`, `WifiNetworkMonitor.kt` | an ADB reverse rule and its guardian process; discovery candidates | resolve, connect, exchange, discover, clean up | sessions, adb, network |
| USB wake-up | KT `UsbUnwrapWakeCoordinator.kt`, the mobile app's `MainActivity.kt` | a pending wake-up | an intent arrives, the plugin registers or goes | the activity, the plugin |
| Explicit `pair` | `main.rs` (`run_pair`, `commit_pairing_state`, `rollback_failed_pairing`), `pairing.rs` | desktop state, replay state, locator, stub | pair, roll back | phone, removals |
| Age plugin | `age_identity.rs`, `age_recipient.rs` | one run: identities, files, results | wrap; match stanzas, choose a phone, report | age, unwrap protocol |
| Messages and stanzas | `crates/core/src/recipient`, the messages of `protocol/mod.rs`, their Kotlin and Swift twins | none of their own | sign, verify, seal, open, wrap, match | everything |
| Keys and encoding | `crates/platform-keys`, CBOR | hardware keys | platform calls, pure functions | everything |
| User interface, scripts, docs | `apps/mobile`, `scripts`, `website`, `docs` | reports on a screen | - | plugin commands |

What makes each part correct, and what makes that hard:

- **Replay guard.** No live message is accepted twice. Hard: acceptance is
  reported only after three storage steps, each of which may fail, be cut short
  by a crash, or be undone by a power loss; two processes share the file; the
  clock moves both ways while entries are pruned by it.
- **Unwrap protocol.** One prompt per request, one approval per released key,
  and nobody starves. Hard: the route duplicates and reorders, both sides
  restart, and a plugin run and a command run take the lock at different times.
- **Phone operations.** One operation owns the phone; what was cancelled stays
  cancelled; leaving the foreground ends everything; the auto-listener comes
  back. Hard: worker threads learn late that they were cancelled, and the
  posted runnables and callbacks they leave behind run after their successor.
- **Identity and pairings.** Keys are never lost track of, pairings do not
  outlive the identity, a consumed request stays consumed. Hard: every
  operation is a series of durable steps, any of which fails or is the last
  before the app dies, and the next operation knows only the disk.
- **Desktop lifecycle.** Private files are always a finished pairing or named by
  a journal; what is partial is never opened; cleanup ends. Hard: the same, with
  different orders on Windows and macOS, and plugin runs that do not take the
  lifecycle lock.
- **QR transfer.** What is delivered is one honest message, and a steady camera
  gets it in time. Hard: the transfer is restarted while old chunks are held,
  and two clocks (of a frame, of a timer) decide about the same assembly.
- **Routes.** An operation stays on the route its user named, a reverse rule is
  always watched over and goes in the end, and only an answer that the paired phone
  signed for this query decides a discovery. Hard: guardians and sessions of several processes act on
  one fixed port without a common lock, and adb commands take effect unreported.
- **Explicit `pair` and removal.** The right two devices end up paired; a
  rollback or a removal takes its own files and nobody else's. Hard: commands
  share desktop states and paths without a lock and undo by path, locators go
  stale, and the user moves stubs.
- **Age plugin.** age hears "not for these identities" only when that is true,
  and a phone is asked at most once per file, about a stanza that it can open.
  Hard: headers of other tools, missing pairing files, colliding public bytes.

`PROJECT.json` lists the hazards one by one at their source lines, with the
properties that would notice them.

## 2. Modules

    ReplayContract <-- ReplayStore <-- ReplayPlatforms     (each <-- is a refinement)
          ^
          |  both replay stores of
    UnwrapProtocol            PhoneOperations --one at a time--> PhoneIdentity

    Stanzas <-- AgePlugin     Stanzas <-- Envelopes <-- Pairing      (<-- extends)
    Journals <-- DesktopLifecycle
    Removal     Routes     QrTransfer

A module `XProofs` holds the theorems about `X`, a module `MCX` its small
instances. `ReplayProofs` holds the theorems about all the replay modules and
about `Removal`, `RoutesProofs` also those about `QrTransfer`.

### ReplayContract, ReplayStore and ReplayPlatforms

`ReplayContract` is the promise of a replay guard in one variable: the list of
consume calls that returned Ok. `ReplayStore` is `FileReplayGuard` on the Unix
primitives: `disk` is the file as processes see it, `durable` what a power loss
would leave, `lock` the advisory lock, `mem`, `phase` and `call` each process's
guard and the call it is committing. `Create`/`CreateSynced`, `Open`, `Consume`,
`Rename`, `CommitSynced`, `CommitFails` and `Close` are the steps of
`replay.rs:450-560` over `unix.rs:21-99`; `Writeback` and `PowerLoss` are the
file system. `Admissible`, `Retained`, `Consumed` and `Valid` are the checks,
the pruning, the next state and the validation of a file on opening. A refused
call works on a clone and changes nothing, so it is a stuttering step.

`ReplayPlatforms` adds what macOS does differently (`replay_macos.rs` over
`platform-storage/src/macos.rs`): the `marker` that brackets a commit (`Mark`,
`MarkerSynced`, `Unmark`) and beside which no guard opens, and the file that
exists under its final name before it has its contents (`torn`, `Fill`; the
writing and syncing of a new file's bytes is one step). Windows writes through,
so its file is durable no later than a Unix one and its behaviours are among
those of `ReplayStore`. Apart from the marker and the torn file every step is a
step of `ReplayStore`.

### UnwrapProtocol

Plugin runs hold the replay lock from before their request until their answer
(`age_identity.rs:322-470`); the `unwrap` command takes it only around the
answer (`main.rs:1401-1500`). `requests` are all requests ever signed, and the
route is nothing but the freedom to present any of them, and any of the
`approvals`, at any time and any number of times. The phone's `Consume`,
`ConsumeInVain` (consumed, and then no prompt), `Approve` and `GiveUp` are
`preparePhoneUnwrap`, `performPhoneUnwrap` and the cancellations. Both replay
guards are instances of `ReplayContract`: what a guard promises is all that this
module uses, and that the file-backed guard keeps the promise is what
`KeepsContract` checks and `ImplementsContract` proves. Signatures and sealing
are perfect here: a response carries the number of the request it answers;
`Envelopes` looks at what they are over.

### Stanzas and AgePlugin

`Stanzas` is `crates/core/src/recipient` and `age_recipient.rs` with symbolic
cryptography: key pairs, agreed secrets, derivations that list everything that
enters them, sealed boxes that open only under the same key and associated data.
`Selector` is the few public bytes by which a tag is recognised, and may collide.

`AgePlugin` is one run of the identity-v1 plugin (`age_identity.rs`). For each
file it sorts out the stanzas (`TakeUnusable`, `TakeForeign`, `TakeTagged`,
`TakePrivate`: `unwrap_with_prepared_exchange`), chooses an identity
(`SelectAnonymous`, `SelectPrivate`, `MissUnopened`, `NoneSelected`:
`select_candidate`), asks its phone (`Ask`) and reports (`Answered`, `Failed`,
`Cancelled`, `Aborted`). What varies is the data -
headers, the state of each identity's files - and the end of each exchange.

### Envelopes and Pairing

`Envelopes` has the four signed messages of the protocol as records: what their
signatures and hashes are over and what each side checks before it believes one.
A symbolic encoding has one form per message; bytes of any other form do not
decode. `Pairing` is `pair` on Linux and Windows with the phone's confirmation:
commands that may share their paths and run at the same time (`Start`, `OpenState`,
`CreateSoftwareState`, `CreateKeys`), a route that mixes up, repeats and garbles (`SendOffer`,
`Receive`, `TakeResponse`), the fingerprint that the user carries from screen to
screen (`PhoneConfirms`, `Confirm`), the commit file by file (`CreateReplay`,
`CreateLocator`, `CreateStub`) and its undo (`RollBackStep`), with a death at any
point. The paths are whatever the user gives (`Given`): two commands may have one
desktop state, one replay state, one identity file. No lock keeps them apart; what
does is that the replay state, the locator and the identity file, and a desktop state
that was not found, are created only where nothing is. `beside` is history: the
commands under way when this one started.

### PhoneOperations

The Android plugin. An operation is a slot with a `kind` and a `stage`; the
fields are the plugin's (`usbToken`, `usbSession`, `wifiToken`, `listener`,
`wifiSession`, `pending`, `response`, ...). One action is one critical section
of `stateLock`, with the neighbouring steps of its thread that no other thread
can see. Tauri commands, activity callbacks, posted runnables, timeouts and
biometric callbacks run on the main thread; every network operation has a
worker (`Worker(o)`), which goes on after its operation lost the field that
named it, until its next critical section. The stage `posted` is the gap between
a worker's last check and the run of the runnable it posted, `answered` the one
between the response of a pairing worker (`PairingSend`) and the clearing of its
session field (`PairingPost`), which the USB worker does without comparing
(`PhoneIdentityPlugin.kt:521`), also when a successor's session is in it. `onStop` takes the
lock several times (`Stop`, `StopUsb`, `StopLast`), and workers act in between.
The generation counter of the auto-listener is abstracted to one Boolean: an
evaluation of the current generation is posted. Tokens are fresh UUIDs, so a
slot is reused only when no field, callback or worker refers to it. QR unwraps
and pairings scan first (`Scanned`) and have no worker. `Draws` says which kinds
each slot may be, and is drawn once.

### PhoneIdentity

Both stores of both platforms, `os` being chosen at the start. `op` is the
running operation and `step` its next durable step, so that a crash or an
uncaught error (`Interrupted`) can fall between any two. `DropStages` are the
deletions that end an identity or an attempt, `MakeStages` the creations.
Where the platforms differ the actions say `Android`: whether a pending file
is overwritten (`Rename`), the order of `revokeAll` (`RevokeNext`), what a
failed undo passes over (`SkipKey`), whether pairing provisions on the way
(`BeginPairing`). One operation runs at a time: that is `SingleOwner` of
`PhoneOperations` on Android and the `operationActive` flag on iOS. Ids are 16
random bytes, so provisioning draws from `Ids \ used`. Desktops in `Kept` are
those whose `pair` reopens an existing state and so offers the same desktop id
again (`main.rs:432`); `setup` draws a fresh one. Entries do not expire here:
time is the business of `ReplayStore`.

### Journals and DesktopLifecycle

`Journals` is the setup and the cleanup journal: their stages, the versions a
build reads (`Decodes`, `DecodesCleanup`) and earlier builds wrote, and the names
that may be claimed beside each other on macOS. The setup code and the transport,
which change nothing here, are left out.

`DesktopLifecycle` is `setup`, `--resume`, `--cleanup`, `remove-desktop-state`
and `remove-orphaned-desktop-state` on Windows and macOS, beginning with whatever
an earlier release may have left (`Legacy`). Files are pairs <<kind, desktop id>>
and are `whole` or `torn`: Windows moves a complete file into place, macOS
creates it under its final name and then fills it (`CommitCreates`,
`CommitWrites`; `JournalWritten` and `RemoveWrites` for the journals). `cmd`,
`target` and `todo` are the command that holds the lifecycle lock and the files
it still has to create or delete. Plugin runs do not take that lock: `Select`
opens a locator, `Guard` takes the pairing's replay lock, `RunEnds` gives it
back. On macOS the replay lock is dropped after the cleanup journal is written
and taken again (`Relock`); Windows does not hold it.

### Removal

Whose files a removal takes. Where `DesktopLifecycle` has the order of the steps,
`Removal` has the contents: locators and journals name files by path, two
pairings may share a desktop state, stubs are moved by the user (`MoveStub`, not
under a running command), and on Windows `pair` runs without the lifecycle lock
(`PairBegins`, `PairCommits`, `PairFails`). Asked to remove by stub or by locator
(`Ask`), the command finds the fingerprint, checks that the target is exclusive
(`Startable`), writes the journal (`Begin`) and deletes what the journal names,
again and again after a fault (`Delete`, `Fault`, `AskAgain`).

### Routes

`Resolves` is the transport policy: choice, operation and hints to a route.
`Discovery` is a query on the local network, whose answers come late, twice or
from strangers, who may also send the phone's own answer on from their address
(`Answer`, `Hear`): the signature covers the nonce and the two ids
(`wifi.rs:411`), so that the address stays the hint that `wifi.rs:3` calls it.
One endpoint is chosen at the deadline (`DiscoveryEnds`). Developer USB is the
one reverse rule of a device: `ListRules`, `Arm` (the guardian), `Create`,
`Launch`, `Exchange`, `RemoveRule`, `Cleanup`, each adb command possibly
failing or taking effect unreported; `Die` kills the operation anywhere,
`LateCreate` is the adb child that goes on after it, `GuardRemoves` and
`GuardFails` the guardian. `crossed` remembers the operations that removed a
rule that was not theirs, which the list-then-create race allows (section 3).
adbd forgets the rules of a connection that is lost (`Plug`).

### QrTransfer

A sender that shows the frames of a transfer in a cycle, may be hidden or
restarted, a camera that may miss or repeat any frame or fail, and the three
receivers. Time is counted in frame intervals and clocks are monotonic.
Receivers differ in what a timed-out assembly means (the desktop begins again
with the frame at hand, the phones end the scan), in who notices it (Android also
has a timer), and in the overall deadline (iOS has none). Chunks of a defective
sender are wrong or too long; text that does not parse is skipped by all three
and left out.

## 3. Runs

Between them the passing runs fire every action of every module. Deadlock is
checked only in `replay_requests`, since the other systems may really stop
(bounded requests, operations that wait for the user).

| Run | Question | Bounds, and why they are enough |
|---|---|---|
| `replay_requests` | Does the file-backed guard keep the contract through crashes, failed writes and clock changes, on Unix and on macOS? | Two processes (the lock has two sides); four requests that share ids or nonces pairwise; capacity 2 (pruning and refusal both happen); time 0..3 with lifetime 2, so that entries are expired, live and too far ahead |
| `unwrap_safety` | Can a request be prompted twice or a key released without its own approval? | One plugin and one command run, two files (to confuse), two requests, time 0..2 with lifetime 1, freely set clocks |
| `unwrap_served` | Is every waiting plugin served when nothing goes wrong? | Two plugin runs and a command run compete for the lock and the phone; four requests |
| `age_plugin` | Is the right stanza put before the right phone, and a miss reported only when it is one? | Every list of up to two identities of two phones, two files of up to two stanzas out of twelve kinds (paired, legacy, tagged, a stranger's, malformed, spliced, another plugin's), an ephemeral key under which all public bytes collide |
| `pairing` | Which devices end up paired, and what does a failing command leave of the others? | Two commands that share the desktop state or the replay state, one after the other or at the same time, two phones, two responses (the right one and one to confuse); commands and phones are symmetric, and every property is, too. A shared identity file changes nothing: it is never undone |
| `phone_operations` | Do late workers and callbacks disturb their successors, and is the listener re-armed? | Three unwraps or local screens (one overtaken, one that overtook, one late callback), or two operations with pairings among them |
| `phone_identity` | What does an interruption anywhere leave behind, and can it be finished? | Two identities in succession, one desktop with fresh ids and one that keeps its id, three pairings (pair, revoke, pair again), two faults: one within an operation and one within its recovery |
| `lifecycle` | The same for setup and cleanup on the desktop | Two pairings in succession after whatever an earlier release left, one plugin run, two faults |
| `removal` | Whose files does a removal take, and can it be completed? | Three pairings (one inherited, or two that share a state, and new ones), two phones, two state, replay and stub paths, one fault (the removal is then asked for again) |
| `routes` | Does an operation stay on its route, and who takes its reverse rule down? | Two operations on one device, two addresses, Linux and Windows (macOS has the default route of the one and the preflight of the other), one failing adb command, one change of the device, two answers: two races on one rule, each with one surprise |
| `qr_transfer` | Is what is delivered whole, and delivered in time? | Two honest transfers and a defective one, three frames, an age limit of three intervals; time goes two intervals beyond the scan deadline, which itself exceeds a stale assembly's age and two rounds |
| `phone_deaf_after_pairing` | Does the auto-listener come back after pairings? (It does not.) | Two operations with pairings among them |

Properties, run by run:

- `replay_requests`: `NoLiveReplay`, `AcceptedDurable` (what was reported
  survives), `FileReopens` (a crash never leaves a file that `open` refuses),
  `CertainOpen` (on macOS no guard rests on a replacement that a power loss could
  undo) and the refinement `KeepsContract`.
- `unwrap_safety`: `PromptedOnce`, `ReleaseIsApproved`; `unwrap_served`:
  `PluginServed`.
- `age_plugin`: `MissIsReal` (no file is called foreign that age wrapped for a
  configured identity), `AskedIsOpenable` (a spliced private stanza wakes no
  phone), `CertainOwner` (a stanza that names nobody is put before a phone only
  if all it could be meant for are that phone's), `AskedOnce`.
- `pairing`: `RightDevices`, `FinishedStays` (what a finished pairing keeps
  while another fails, and which command can have undone the rest),
  `OneReplayPerScope`, `RecordsWork` (the records, the recipient in the
  identity file and the messages carry a file key there and back).
- `phone_operations`: `SingleOwner`, `PromptsOwned`, `CancelledNeverSent`,
  `StopEndsWifi` (no Wi-Fi field is left when `onStop` returns, and while the
  activity is stopped only a new pairing command fills one),
  `RearmsAfterUnwraps` (`Rearms` where no slot draws a Wi-Fi pairing;
  `phone_deaf_after_pairing` shows why the rest is excluded).
- `phone_identity`: `KeysNamed`, `RecordsOwned`, `AskedOnce`,
  `LivePairingStays`, `InterruptedEnds`.
- `lifecycle`: `ClaimedNamesApart`, `OneJournal`, `Accounted`,
  `AvailableIsComplete`, `ReadableRecovers`.
- `removal`: `OthersUnharmed`, `RemovalEnds`.
- `routes`: `RouteIsChosen`, `OwnPhoneAnswered` (an unwrap that looked for its phone
  connects only if that phone answered this query, and to an address that sent its
  signature; whose address that is, only the exchange shows), `RuleGuarded`,
  `AnsweredClean`, `RuleGoes`.
- `qr_transfer`: `DeliveredWhole` and `SteadyDelivers`. The latter bounds time by
  counting the intervals in which the camera was steady, so that it is an
  invariant and needs no fairness of the camera.

Type invariants are not among the runs' properties where a theorem states them
(section 4); each module has one, `TypeOK`.

### Where the code and its documents disagree

One run checks a documented claim and finds it violated.

- `phone_deaf_after_pairing`: the runnable of a superseded Wi-Fi pairing clears
  `activeWifiToken` without comparing it (KT `PhoneIdentityPlugin.kt:581`); the
  auto-listener that has taken its place is orphaned and nothing re-arms it,
  against `docs/adr/0018-owner-only-foreground-wifi-poc.md:43`.

Others were met while modelling. They are part of the models, whose properties
are stated with the exceptions they call for, and have no run of their own.

1. `onStop` cancels the pending unwrap and the USB session in two critical
   sections (KT `PhoneIdentityPlugin.kt:424`, `426`): a USB worker that publishes
   its request in between (`757-762`) survives both, against the comment at
   `1192-1195`. Hence `StopEndsWifi` speaks of Wi-Fi only.
2. A desktop that keeps its id can pair again after its revocation, which
   re-creates the revoked scope without its consumed requests (KT
   `PairingStateStore.kt:327`), against ADR 0017. Hence `AskedOnce` of
   `PhoneIdentity` speaks of desktops with fresh ids.
3. The rollback of a failed `pair` leaves the locator (`main.rs:1272`,
   `locator.rs:126`), against its own message (`main.rs:1310`).
4. Two sessions of one device may both list no reverse rule and then both create
   it (`adb.rs:251`), against `docs/architecture.md:174-176`: that is what sets
   `crossed`.
5. `pair` reuses an existing desktop state (`main.rs:436`), against
   `docs/manual/reference/commands.md:45`.
6. macOS creates a file under its final name and then fills it
   (`platform-storage/src/macos.rs:277`). A journal left empty by a crash in
   between is refused by every command until it is deleted by hand, against
   `docs/macos-quickstart.md:86-87`. Hence `ReadableRecovers` speaks of journals
   that were completely written.
7. On Windows `pair` takes no lifecycle lock and does not look for a cleanup
   journal: a removal, or its resumption, deletes by path the files of a pairing
   made meanwhile (`desktop_cleanup.rs:92`, `main.rs:436`), against the comment
   at `desktop_cleanup.rs:74`. Hence the exception in `OthersUnharmed`.
8. On Linux and Windows two `pair` commands at the same time may undo one another.
   The first finds no desktop state, makes one and waits for its phone; the second
   reuses that state (5.) and finishes; then the exchange of the first fails, and
   `rollback_failed_pairing` removes the state and, on Windows, its keys by path
   (`main.rs:531`, `1320`), because the first command had made them. The second
   pairing keeps its locator and its identity file and can no longer be used. The same
   with a replay path given to both: the first fails to create the replay state that
   the second has made meanwhile, and its rollback removes it. Hence the exceptions
   `StateUndone` and `ReplayUndone` in `FinishedStays`: a command that ran at the same
   time, had the same path (and, for the state, had found none), and rolled back.
   Commands that run one after the other never meet them.

### Fairness

- `UnwrapProtocol!PatientSpec` is the system in which nobody gives up, no clock
  is set, and the phone's clock is within a lifetime of the desktop's; the phone
  consumes, its user approves and the run receives, each weakly fairly. Nothing
  less would let a key arrive.
- `PhoneOperations!FairSpec`: the main thread drains its queue, and each
  blocking call of a worker has a timeout, except the passive accept of the
  listener, which is not fair until its socket is closed. Nothing is assumed of
  the user or of the network.
- `PhoneIdentity!Spec`: a running operation goes on, and a user who finds an
  identity pending deletion, or half made, asks again. Faults are finitely many.
- `DesktopLifecycle!FairSpec`: commands run on, plugin runs end by their
  timeouts, and the user repeats the cleanup that a journal calls for. The
  latter is strong fairness, for a cleanup is refused while another command, or
  a plugin run with the replay lock, is at work, again and again.
- `Removal!FairRemoval`: a command that was started goes on, a `pair` ends, and the
  user repeats a removal that was interrupted; strongly, for it is refused while
  another command is at work.
- `Routes!FairSpec`: every wait of an operation and of its guardian has a
  deadline, and an adb child that outlives its parent ends. Nothing is assumed
  of the phone, the cable or the network.

`InterruptedEnds` excludes one state of Android: an active pairing beside the
pending file of its revoked predecessor. `revokeState` then fails with
`DELETION_PENDING`, so an identity that is being deleted never gets past it; only
`revokePairing` of the pending file, before the deletion has begun, clears it.

## 4. Proofs

TLC's instances are small; the theorems hold for every value of the constants
that the named assumptions admit.

**ReplayProofs**, from `ConstantsAssumption` and `CapacityAssumption`:
`TypeCorrect`, `DurableAcceptance` (`AcceptedDurable`), `NoLostUpdate`,
`ImplementsContract` (`KeepsContract`), `ReplaySafety` (`NoLiveReplay`),
`FloorAdvances`, `AlwaysReopens` (`FileReopens`). The invariant `IInv` says that
both the visible and the durable file *cover* the history: every accepted
message that is not behind the file's clock floor is among its entries. It needs
`LockHeld` and `GuardOK` (a guard that is about to rename has the file in
memory, and its call is admissible), because only then does the renamed file
cover what the replaced one did, and `DurableBehind`, because a power loss may
come between rename and sync. With coverage, a message that repeats a live one
is refused by `Admissible`, which gives the refinement and, through it, the
absence of replays. `PlatformsImplementStore`: every step on every platform is a
step of `ReplayStore` or changes none of its variables, so these theorems hold on
macOS and Windows too; `PlatformsSafe` spells out what follows.
`OpensOnlyTheCertain` (`CertainOpen`) needs an invariant of its own, `Guarded`: by
every replacement that a power loss could undo stands a marker that is itself
durable.

From `RemovalAssumption`, `RecordsAssumption` (no record is the value for "none")
and `InheritedAssumption`, `TakesOwnAlone` (`OthersUnharmed`) and
`RemovalTypeCorrect` are about `Removal`, whose proofs stand in the same module.
`InheritedAssumption` says what an earlier release may have left: files of
different names, and each desktop id with one state, which it was drawn with;
locators of either kind of name may share anything else. `RemovalInv` has a part for
each platform. On macOS, `Exclusively`: while a journal exists no pair command runs
and no other locator names the target's paths, for which `OneState` is needed, since
the keys go by desktop id and not by path. On Windows, `Calmly`: as long as no pair
command has run since the journal was written, each path in it still holds what it
held then, or nothing. `NameKept` says of both that the target's name has not been
given away, and `Running` that the stub to be deleted is the target's, also when the
removal is resumed after the user moved stubs.

**UnwrapProtocolProofs**, from `RunsAssumption`: `TypeCorrect`,
`NeverPromptedTwice` (`PromptedOnce`), `EveryReleaseApproved`
(`ReleaseIsApproved`). `Remembered` says that whatever was put to the user is in
the phone's replay store; the contract's `MayAccept` then lets a request pass
again only after it has expired, when `TimeValid` refuses it. `Waiting` says that
a run waits for its own request and for none that has been answered, which alone
keeps releases and answers apart: the desktop's replay store is not needed for
it. Together with `ImplementsContract` this covers the protocol on top of
the files.

**PhoneIdentityProofs**, from `IdentityAssumption`: `TypeCorrect`,
`KeysAreNamed` (`KeysNamed`), `RecordsAreOwned` (`RecordsOwned`),
`RequestsAskedOnce` (`AskedOnce`) and `LivePairingsStay` (`LivePairingStays`).
Whether the metadata may go depends on how far the operation has come, which the
properties do not say; `Control` does: at each step, what the steps before it
have established (no pairing is left when the keys are dropped, the identity key
is gone or passed over when the signing key is dropped, and so on). `Remembered`
says where a request that has been asked about is remembered: in the record
that consumed it, until the scope is scrapped, and a scrapped scope of a desktop
with fresh ids is never active again. Each conjunct of `IInv` is preserved by
each action (one lemma per conjunct, one step per action).

**DesktopLifecycleProofs**, from `JournalsAssumption`, `FilesAssumption` and
`LifecycleAssumption`: `TypeCorrect`, `NeverTwoJournals` (`OneJournal`),
`NothingStranded` (`Accounted`), `SelectedIsComplete` (`AvailableIsComplete`).
The invariant ties the journals to the command at work (`SetupNames`,
`RemoveNames`), says that a setup makes no locator and its keys before their
metadata (`Provisions`), that a commit has made what is no longer on its list
(`Commits`), that a deletion has deleted what is no longer on its own, the lock
after the replay state (`Deletes`), and that a run that waits has the replay lock
(`Waits`). The base case is not trivial: the files an
earlier release left must satisfy it. `ClaimsStayApart` (`ClaimedNamesApart`) needs
no invariant: it is about what `validate_explicit_root` accepts. The run tries the
names of `Names`; `AcceptedApart` says it of names of any length and any parts, of
which `"A"` stands for those that are not in lower case. Extensions decide it
(`KeptBack`): the one name whose sidecar has none, the empty one, is refused.

**PhoneOperationsProofs**, from `OperationsAssumption`: `TypeCorrect`, `OneOwner`
(`SingleOwner`), `PromptsAreOwned` (`PromptsOwned`), `CancelledStaysUnsent`
(`CancelledNeverSent`), `StopLeavesNoWifi` (`StopEndsWifi`; every step that fills a
Wi-Fi field compares the token first, and the token is gone). The properties speak
of sets of operations; `Fields` says of each field of the plugin which kind of
operation it may name and at which stage, which decides whether a late worker or
callback still finds itself in the field it compares with. `Alone` says that all
fields that name an operation name the same one, and `Settled` that what was
cancelled is closed and what was answered is gone.

**RoutesProofs**, from `RoutesAssumption`: `TypeCorrect`, `RouteStays`
(`RouteIsChosen`), `OnlyIfPhoneAnswered` (`OwnPhoneAnswered`), `RulesAreGuarded`
(`RuleGuarded`), `AnswersAreClean` (`AnsweredClean`). But for the types, `IInv`
says everything of one operation at a time, since all that another operation can
do to it is take its rule away (`Untouched`). `Placed` ties its step to its
device and its guardian, `Made` says that a rule is that of its maker's own
device and not one that is still to come, `Guarded` that whatever has a rule, or
may still get one, has a guardian; `Looked` says that a discovery has heard at
most one address, from which a signed answer to its own query came, and `SentBy` that
whoever sends such an answer has it from the phone. From
`QrAssumption`, `WholeAndFresh` (`DeliveredWhole`) and `ScanTypeCorrect` are about
the QR transfer. Its `Fresh` keeps every chunk within the age limit from the start
of its assembly, `Started` says that without a start there are no chunks, `Past`
that no start lies in the future. `SteadyIsServed` (`SteadyDelivers`) has one
hypothesis, `Count <= MaxAge + 1`: one round of the animation fits in the age
limit (30 s, or 120 frames of 250 ms). The largest transfer the framing admits, of
`MAX_QR_FRAGMENTS` = 128 frames, does not meet it, and no camera could collect one
at that pace; what the phones show is cut into 120 bytes a frame. In `SteadyInv`,
`Streak` speaks of a desktop that has seen every frame for `steady` intervals: an
assembly of the transfer on the screen has all frames of the streak since it was
begun and lacks one nevertheless (`Catching`), so that less than a round has
passed; one of another transfer is as old as the streak and not yet past its age
(`Awaiting`). `Honest` keeps wrong and long chunks out of the former.

**AgePluginProofs**, from `StanzasAssumption`, `AgePluginAssumption` and
`SelectorAssumption`: `TypeCorrect`, `MissesAreReal` (`MissIsReal`),
`SplicesWakeNoPhone` (`AskedIsOpenable`), `OwnersAreCertain` (`CertainOwner`),
`FilesAreAskedOnce` (`AskedOnce`). `SelectorAssumption` says that the selector
of a version 2 stanza was made by `WrapPaired`, for some paired recipient,
ephemeral key and file key: selectors may be moved from file to file and from
stanza to stanza, which is what `AskedIsOpenable` is about, but files are
written by programs that wrap as this one does. In `IInv`, `Sorted` says that
the header of a file under way is well formed and that its candidates are the
one stanza a public tag singles out, or all private ones; `Chosen`, that what
was selected names the identity, or has no name and leaves only this identity;
`Asked`, that the contacts are those of files in order, each with its result or
next to get one.

**PairingProofs**, from `PairingAssumption` and `BadAssumption` (the mark of a
failed decoding is a value of its own, and the value for "nothing there" is no
identity file): `TypeCorrect`, `PairedRight`
(`RightDevices`), `FinishedKeepsFiles` (`FinishedStays`), `NeverTwoReplays`
(`OneReplayPerScope`), `PairingsWork` (`RecordsWork`). Three arguments meet in
`IInv`. For the devices: every message is an honest `SignedOffer` or `Answer`, a
response a command keeps is `Verified` against its own offer, and once the two
fingerprints were compared it is the answer of the phone in hand (`Shown`), which
makes every record a function of desktop and phone (`Recorded`). For the files:
a desktop state belongs to one path (`OnePath`) and is opened by others only once its
file names it (`Named`), so that keys without a file are their maker's alone; every
command that has a desktop state finds it there, or it was undone by one that ran
beside it (`Held`, `Made`). A rollback needs two facts about time to respect this:
commands under way have met (`Met`), and a command that started after another had
finished found that one's files, unless they were undone already, so that it does not
list the state and cannot have passed the check of the replay path (`Late`). What is
on a list to be undone is the command's own to undo (`Undoes`), the locator first.
Whoever has written a locator and not undone it `Claims` its scope, and no two claim
the same (`Apart`), for locators are created only where none is.
`PairingsWork` then follows the
file key through `PrivateWorks` and `TaggedWorks` (stanza), `Exchange` (request)
and `ResponseOpens`.

Only model-checked: all liveness properties (`PluginServed`,
`RearmsAfterUnwraps`, `ReadableRecovers`, `InterruptedEnds`, `RuleGoes`,
`RemovalEnds`), which no installed prover can treat. Every safety property that a passing run
checks is also a theorem.

## 5. Not modelled

- **iOS operations** beyond what they do to the stores. The flag `operationActive`
  on the main actor admits one at a time; cancellation and the auto-listener live
  in callbacks of the Network framework, whose order the source does not fix.
- **USB wake-up**: two fields under one lock, all of whose callers run on the
  main thread, so that one call follows another; its unit tests run the orders.
- **Byte layouts** (CBOR, stream headers, QR text, the binding of lengths): test
  vectors compare the three implementations. `Envelopes`, `Journals` and
  `QrTransfer` have what decodes and what does not, as records.
- **Cryptographic primitives**, assumed perfect, and the Kotlin and Swift twins of
  the Rust core's constructions, which take the same steps.
- **Desktop keys**: calls into CNG and the Secure Enclave; `DesktopLifecycle` has a
  key set that is created, opened, missing or deleted, or fails.
- **Interfaces and multicast locks** of the discovery, file permissions and path
  checks other than the claims of `Journals`; two paths that name one file are one
  path in `Removal` and `Pairing`. The durability of deletions.
- **The web view**, the diagnostic command and the release tooling, which keep no
  state of the system.
- **The composition** of `DesktopLifecycle` with `Removal`, and of
  `PhoneOperations` with `PhoneIdentity`: each pair shares only the steps named
  above (the order of a deletion; one operation at a time), and their product is
  beyond TLC.
