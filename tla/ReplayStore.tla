----------------------------- MODULE ReplayStore -----------------------------
(***************************************************************************)
(* The file-backed replay guard of crates/core (protocol/replay.rs) on the *)
(* Unix storage primitives of crates/platform-storage (unix.rs).           *)
(*                                                                         *)
(* One file holds the replay state of one pairing scope.  A process opens  *)
(* the file under an exclusive non-blocking lock, keeps a copy in memory   *)
(* and turns every consumed message into a whole-file replacement: write a *)
(* temporary and fsync it, rename it over the file, fsync the directory.   *)
(* Only when all three succeeded does the call report success, which is    *)
(* what permits an approval prompt (phone) or the release of a file key    *)
(* (desktop).  Each step may fail, the process may die between two steps,  *)
(* and power may be lost while a rename is not yet durable.                *)
(*                                                                         *)
(* A refused call (expired, replayed, over capacity, clock behind, wrong   *)
(* scope, poisoned) computes on a clone and leaves nothing behind, so it   *)
(* is a stuttering step here: the refusals are the guards of the actions.  *)
(***************************************************************************)
EXTENDS Integers, Sequences, FiniteSets

CONSTANTS
    Procs,      \* processes that may use the file: plugin runs, setup, cleanup
    None,       \* no process, no file, no call
    Scopes,     \* ReplayScope values: role, desktop id and identity id
    Keys,       \* request ids, nonces and response digests, each tagged
    Messages,   \* the messages ever presented, as ReplayEntry values
    Capacity,   \* the configured capacity
    Ttl,        \* MAX_REQUEST_TTL_SECONDS
    MaxTime     \* bound on the clock readings

VARIABLES
    disk,       \* the file as every process sees it
    durable,    \* the file as it would be found after a power loss
    lock,       \* the holder of the advisory lock
    phase,      \* what each process is doing with its FileReplayGuard
    mem,        \* the ReplayState each guard holds in memory
    call,       \* the consume call each guard is committing
    accepted    \* history: the consume calls that returned Ok, in order

vars == <<disk, durable, lock, phase, mem, call, accepted>>

Time == 0 .. MaxTime

Entry == [keys : SUBSET Keys, expires : Time]

ReplayState == [scope : Scopes, lastSeen : Time, entries : SUBSET Messages]

Call == [msg : Messages, at : Time]

ASSUME ConstantsAssumption ==
    /\ Messages \subseteq Entry
    /\ \A m \in Messages : m.keys # {}
    /\ None \notin Procs \cup ReplayState \cup Call
    /\ MaxTime \in Nat
    /\ Ttl \in Nat

\* validate_capacity: 1 .. MAX_CONFIGURED_ENTRIES.
ASSUME CapacityAssumption == Capacity \in 1 .. 16384

-----------------------------------------------------------------------------
(* ReplayEntry and ReplayState. *)

\* ReplayEntry::Request is known by its request id and by its nonce.
RequestEntry(id, nonce, expires) ==
    [keys |-> {<<"id", id>>, <<"nonce", nonce>>}, expires |-> expires]

\* ReplayEntry::Response is known by its digest.
ResponseEntry(digest, expires) ==
    [keys |-> {<<"digest", digest>>}, expires |-> expires]

\* Mutant: only a message that repeats every identifier counts as a replay.
ClashOnAllKeys(e, f) == e.keys = f.keys

Clash(e, f) == e.keys \cap f.keys # {}

NewState(scope, now) == [scope |-> scope, lastSeen |-> now, entries |-> {}]

\* validate_request_time: not expired, and not valid for longer than the limit.
TimeValid(expires, now) ==
    /\ expires >= now
    /\ expires - now <= Ttl

\* Mutants: an entry is dropped in the last second of its life; never dropped.
RetainedStrictly(state, now) == {e \in state.entries : e.expires > now}
RetainedForever(state, now) == state.entries

\* prepare: the entries that survive the pruning of expired ones.
Retained(state, now) == {e \in state.entries : e.expires >= now}

\* The checks of consume_request and consume_response, all before the commit.
Admissible(state, scope, m, now) ==
    /\ TimeValid(m.expires, now)
    /\ state.scope = scope
    /\ now >= state.lastSeen
    /\ \A e \in Retained(state, now) : ~Clash(e, m)
    /\ Cardinality(Retained(state, now)) < Capacity

\* The state that an admitted message leads to: pruned, pushed, clock advanced.
Consumed(state, m, now) ==
    [scope    |-> state.scope,
     lastSeen |-> now,
     entries  |-> Retained(state, now) \cup {m}]

\* validate, which decode runs on every file that is opened.
Valid(state) ==
    /\ Cardinality(state.entries) <= Capacity
    /\ \A e \in state.entries : e.expires >= state.lastSeen
    /\ \A e, f \in state.entries : e # f => ~Clash(e, f)

-----------------------------------------------------------------------------
Phases == {"closed", "creating", "idle", "writing", "renamed", "poisoned"}

Init ==
    /\ disk = None
    /\ durable = None
    /\ lock = None
    /\ phase = [p \in Procs |-> "closed"]
    /\ mem = [p \in Procs |-> None]
    /\ call = [p \in Procs |-> None]
    /\ accepted = <<>>

\* acquire_lock succeeds only when no guard, of any process, holds the lock.
AcquireLock(p) ==
    /\ lock = None
    /\ lock' = p

\* create: take the lock, refuse an existing file, link the new one in place.
Create(p, scope, now) ==
    /\ phase[p] = "closed"
    /\ AcquireLock(p)
    /\ disk = None
    /\ disk' = NewState(scope, now)
    /\ phase' = [phase EXCEPT ![p] = "creating"]
    /\ mem' = [mem EXCEPT ![p] = NewState(scope, now)]
    /\ UNCHANGED <<durable, call, accepted>>

\* persist_create returns once the parent directory is synced.
CreateSynced(p) ==
    /\ phase[p] = "creating"
    /\ durable' = disk
    /\ phase' = [phase EXCEPT ![p] = "idle"]
    /\ UNCHANGED <<disk, lock, mem, call, accepted>>

\* open: take the lock, read and validate the file, check the scope.
Open(p, scope) ==
    /\ phase[p] = "closed"
    /\ AcquireLock(p)
    /\ disk # None
    /\ Valid(disk)
    /\ disk.scope = scope
    /\ phase' = [phase EXCEPT ![p] = "idle"]
    /\ mem' = [mem EXCEPT ![p] = disk]
    /\ UNCHANGED <<disk, durable, call, accepted>>

\* consume: every check passed on a clone; the temporary is being written.
Consume(p, scope, m, now) ==
    /\ phase[p] = "idle"
    /\ Admissible(mem[p], scope, m, now)
    /\ phase' = [phase EXCEPT ![p] = "writing"]
    /\ call' = [call EXCEPT ![p] = [msg |-> m, at |-> now]]
    /\ UNCHANGED <<disk, durable, lock, mem, accepted>>

\* atomic_replace: the synced temporary is renamed over the file.
Rename(p) ==
    /\ phase[p] = "writing"
    /\ disk' = Consumed(mem[p], call[p].msg, call[p].at)
    /\ phase' = [phase EXCEPT ![p] = "renamed"]
    /\ UNCHANGED <<durable, lock, mem, call, accepted>>

\* Mutant: the call returns without the directory having been synced.
CommitUnsynced(p) ==
    /\ phase[p] = "renamed"
    /\ mem' = [mem EXCEPT ![p] = disk]
    /\ accepted' = Append(accepted, [scope |-> mem[p].scope,
                                     entry |-> call[p].msg,
                                     at    |-> call[p].at])
    /\ phase' = [phase EXCEPT ![p] = "idle"]
    /\ call' = [call EXCEPT ![p] = None]
    /\ UNCHANGED <<disk, durable, lock>>

\* atomic_replace: the directory is synced; commit adopts the state and the
\* consume call returns Ok.
CommitSynced(p) ==
    /\ phase[p] = "renamed"
    /\ durable' = disk
    /\ mem' = [mem EXCEPT ![p] = Consumed(mem[p], call[p].msg, call[p].at)]
    /\ accepted' = Append(accepted, [scope |-> mem[p].scope,
                                     entry |-> call[p].msg,
                                     at    |-> call[p].at])
    /\ phase' = [phase EXCEPT ![p] = "idle"]
    /\ call' = [call EXCEPT ![p] = None]
    /\ UNCHANGED <<disk, lock>>

\* atomic_replace failed before or after the rename: the guard is poisoned, its
\* memory keeps the old state and the call returns an error.
CommitFails(p) ==
    /\ phase[p] \in {"writing", "renamed"}
    /\ phase' = [phase EXCEPT ![p] = "poisoned"]
    /\ call' = [call EXCEPT ![p] = None]
    /\ UNCHANGED <<disk, durable, lock, mem, accepted>>

\* The guard is dropped, create fails after linking, or the process dies in the
\* middle of a call: the lock is released and the file stays as it is.
Close(p) ==
    /\ phase[p] # "closed"
    /\ phase' = [phase EXCEPT ![p] = "closed"]
    /\ mem' = [mem EXCEPT ![p] = None]
    /\ call' = [call EXCEPT ![p] = None]
    /\ lock' = None
    /\ UNCHANGED <<disk, durable, accepted>>

\* The file system makes an unsynced link or rename durable on its own.
Writeback ==
    /\ durable # disk
    /\ durable' = disk
    /\ UNCHANGED <<disk, lock, phase, mem, call, accepted>>

\* Power is lost: every process is gone and only what was durable is left.
PowerLoss ==
    /\ disk' = durable
    /\ lock' = None
    /\ phase' = [p \in Procs |-> "closed"]
    /\ mem' = [p \in Procs |-> None]
    /\ call' = [p \in Procs |-> None]
    /\ UNCHANGED <<durable, accepted>>

ProcessStep(p) ==
    \/ \E s \in Scopes, now \in Time : Create(p, s, now)
    \/ CreateSynced(p)
    \/ \E s \in Scopes : Open(p, s)
    \/ \E s \in Scopes, m \in Messages, now \in Time : Consume(p, s, m, now)
    \/ Rename(p)
    \/ CommitSynced(p)
    \/ CommitFails(p)
    \/ Close(p)

Next ==
    \/ \E p \in Procs : ProcessStep(p)
    \/ Writeback
    \/ PowerLoss

Spec == Init /\ [][Next]_vars

-----------------------------------------------------------------------------
(* Properties. *)

\* Every variable has its type.
TypeOK ==
    /\ disk \in ReplayState \cup {None}
    /\ durable \in ReplayState \cup {None}
    /\ lock \in Procs \cup {None}
    /\ phase \in [Procs -> Phases]
    /\ mem \in [Procs -> ReplayState \cup {None}]
    /\ call \in [Procs -> Call \cup {None}]
    /\ accepted \in Seq([scope : Scopes, entry : Messages, at : Time])

\* Two accepted messages share a request id, a nonce or a digest only when the
\* first had expired by the time the second was accepted: no restart, failed
\* write, power loss or clock change lets a live message through twice.
NoLiveReplay ==
    \A i, j \in 1 .. Len(accepted) :
        i < j /\ Clash(accepted[i].entry, accepted[j].entry)
            => accepted[i].entry.expires < accepted[j].at

\* Acceptance times never go backwards, whatever the clock does between two
\* calls, and every acceptance is inside its message's validity window.
AcceptedInClockOrder ==
    /\ \A i, j \in 1 .. Len(accepted) :
           i < j => accepted[i].at <= accepted[j].at
    /\ \A i \in 1 .. Len(accepted) :
           TimeValid(accepted[i].entry.expires, accepted[i].at)

\* A message whose consume call returned Ok, and that a later call could still
\* find unexpired, is on stable storage.
AcceptedDurable ==
    \A i \in 1 .. Len(accepted) :
        /\ durable # None
        /\ accepted[i].entry.expires >= durable.lastSeen
            => accepted[i].entry \in durable.entries

\* Whatever content a crash or a power loss leaves behind passes the validation
\* that open runs on it: no sequence of accepted messages makes a file that the
\* store itself refuses to read.
FileReopens ==
    \A f \in {disk, durable} : f # None => Valid(f)

\* A guard that can still consume works on the state that is in the file: no
\* two guards overwrite each other's acceptances.
MemoryIsFile ==
    \A p \in Procs : phase[p] \in {"creating", "idle", "writing"} => mem[p] = disk

\* The clock floor that a power loss would leave never moves backwards, and the
\* file, once durable, is never lost or given to another scope.
DurableFloor ==
    [][durable # None =>
          /\ durable' # None
          /\ durable'.scope = durable.scope
          /\ durable'.lastSeen >= durable.lastSeen]_vars

\* The promise of the ReplayStore trait, kept through every crash.
Contract == INSTANCE ReplayContract
KeepsContract == Contract!Spec
=============================================================================
