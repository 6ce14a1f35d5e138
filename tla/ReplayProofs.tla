----------------------------- MODULE ReplayProofs -----------------------------
(***************************************************************************)
(* Proofs about the replay guard, for any set of processes, messages,      *)
(* capacity, time limit and clock bound.  ReplayStore keeps the contract   *)
(* through every crash and failed write; the steps of ReplayPlatforms are  *)
(* steps of ReplayStore, so its theorems hold on every platform; and on    *)
(* macOS the marker keeps guards off uncertain commits.  Removal comes     *)
(* last, which takes the replay states away again with their pairings: it  *)
(* takes those of the confirmed pairing alone, for any number of pairings, *)
(* paths, locators of earlier releases and faults.                         *)
(***************************************************************************)
EXTENDS ReplayPlatforms, Removal, TLAPS, FiniteSetTheorems

\* The file f remembers every accepted message that is not behind its floor.
Covers(f) ==
    /\ f = None => accepted = <<>>
    /\ f # None =>
         \A i \in 1 .. Len(accepted) :
            /\ accepted[i].scope = f.scope
            /\ accepted[i].at <= f.lastSeen
            /\ accepted[i].entry.expires >= f.lastSeen
                   => accepted[i].entry \in f.entries

\* The lock is held by whoever has a guard open.
LockHeld == \A p \in Procs : phase[p] # "closed" => lock = p

\* What a guard holds in memory, by phase.
GuardOK ==
    \A p \in Procs :
        /\ phase[p] \in {"creating", "idle", "writing"}
               => disk # None /\ mem[p] = disk
        /\ phase[p] \in {"writing", "renamed"} =>
               /\ mem[p] # None
               /\ call[p] # None
               /\ Admissible(mem[p], mem[p].scope, call[p].msg, call[p].at)
               /\ Covers(mem[p])
        /\ phase[p] = "renamed" =>
               disk = Consumed(mem[p], call[p].msg, call[p].at)

\* The durable file is never ahead of the visible one.
DurableBehind ==
    durable # None =>
        /\ disk # None
        /\ durable.scope = disk.scope
        /\ durable.lastSeen <= disk.lastSeen

IInv ==
    /\ TypeOK
    /\ LockHeld
    /\ GuardOK
    /\ Covers(disk)
    /\ Covers(durable)
    /\ DurableBehind

Record == [scope : Scopes, entry : Messages, at : Time]

\* The constants as the provers use them.
LEMMA ConstantFacts ==
    /\ MaxTime \in Nat /\ Ttl \in Nat
    /\ \A m \in Messages : m.expires \in Time
    /\ \A f \in ReplayState : f # None
    /\ \A p \in Procs : p # None
    /\ \A c \in Call : c # None
BY ConstantsAssumption DEF ConstantsAssumption, Entry

\* What the type of the history says of one accepted message.
LEMMA RecordFacts ==
    ASSUME accepted \in Seq(Record), NEW i \in 1 .. Len(accepted)
    PROVE  /\ accepted[i].scope \in Scopes
           /\ accepted[i].entry \in Messages
           /\ accepted[i].at \in Time
           /\ accepted[i].entry.expires \in Time
<1>1. accepted[i] \in Record
  OBVIOUS
<1>2. QED
  BY <1>1, ConstantFacts DEF Record

\* Acceptance is by the contract: a renamed call may be accepted.
LEMMA AdmissibleMayAccept ==
    ASSUME NEW f \in ReplayState, NEW m \in Messages, NEW now \in Time,
           accepted \in Seq(Record),
           Covers(f), Admissible(f, f.scope, m, now)
    PROVE  Contract!MayAccept(f.scope, m, now)
<1>1. f # None
  BY ConstantFacts
<1>2. m.expires >= now /\ m.expires - now <= Ttl
  BY DEF Admissible, TimeValid
<1>3. ASSUME NEW i \in 1 .. Len(accepted)
      PROVE  /\ accepted[i].scope = f.scope
             /\ accepted[i].at <= now
             /\ accepted[i].entry.keys \cap m.keys # {}
                    => accepted[i].entry.expires < now
  <2>1. /\ accepted[i].entry \in Messages
        /\ accepted[i].entry.expires \in 0 .. MaxTime
        /\ accepted[i].at \in 0 .. MaxTime
    BY RecordFacts DEF Time
  <2>2. /\ accepted[i].scope = f.scope
        /\ accepted[i].at <= f.lastSeen
        /\ accepted[i].entry.expires >= f.lastSeen
               => accepted[i].entry \in f.entries
    BY <1>1 DEF Covers
  <2>3. now >= f.lastSeen /\ f.lastSeen \in 0 .. MaxTime /\ now \in 0 .. MaxTime
    BY DEF Admissible, ReplayState, Time
  <2>4. ASSUME accepted[i].entry.keys \cap m.keys # {},
               accepted[i].entry.expires >= now
        PROVE  FALSE
    <3>1. accepted[i].entry \in Retained(f, now)
      BY <2>1, <2>2, <2>3, <2>4 DEF Retained
    <3>2. QED
      BY <3>1, <2>4 DEF Admissible, Clash
  <2>5. QED
    BY <2>1, <2>2, <2>3, <2>4, ConstantFacts
<1>4. QED
  BY <1>2, <1>3 DEF Contract!MayAccept

\* The replacement state is well typed and only moves the floor forward.
LEMMA ConsumedFacts ==
    ASSUME NEW f \in ReplayState, NEW m \in Messages, NEW now \in Time,
           Admissible(f, f.scope, m, now)
    PROVE  /\ Consumed(f, m, now) \in ReplayState
           /\ Consumed(f, m, now) # None
           /\ Consumed(f, m, now).scope = f.scope
           /\ Consumed(f, m, now).lastSeen = now
           /\ now >= f.lastSeen
           /\ m \in Consumed(f, m, now).entries
<1>1. Retained(f, now) \cup {m} \subseteq Messages
  BY DEF Retained, ReplayState
<1>2. Consumed(f, m, now) \in ReplayState
  BY <1>1 DEF Consumed, ReplayState
<1>3. QED
  BY <1>2, ConstantFacts DEF Consumed, Admissible

\* Replacing the file forgets only what is behind the new floor.
LEMMA ConsumedCovers ==
    ASSUME NEW f \in ReplayState, NEW m \in Messages, NEW now \in Time,
           accepted \in Seq(Record),
           Covers(f), Admissible(f, f.scope, m, now)
    PROVE  Covers(Consumed(f, m, now))
<1> DEFINE g == Consumed(f, m, now)
<1>1. f # None /\ g # None /\ g.scope = f.scope /\ g.lastSeen = now
  BY ConsumedFacts, ConstantFacts
<1>2. ASSUME NEW i \in 1 .. Len(accepted)
      PROVE  /\ accepted[i].scope = g.scope
             /\ accepted[i].at <= g.lastSeen
             /\ accepted[i].entry.expires >= g.lastSeen => accepted[i].entry \in g.entries
  <2>1. /\ accepted[i].entry \in Messages
        /\ accepted[i].entry.expires \in 0 .. MaxTime
        /\ accepted[i].at \in 0 .. MaxTime
    BY RecordFacts DEF Time
  <2>2. /\ accepted[i].scope = f.scope
        /\ accepted[i].at <= f.lastSeen
        /\ accepted[i].entry.expires >= f.lastSeen
               => accepted[i].entry \in f.entries
    BY <1>1 DEF Covers
  <2>3. now >= f.lastSeen /\ f.lastSeen \in 0 .. MaxTime /\ now \in 0 .. MaxTime
    BY DEF Admissible, ReplayState, Time
  <2>4. accepted[i].entry.expires >= now => accepted[i].entry \in g.entries
    BY <2>1, <2>2, <2>3, ConstantFacts DEF Consumed, Retained
  <2>5. QED
    BY <1>1, <2>1, <2>2, <2>3, <2>4, ConstantFacts
<1> HIDE DEF g
<1>3. Covers(g)
  BY <1>1, <1>2 DEF Covers
<1>4. QED
  BY <1>3 DEF g

\* The initial state satisfies the inductive invariant.
LEMMA InitIInv == Init => IInv
<1> SUFFICES ASSUME Init PROVE IInv
  OBVIOUS
<1>1. TypeOK
  BY DEF Init, TypeOK, Phases
<1>2. QED
  BY <1>1 DEF Init, IInv, LockHeld, GuardOK, Covers, DurableBehind

\* Types are preserved by every step; a commit appends one typed record.
LEMMA NextTypeOK == IInv /\ [Next]_vars => TypeOK'
<1> SUFFICES ASSUME IInv, [Next]_vars PROVE TypeOK'
  OBVIOUS
<1> USE DEF TypeOK, Phases
<1>0. TypeOK /\ GuardOK
  BY DEF IInv
<1>1. ASSUME NEW p \in Procs, NEW s \in Scopes, NEW now \in Time, Create(p, s, now)
      PROVE TypeOK'
  <2>1. NewState(s, now) \in ReplayState
    BY DEF NewState, ReplayState
  <2>2. QED
    BY <1>0, <1>1, <2>1 DEF Create, AcquireLock
<1>2. ASSUME NEW p \in Procs, CreateSynced(p) PROVE TypeOK'
  BY <1>0, <1>2 DEF CreateSynced
<1>3. ASSUME NEW p \in Procs, NEW s \in Scopes, Open(p, s) PROVE TypeOK'
  BY <1>0, <1>3 DEF Open, AcquireLock
<1>4. ASSUME NEW p \in Procs, NEW s \in Scopes, NEW m \in Messages, NEW now \in Time,
             Consume(p, s, m, now)
      PROVE TypeOK'
  BY <1>0, <1>4 DEF Consume, Call
<1>5. ASSUME NEW p \in Procs, Rename(p) PROVE TypeOK'
  <2>1. /\ mem[p] \in ReplayState
        /\ call[p].msg \in Messages /\ call[p].at \in Time
        /\ Admissible(mem[p], mem[p].scope, call[p].msg, call[p].at)
    BY <1>0, <1>5 DEF Rename, GuardOK, Call
  <2>2. Consumed(mem[p], call[p].msg, call[p].at) \in ReplayState
    BY <2>1, ConsumedFacts
  <2>3. QED
    BY <1>0, <1>5, <2>2 DEF Rename
<1>6. ASSUME NEW p \in Procs, CommitSynced(p) PROVE TypeOK'
  <2>1. /\ mem[p] \in ReplayState
        /\ call[p].msg \in Messages /\ call[p].at \in Time
        /\ Admissible(mem[p], mem[p].scope, call[p].msg, call[p].at)
    BY <1>0, <1>6 DEF CommitSynced, GuardOK, Call
  <2>2. Consumed(mem[p], call[p].msg, call[p].at) \in ReplayState
    BY <2>1, ConsumedFacts
  <2>3. [scope |-> mem[p].scope, entry |-> call[p].msg, at |-> call[p].at]
           \in [scope : Scopes, entry : Messages, at : Time]
    BY <2>1 DEF ReplayState
  <2>4. accepted' \in Seq([scope : Scopes, entry : Messages, at : Time])
    BY <1>0, <1>6, <2>3 DEF CommitSynced
  <2>5. QED
    BY <1>0, <1>6, <2>2, <2>4 DEF CommitSynced
<1>7. ASSUME NEW p \in Procs, CommitFails(p) PROVE TypeOK'
  BY <1>0, <1>7 DEF CommitFails
<1>8. ASSUME NEW p \in Procs, Close(p) PROVE TypeOK'
  BY <1>0, <1>8 DEF Close
<1>9. CASE Writeback
  BY <1>0, <1>9 DEF Writeback
<1>10. CASE PowerLoss
  BY <1>0, <1>10 DEF PowerLoss
<1>11. CASE UNCHANGED vars
  BY <1>0, <1>11 DEF vars
<1>12. QED
  BY <1>1, <1>2, <1>3, <1>4, <1>5, <1>6, <1>7, <1>8, <1>9, <1>10, <1>11
     DEF Next, ProcessStep

\* Only one process has a guard open, so a step of one leaves no other guard.
LEMMA SoleGuard ==
    ASSUME LockHeld, NEW p \in Procs, NEW q \in Procs,
           phase[p] # "closed", phase[q] # "closed"
    PROVE  p = q
BY DEF LockHeld

\* The lock keeps guards apart through every step.
LEMMA NextLockHeld == IInv /\ [Next]_vars => LockHeld'
<1> SUFFICES ASSUME IInv, [Next]_vars, NEW q \in Procs, phase'[q] # "closed"
             PROVE  lock' = q
  BY DEF LockHeld
<1> USE DEF TypeOK
<1>0. TypeOK /\ LockHeld /\ q # None
  BY ConstantFacts DEF IInv
<1>1. ASSUME NEW p \in Procs, NEW s \in Scopes, NEW now \in Time, Create(p, s, now)
      PROVE lock' = q
  BY <1>0, <1>1 DEF Create, AcquireLock, LockHeld
<1>2. ASSUME NEW p \in Procs, CreateSynced(p) PROVE lock' = q
  BY <1>0, <1>2 DEF CreateSynced, LockHeld
<1>3. ASSUME NEW p \in Procs, NEW s \in Scopes, Open(p, s) PROVE lock' = q
  BY <1>0, <1>3 DEF Open, AcquireLock, LockHeld
<1>4. ASSUME NEW p \in Procs, NEW s \in Scopes, NEW m \in Messages, NEW now \in Time,
             Consume(p, s, m, now)
      PROVE lock' = q
  BY <1>0, <1>4 DEF Consume, LockHeld
<1>5. ASSUME NEW p \in Procs, Rename(p) PROVE lock' = q
  BY <1>0, <1>5 DEF Rename, LockHeld
<1>6. ASSUME NEW p \in Procs, CommitSynced(p) PROVE lock' = q
  BY <1>0, <1>6 DEF CommitSynced, LockHeld
<1>7. ASSUME NEW p \in Procs, CommitFails(p) PROVE lock' = q
  BY <1>0, <1>7 DEF CommitFails, LockHeld
<1>8. ASSUME NEW p \in Procs, Close(p) PROVE lock' = q
  BY <1>0, <1>8 DEF Close, LockHeld
<1>9. CASE Writeback
  BY <1>0, <1>9 DEF Writeback, LockHeld
<1>10. CASE PowerLoss
  BY <1>0, <1>10 DEF PowerLoss
<1>11. CASE UNCHANGED vars
  BY <1>0, <1>11 DEF vars, LockHeld
<1>12. QED
  BY <1>1, <1>2, <1>3, <1>4, <1>5, <1>6, <1>7, <1>8, <1>9, <1>10, <1>11
     DEF Next, ProcessStep

\* A call in progress has typed operands and would be accepted.
LEMMA CallFacts ==
    ASSUME IInv, NEW p \in Procs, phase[p] \in {"writing", "renamed"}
    PROVE  /\ mem[p] \in ReplayState
           /\ call[p].msg \in Messages
           /\ call[p].at \in Time
           /\ Admissible(mem[p], mem[p].scope, call[p].msg, call[p].at)
           /\ Covers(mem[p])
BY DEF IInv, TypeOK, GuardOK, Call

\* A successful commit leaves the new message covered by the new file.
LEMMA CommitCovers ==
    ASSUME IInv, NEW p \in Procs, CommitSynced(p)
    PROVE  Covers(disk)'
<1> DEFINE g == Consumed(mem[p], call[p].msg, call[p].at)
<1>1. /\ mem[p] \in ReplayState
      /\ call[p].msg \in Messages
      /\ call[p].at \in Time
      /\ Admissible(mem[p], mem[p].scope, call[p].msg, call[p].at)
  BY CallFacts DEF CommitSynced
<1>2. disk = g /\ disk' = disk
  BY DEF CommitSynced, IInv, GuardOK
<1>3. /\ g # None /\ g.scope = mem[p].scope /\ g.lastSeen = call[p].at
      /\ call[p].msg \in g.entries
  BY <1>1, ConsumedFacts
<1>4. Covers(g)
  BY <1>2 DEF IInv
<1>5. /\ accepted \in Seq(Record)
      /\ accepted' = Append(accepted, [scope |-> mem[p].scope,
                                       entry |-> call[p].msg,
                                       at    |-> call[p].at])
  BY DEF CommitSynced, IInv, TypeOK, Record
<1> HIDE DEF g
<1>6. ASSUME NEW i \in 1 .. Len(accepted')
      PROVE  /\ accepted'[i].scope = g.scope
             /\ accepted'[i].at <= g.lastSeen
             /\ accepted'[i].entry.expires >= g.lastSeen
                    => accepted'[i].entry \in g.entries
  <2>1. CASE i \in 1 .. Len(accepted)
    <3>1. accepted'[i] = accepted[i]
      BY <1>5, <2>1
    <3>2. QED
      BY <1>3, <1>4, <2>1, <3>1 DEF Covers
  <2>2. CASE i = Len(accepted) + 1
    <3>1. accepted'[i] = [scope |-> mem[p].scope,
                          entry |-> call[p].msg,
                          at    |-> call[p].at]
      BY <1>5, <2>2
    <3>2. call[p].at <= call[p].at
      BY <1>1, ConstantFacts DEF Time
    <3>3. QED
      BY <1>3, <3>1, <3>2
  <2>3. QED
    BY <1>5, <1>6, <2>1, <2>2
<1>7. QED
  BY <1>2, <1>3, <1>6 DEF Covers

\* Both copies of the file go on covering what was accepted.
LEMMA NextCovers == IInv /\ [Next]_vars => Covers(disk)' /\ Covers(durable)'
<1> SUFFICES ASSUME IInv, [Next]_vars PROVE Covers(disk)' /\ Covers(durable)'
  OBVIOUS
<1>0. Covers(disk) /\ Covers(durable) /\ TypeOK
  BY DEF IInv
<1>1. ASSUME NEW p \in Procs, NEW s \in Scopes, NEW now \in Time, Create(p, s, now)
      PROVE Covers(disk)' /\ Covers(durable)'
  <2>1. accepted = <<>> /\ accepted' = <<>> /\ durable' = durable
    BY <1>0, <1>1 DEF Create, Covers
  <2>2. QED
    BY <2>1 DEF Covers
<1>2. ASSUME NEW p \in Procs, CreateSynced(p)
      PROVE Covers(disk)' /\ Covers(durable)'
  BY <1>0, <1>2 DEF CreateSynced, Covers
<1>3. ASSUME NEW p \in Procs, Rename(p)
      PROVE Covers(disk)' /\ Covers(durable)'
  <2>1. /\ mem[p] \in ReplayState
        /\ call[p].msg \in Messages
        /\ call[p].at \in Time
        /\ Admissible(mem[p], mem[p].scope, call[p].msg, call[p].at)
        /\ Covers(mem[p])
    BY <1>3, CallFacts DEF Rename
  <2>2. Covers(Consumed(mem[p], call[p].msg, call[p].at))
    BY <1>0, <2>1, ConsumedCovers DEF TypeOK, Record
  <2>3. /\ disk' = Consumed(mem[p], call[p].msg, call[p].at)
        /\ accepted' = accepted /\ durable' = durable
    BY <1>3 DEF Rename
  <2>4. QED
    BY <1>0, <2>2, <2>3 DEF Covers
<1>4. ASSUME NEW p \in Procs, CommitSynced(p)
      PROVE Covers(disk)' /\ Covers(durable)'
  <2>1. Covers(disk)' /\ durable' = disk' 
    BY <1>4, CommitCovers DEF CommitSynced
  <2>2. QED
    BY <2>1 DEF Covers
<1>5. CASE Writeback
  BY <1>0, <1>5 DEF Writeback, Covers
<1>6. CASE PowerLoss
  BY <1>0, <1>6 DEF PowerLoss, Covers
<1>7. CASE UNCHANGED <<disk, durable, accepted>>
  BY <1>0, <1>7 DEF Covers
<1>8. QED
  BY <1>1, <1>2, <1>3, <1>4, <1>5, <1>6, <1>7
     DEF Next, ProcessStep, Open, Consume, CommitFails, Close, vars

\* The durable file stays behind the visible one.
LEMMA NextDurableBehind == IInv /\ [Next]_vars => DurableBehind'
<1> SUFFICES ASSUME IInv, [Next]_vars PROVE DurableBehind'
  OBVIOUS
<1>0. DurableBehind /\ TypeOK /\ TypeOK'
  BY NextTypeOK DEF IInv
<1>1. CASE durable' = disk'
  BY <1>0, <1>1, ConstantFacts DEF DurableBehind, TypeOK, ReplayState, Time
<1>2. ASSUME NEW p \in Procs, NEW s \in Scopes, NEW now \in Time, Create(p, s, now)
      PROVE DurableBehind'
  BY <1>0, <1>2 DEF Create, DurableBehind
<1>3. ASSUME NEW p \in Procs, Rename(p) PROVE DurableBehind'
  <2>1. /\ mem[p] \in ReplayState
        /\ call[p].msg \in Messages
        /\ call[p].at \in Time
        /\ Admissible(mem[p], mem[p].scope, call[p].msg, call[p].at)
    BY <1>3, CallFacts DEF Rename
  <2>2. mem[p] = disk
    BY <1>3 DEF IInv, GuardOK, Rename
  <2>3. /\ disk' # None /\ disk'.scope = disk.scope
        /\ disk'.lastSeen >= disk.lastSeen
        /\ durable' = durable
    BY <1>3, <2>1, <2>2, ConsumedFacts DEF Rename
  <2>4. /\ disk # None => disk.lastSeen \in Nat
        /\ durable # None => durable.lastSeen \in Nat
        /\ disk'.lastSeen \in Nat
    BY <1>0, <2>3, ConstantFacts DEF TypeOK, ReplayState, Time
  <2>5. QED
    BY <1>0, <2>3, <2>4 DEF DurableBehind
<1>4. CASE UNCHANGED <<disk, durable>>
  BY <1>0, <1>4 DEF DurableBehind
<1>5. QED
  BY <1>1, <1>2, <1>3, <1>4
     DEF Next, ProcessStep, CreateSynced, Open, Consume, CommitSynced, CommitFails,
         Close, Writeback, PowerLoss, vars

\* A guard's memory is the file, or what its call in progress replaces.
LEMMA NextGuardOK == IInv /\ [Next]_vars => GuardOK'
<1> DEFINE Good(q) ==
        /\ phase[q] \in {"creating", "idle", "writing"}
               => disk # None /\ mem[q] = disk
        /\ phase[q] \in {"writing", "renamed"} =>
               /\ mem[q] # None
               /\ call[q] # None
               /\ Admissible(mem[q], mem[q].scope, call[q].msg, call[q].at)
               /\ Covers(mem[q])
        /\ phase[q] = "renamed" =>
               disk = Consumed(mem[q], call[q].msg, call[q].at)
<1> SUFFICES ASSUME IInv, [Next]_vars, NEW q \in Procs PROVE Good(q)'
  BY DEF GuardOK
<1>0. TypeOK /\ LockHeld /\ GuardOK /\ Covers(disk) /\ Good(q)
  BY DEF IInv, GuardOK
<1>1. ASSUME NEW p \in Procs, NEW s \in Scopes, NEW now \in Time, Create(p, s, now)
      PROVE Good(q)'
  <2>1. q # p => phase[q] = "closed"
    BY <1>0, <1>1, ConstantFacts DEF Create, AcquireLock, LockHeld
  <2>2. NewState(s, now) # None
    BY <1>1, ConstantFacts DEF NewState, ReplayState
  <2>3. CASE q = p
    BY <1>0, <1>1, <2>2, <2>3 DEF Create, TypeOK
  <2>4. CASE q # p
    BY <1>0, <1>1, <2>1, <2>4 DEF Create, TypeOK
  <2>5. QED
    BY <2>3, <2>4
<1>2. ASSUME NEW p \in Procs, CreateSynced(p) PROVE Good(q)'
  BY <1>0, <1>2 DEF CreateSynced, TypeOK, Covers
<1>3. ASSUME NEW p \in Procs, NEW s \in Scopes, Open(p, s) PROVE Good(q)'
  BY <1>0, <1>3 DEF Open, TypeOK, Covers
<1>4. ASSUME NEW p \in Procs, NEW s \in Scopes, NEW m \in Messages, NEW now \in Time,
             Consume(p, s, m, now)
      PROVE Good(q)'
  <2>1. CASE q = p
    <3>1. /\ mem[p] # None /\ mem[p] = disk
          /\ Admissible(mem[p], mem[p].scope, m, now)
      BY <1>0, <1>4, <2>1 DEF Consume, Admissible
    <3>2. /\ phase'[p] = "writing" /\ mem' = mem /\ disk' = disk /\ accepted' = accepted
          /\ call'[p] = [msg |-> m, at |-> now]
      BY <1>0, <1>4 DEF Consume, TypeOK
    <3>3. [msg |-> m, at |-> now] # None
      BY ConstantFacts DEF Call
    <3>4. Covers(mem[p])'
      BY <1>0, <3>1, <3>2 DEF Covers
    <3>5. QED
      BY <2>1, <3>1, <3>2, <3>3, <3>4
  <2>2. CASE q # p
    BY <1>0, <1>4, <2>2 DEF Consume, TypeOK, Covers
  <2>3. QED
    BY <2>1, <2>2
<1>5. ASSUME NEW p \in Procs, Rename(p) PROVE Good(q)'
  <2>1. CASE q = p
    BY <1>0, <1>5, <2>1 DEF Rename, TypeOK, Covers
  <2>2. CASE q # p
    <3>1. phase[q] = "closed" /\ phase'[q] = "closed"
      BY <1>0, <1>5, <2>2, SoleGuard DEF Rename, TypeOK
    <3>2. QED
      BY <3>1
  <2>3. QED
    BY <2>1, <2>2
<1>6. ASSUME NEW p \in Procs, CommitSynced(p) PROVE Good(q)'
  <2>1. CASE q = p
    <3>1. disk = Consumed(mem[p], call[p].msg, call[p].at) /\ disk # None
      BY <1>0, <1>6, <2>1, CallFacts, ConsumedFacts DEF CommitSynced
    <3>2. phase'[p] = "idle" /\ mem'[p] = disk /\ disk' = disk
      BY <1>0, <1>6, <3>1 DEF CommitSynced, TypeOK
    <3>3. QED
      BY <2>1, <3>1, <3>2
  <2>2. CASE q # p
    <3>1. phase[q] = "closed" /\ phase'[q] = "closed"
      BY <1>0, <1>6, <2>2, SoleGuard DEF CommitSynced, TypeOK
    <3>2. QED
      BY <3>1
  <2>3. QED
    BY <2>1, <2>2
<1>7. ASSUME NEW p \in Procs, CommitFails(p) PROVE Good(q)'
  BY <1>0, <1>7 DEF CommitFails, TypeOK, Covers
<1>8. ASSUME NEW p \in Procs, Close(p) PROVE Good(q)'
  BY <1>0, <1>8 DEF Close, TypeOK, Covers
<1>9. CASE Writeback
  BY <1>0, <1>9 DEF Writeback, Covers
<1>10. CASE PowerLoss
  BY <1>0, <1>10 DEF PowerLoss
<1>11. CASE UNCHANGED vars
  BY <1>0, <1>11 DEF vars, Covers
<1>12. QED
  BY <1>1, <1>2, <1>3, <1>4, <1>5, <1>6, <1>7, <1>8, <1>9, <1>10, <1>11
     DEF Next, ProcessStep

\* The inductive invariant holds in every reachable state: the lock makes a
\* guard's memory equal to the file, and both the visible and the durable file
\* remember every acceptance that is not behind their clock floor.
THEOREM Invariance == Spec => []IInv
<1>1. IInv /\ [Next]_vars => IInv'
  BY NextTypeOK, NextLockHeld, NextGuardOK, NextCovers, NextDurableBehind DEF IInv
<1>2. QED
  BY <1>1, InitIInv, PTL DEF Spec

\* Every variable keeps its type.
THEOREM TypeCorrect == Spec => []TypeOK
<1>1. IInv => TypeOK
  BY DEF IInv
<1>2. QED
  BY <1>1, Invariance, PTL

\* An accepted message is on stable storage for as long as it could be replayed.
THEOREM DurableAcceptance == Spec => []AcceptedDurable
<1>1. IInv => AcceptedDurable
  BY DEF IInv, Covers, AcceptedDurable
<1>2. QED
  BY <1>1, Invariance, PTL

\* A guard that can still consume holds exactly what is in the file.
THEOREM NoLostUpdate == Spec => []MemoryIsFile
<1>1. IInv => MemoryIsFile
  BY DEF IInv, GuardOK, MemoryIsFile
<1>2. QED
  BY <1>1, Invariance, PTL

\* Every step either leaves the history alone or is an acceptance of the contract.
LEMMA StepRefinesContract ==
    IInv /\ [Next]_vars => [Contract!Next]_accepted
<1> SUFFICES ASSUME IInv, [Next]_vars PROVE [Contract!Next]_accepted
  OBVIOUS
<1>1. ASSUME NEW p \in Procs, CommitSynced(p) PROVE Contract!Next
  <2>1. /\ mem[p] \in ReplayState
        /\ call[p].msg \in Messages
        /\ call[p].at \in Time
        /\ Admissible(mem[p], mem[p].scope, call[p].msg, call[p].at)
        /\ Covers(mem[p])
    BY <1>1, CallFacts DEF CommitSynced
  <2>2. Contract!MayAccept(mem[p].scope, call[p].msg, call[p].at)
    BY <2>1, AdmissibleMayAccept DEF IInv, TypeOK, Record
  <2>3. mem[p].scope \in Scopes
    BY <2>1 DEF ReplayState
  <2>4. Contract!Accept(mem[p].scope, call[p].msg, call[p].at)
    BY <1>1, <2>2 DEF CommitSynced, Contract!Accept
  <2>5. QED
    BY <2>1, <2>3, <2>4 DEF Contract!Next
<1>2. CASE UNCHANGED accepted
  BY <1>2
<1>3. QED
  BY <1>1, <1>2
     DEF Next, ProcessStep, Create, CreateSynced, Open, Consume, Rename, CommitFails,
         Close, Writeback, PowerLoss, vars

\* The file-backed guard implements the ReplayStore contract.
THEOREM ImplementsContract == Spec => KeepsContract
<1>1. Init => Contract!Init
  BY DEF Init, Contract!Init
<1>2. QED
  BY <1>1, StepRefinesContract, Invariance, PTL DEF Spec, KeepsContract, Contract!Spec

\* The history keeps its order and never holds a live replay.
LEMMA HistoryStep ==
    TypeOK /\ NoLiveReplay /\ AcceptedInClockOrder /\ [Contract!Next]_accepted
        => NoLiveReplay' /\ AcceptedInClockOrder'
<1> SUFFICES ASSUME TypeOK, NoLiveReplay, AcceptedInClockOrder, [Contract!Next]_accepted
             PROVE  NoLiveReplay' /\ AcceptedInClockOrder'
  OBVIOUS
<1>1. CASE UNCHANGED accepted
  BY <1>1 DEF NoLiveReplay, AcceptedInClockOrder
<1>2. CASE Contract!Next
  <2>1. PICK scope \in Scopes, m \in Messages, now \in Time : Contract!Accept(scope, m, now)
    BY <1>2 DEF Contract!Next
  <2> DEFINE r == [scope |-> scope, entry |-> m, at |-> now]
             n == Len(accepted)
  <2>2. accepted \in Seq(Record) /\ accepted' = Append(accepted, r) /\ n \in Nat
    BY <2>1 DEF TypeOK, Record, Contract!Accept
  <2>3. /\ Len(accepted') = n + 1
        /\ accepted'[n + 1] = r
        /\ \A i \in 1 .. n : accepted'[i] = accepted[i]
    BY <2>2
  <2>4. Contract!MayAccept(scope, m, now)
    BY <2>1 DEF Contract!Accept
  <2>5. \A i \in 1 .. n :
            /\ accepted[i].at <= now
            /\ Clash(accepted[i].entry, m) => accepted[i].entry.expires < now
    BY <2>4 DEF Contract!MayAccept, Clash
  <2>6. TimeValid(m.expires, now)
    BY <2>4 DEF Contract!MayAccept, TimeValid
  <2>7. \A i \in 1 .. n + 1 : i = n + 1 \/ i \in 1 .. n
    BY <2>2
  <2> HIDE DEF n
  <2>8. NoLiveReplay'
    <3> SUFFICES ASSUME NEW i \in 1 .. n + 1, NEW j \in 1 .. n + 1, i < j,
                        Clash(accepted'[i].entry, accepted'[j].entry)
                 PROVE  accepted'[i].entry.expires < accepted'[j].at
      BY <2>3 DEF NoLiveReplay
    <3>1. i \in 1 .. n
      BY <2>7
    <3>2. CASE j = n + 1
      BY <2>3, <2>5, <3>1, <3>2
    <3>3. CASE j \in 1 .. n
      BY <2>3, <3>1, <3>3 DEF NoLiveReplay, n
    <3>4. QED
      BY <2>7, <3>2, <3>3
  <2>9. AcceptedInClockOrder'
    <3>1. ASSUME NEW i \in 1 .. n + 1, NEW j \in 1 .. n + 1, i < j
          PROVE  accepted'[i].at <= accepted'[j].at
      <4>1. i \in 1 .. n
        BY <2>7, <3>1
      <4>2. CASE j = n + 1
        BY <2>3, <2>5, <4>1, <4>2
      <4>3. CASE j \in 1 .. n
        BY <2>3, <3>1, <4>1, <4>3 DEF AcceptedInClockOrder, n
      <4>4. QED
        BY <2>7, <4>2, <4>3
    <3>2. ASSUME NEW i \in 1 .. n + 1
          PROVE  TimeValid(accepted'[i].entry.expires, accepted'[i].at)
      <4>1. CASE i = n + 1
        BY <2>3, <2>6, <4>1
      <4>2. CASE i \in 1 .. n
        BY <2>3, <4>2 DEF AcceptedInClockOrder, n
      <4>3. QED
        BY <2>7, <4>1, <4>2
    <3>3. QED
      BY <2>3, <3>1, <3>2 DEF AcceptedInClockOrder
  <2>10. QED
    BY <2>8, <2>9
<1>3. QED
  BY <1>1, <1>2

\* No live message is ever accepted twice.
THEOREM ReplaySafety == Spec => [](NoLiveReplay /\ AcceptedInClockOrder)
<1>1. Init => NoLiveReplay /\ AcceptedInClockOrder
  BY DEF Init, NoLiveReplay, AcceptedInClockOrder
<1>2. IInv => TypeOK
  BY DEF IInv
<1>3. QED
  BY <1>1, <1>2, HistoryStep, StepRefinesContract, Invariance, PTL DEF Spec

\* The floor a power loss would leave only moves forward.
THEOREM FloorAdvances == Spec => DurableFloor
<1> DEFINE Floor ==
        durable # None =>
          /\ durable' # None
          /\ durable'.scope = durable.scope
          /\ durable'.lastSeen >= durable.lastSeen
<1>1. IInv /\ [Next]_vars => [Floor]_vars
  <2> SUFFICES ASSUME IInv, [Next]_vars, durable # None
               PROVE  /\ durable' # None
                      /\ durable'.scope = durable.scope
                      /\ durable'.lastSeen >= durable.lastSeen
    OBVIOUS
  <2>1. /\ DurableBehind /\ durable \in ReplayState
        /\ durable.lastSeen \in Nat
    BY ConstantFacts DEF IInv, TypeOK, ReplayState, Time
  <2>2. durable' = durable \/ durable' = disk
    BY DEF Next, ProcessStep, Create, CreateSynced, Open, Consume, Rename, CommitSynced,
           CommitFails, Close, Writeback, PowerLoss, vars
  <2>3. disk.lastSeen >= durable.lastSeen /\ durable.lastSeen >= durable.lastSeen
    <3>1. disk \in ReplayState /\ disk.lastSeen \in Nat
      BY <2>1, ConstantFacts DEF DurableBehind, IInv, TypeOK, ReplayState, Time
    <3>2. QED
      BY <2>1, <3>1 DEF DurableBehind
  <2>4. QED
    BY <2>1, <2>2, <2>3 DEF DurableBehind
<1>2. QED
  BY <1>1, Invariance, PTL DEF Spec, DurableFloor

-----------------------------------------------------------------------------
(* The store never writes a file that its own validation would refuse.     *)

\* A file that open accepts, with finitely many entries.
Sound(f) == f # None => IsFiniteSet(f.entries) /\ Valid(f)

FilesSound ==
    /\ Sound(disk)
    /\ Sound(durable)
    /\ \A p \in Procs : phase[p] \in {"writing", "renamed"} => Sound(mem[p])

\* Pruning makes room for the new entry and drops what would be refused.
LEMMA ConsumedSound ==
    ASSUME NEW f \in ReplayState, NEW m \in Messages, NEW now \in Time,
           Sound(f), Admissible(f, f.scope, m, now)
    PROVE  Sound(Consumed(f, m, now))
<1> DEFINE R == Retained(f, now)
           g == Consumed(f, m, now)
<1>1. IsFiniteSet(f.entries) /\ Valid(f)
  BY ConstantFacts DEF Sound
<1>2. IsFiniteSet(R) /\ Cardinality(R) \in Nat
  BY <1>1, FS_Subset, FS_CardinalityType DEF Retained
<1>3. /\ IsFiniteSet(R \cup {m})
      /\ Cardinality(R \cup {m}) \in {Cardinality(R), Cardinality(R) + 1}
  BY <1>2, FS_AddElement
<1>4. Cardinality(R \cup {m}) <= Capacity
  BY <1>2, <1>3, CapacityAssumption DEF CapacityAssumption, Admissible
<1>5. \A e \in R \cup {m} : e.expires >= now
  BY DEF Retained, Admissible, TimeValid
<1>6. \A e, h \in R \cup {m} : e # h => ~Clash(e, h)
  <2>1. \A e \in R : ~Clash(e, m) /\ ~Clash(m, e)
    BY DEF Admissible, Clash
  <2>2. \A e, h \in R : e # h => ~Clash(e, h)
    BY <1>1 DEF Valid, Retained
  <2>3. QED
    BY <2>1, <2>2
<1>7. g.entries = R \cup {m} /\ g.lastSeen = now
  BY DEF Consumed
<1> HIDE DEF g, R
<1>8. Sound(g)
  BY <1>3, <1>4, <1>5, <1>6, <1>7 DEF Sound, Valid
<1>9. QED
  BY <1>8 DEF g

\* Soundness of both files is preserved by every step.
LEMMA NextFilesSound == IInv /\ FilesSound /\ [Next]_vars => FilesSound'
<1> SUFFICES ASSUME IInv, FilesSound, [Next]_vars PROVE FilesSound'
  OBVIOUS
<1>0. TypeOK /\ LockHeld /\ GuardOK
  BY DEF IInv
<1>1. ASSUME NEW p \in Procs, NEW s \in Scopes, NEW now \in Time, Create(p, s, now)
      PROVE FilesSound'
  <2>1. NewState(s, now).entries = {}
    BY DEF NewState
  <2>2. Sound(NewState(s, now))
    <3>1. IsFiniteSet({}) /\ Cardinality({}) = 0
      BY FS_EmptySet
    <3>2. 0 <= Capacity
      BY CapacityAssumption DEF CapacityAssumption
    <3>3. QED
      BY <2>1, <3>1, <3>2 DEF Sound, Valid
  <2>3. \A q \in Procs : phase'[q] \in {"writing", "renamed"}
            => phase[q] \in {"writing", "renamed"} /\ mem'[q] = mem[q]
    BY <1>0, <1>1 DEF Create, TypeOK
  <2>4. QED
    BY <1>1, <2>2, <2>3 DEF FilesSound, Sound, Create
<1>2. ASSUME NEW p \in Procs, NEW s \in Scopes, NEW m \in Messages, NEW now \in Time,
             Consume(p, s, m, now)
      PROVE FilesSound'
  <2>1. mem[p] = disk
    BY <1>0, <1>2 DEF Consume, GuardOK
  <2>2. \A q \in Procs : phase'[q] \in {"writing", "renamed"}
            => q = p \/ phase[q] \in {"writing", "renamed"}
    BY <1>0, <1>2 DEF Consume, TypeOK
  <2>3. QED
    BY <1>2, <2>1, <2>2 DEF FilesSound, Sound, Consume
<1>3. ASSUME NEW p \in Procs, Rename(p) PROVE FilesSound'
  <2>1. /\ mem[p] \in ReplayState
        /\ call[p].msg \in Messages
        /\ call[p].at \in Time
        /\ Admissible(mem[p], mem[p].scope, call[p].msg, call[p].at)
    BY <1>3, CallFacts DEF Rename
  <2>2. Sound(Consumed(mem[p], call[p].msg, call[p].at))
    BY <1>3, <2>1, ConsumedSound DEF FilesSound, Rename
  <2>3. \A q \in Procs : phase'[q] \in {"writing", "renamed"}
            => phase[q] \in {"writing", "renamed"}
    BY <1>0, <1>3 DEF Rename, TypeOK
  <2>4. QED
    BY <1>3, <2>2, <2>3 DEF FilesSound, Sound, Rename
<1>4. ASSUME /\ disk' \in {disk, durable} /\ durable' \in {disk, durable}
             /\ \A q \in Procs : phase'[q] \in {"writing", "renamed"}
                    => phase[q] \in {"writing", "renamed"} /\ mem'[q] = mem[q]
      PROVE FilesSound'
  BY <1>4 DEF FilesSound, Sound
<1>5. ASSUME NEW p \in Procs, \/ CreateSynced(p) \/ CommitSynced(p) \/ CommitFails(p)
                              \/ Close(p) \/ \E s \in Scopes : Open(p, s)
      PROVE FilesSound'
  BY <1>0, <1>4, <1>5
     DEF CreateSynced, CommitSynced, CommitFails, Close, Open, TypeOK
<1>6. CASE Writeback \/ PowerLoss \/ UNCHANGED vars
  BY <1>0, <1>4, <1>6 DEF Writeback, PowerLoss, vars
<1>7. QED
  BY <1>1, <1>2, <1>3, <1>5, <1>6 DEF Next, ProcessStep

\* Whatever content a crash or a power loss leaves behind passes the validation
\* that open runs on it.
THEOREM AlwaysReopens == Spec => []FileReopens
<1>1. Init => FilesSound
  BY DEF Init, FilesSound, Sound
<1>2. FilesSound => FileReopens
  BY DEF FilesSound, Sound, FileReopens
<1>3. QED
  BY <1>1, <1>2, NextFilesSound, Invariance, PTL DEF Spec

-----------------------------------------------------------------------------
(* The platforms. *)


\* An added variable changes alone, or beside a step of the store.
LEMMA StepIsStoreStep == [PNext]_pvars => [Next]_vars
<1>1. ASSUME NEW p \in Procs, PProcessStep(p) PROVE ProcessStep(p) \/ UNCHANGED vars
  BY <1>1 DEF PProcessStep, ProcessStep, PCreate, Fill, PCreateSynced, POpen, PConsume,
              Mark, PRename, Unmark, PCommitSynced, PCommitFails, PClose
<1>2. CASE MarkerSynced \/ PWriteback \/ PPowerLoss
  BY <1>2 DEF MarkerSynced, PWriteback, PPowerLoss, Next
<1>3. CASE UNCHANGED pvars
  BY <1>3 DEF pvars, vars
<1>4. QED
  BY <1>1, <1>2, <1>3 DEF PNext, Next

\* Every behaviour of the guard, on any desktop platform, is one of the store:
\* the marker and the way a file is created only take behaviours away.
THEOREM PlatformsImplementStore == PSpec => Spec
<1>1. PInit => Init
  BY DEF PInit
<1>2. QED
  BY <1>1, StepIsStoreStep, PTL DEF PSpec, Spec

\* So what is proved of the store holds on all of them: no live message is
\* accepted twice, and the contract is kept.
THEOREM PlatformsSafe == PSpec => [](NoLiveReplay /\ AcceptedDurable) /\ KeepsContract
BY PlatformsImplementStore, ReplaySafety, DurableAcceptance, ImplementsContract, PTL

-----------------------------------------------------------------------------
\* A durable marker stands by every replacement that could be undone, and no
\* guard is open beside it.
Guarded ==
    /\ marker \in Marker
    /\ macos => Certain \/ (marker.seen /\ marker.durable)
    /\ CertainOpen

\* The file cannot change while a guard other than p's own is open.
LEMMA OthersClosed ==
    ASSUME IInv, NEW p \in Procs, NEW q \in Procs, q # p,
           phase[p] # "closed" \/ lock = None
    PROVE  phase[q] = "closed"
BY ConstantFacts DEF IInv, LockHeld

\* Each step keeps the marker by what is uncertain.
LEMMA NextGuarded == IInv /\ Guarded /\ [PNext]_pvars => Guarded'
<1> SUFFICES ASSUME IInv, Guarded, [PNext]_pvars PROVE Guarded'
  OBVIOUS
<1>1. /\ phase \in [Procs -> Phases]
      /\ marker \in Marker
      /\ DurableBehind
  BY DEF IInv, TypeOK, Guarded
<1>2. ASSUME NEW p \in Procs, NEW s \in Scopes, NEW now \in Time, PCreate(p, s, now)
      PROVE Guarded'
  <2>1. durable' = None /\ disk'.entries = {}
    BY <1>1, <1>2 DEF PCreate, Create, DurableBehind, NewState
  <2>2. QED
    BY <1>1, <1>2, <2>1 DEF Guarded, Certain, CertainOpen, PCreate
<1>3. ASSUME NEW p \in Procs, PRename(p) PROVE Guarded'
  <2>1. \A q \in Procs : phase'[q] # "idle"
    BY <1>1, <1>3, OthersClosed DEF PRename, Rename
  <2>2. marker' = marker /\ macos' = macos /\ (macos => marker.seen /\ marker.durable)
    BY <1>3 DEF PRename, added
  <2>3. QED
    BY <1>1, <2>1, <2>2 DEF Guarded, CertainOpen
<1>4. ASSUME NEW p \in Procs, NEW s \in Scopes, POpen(p, s) PROVE Guarded'
  <2>1. macos => Certain
    BY <1>4 DEF POpen, NoMarker, Guarded
  <2>2. QED
    BY <1>1, <1>4, <2>1 DEF Guarded, Certain, CertainOpen, POpen, Open, added
<1>5. ASSUME NEW p \in Procs, PCreateSynced(p) \/ PCommitSynced(p) PROVE Guarded'
  <2>1. durable' = disk' /\ marker' = marker
    BY <1>5 DEF PCreateSynced, PCommitSynced, CreateSynced, CommitSynced, added
  <2>2. QED
    BY <1>1, <2>1 DEF Guarded, Certain, CertainOpen
<1>6. ASSUME NEW p \in Procs, NEW s \in Scopes, NEW m \in Messages, NEW now \in Time,
             PConsume(p, s, m, now)
      PROVE Guarded'
  BY <1>1, <1>6 DEF Guarded, Certain, CertainOpen, PConsume, Consume, added
<1>7. ASSUME NEW p \in Procs, PCommitFails(p) \/ PClose(p) PROVE Guarded'
  BY <1>1, <1>7 DEF Guarded, Certain, CertainOpen, PCommitFails, PClose, CommitFails, Close,
                    added
<1>8. ASSUME NEW p \in Procs, Fill(p) \/ Mark(p) PROVE Guarded'
  <2>1. CASE Fill(p)
    BY <1>1, <2>1 DEF Guarded, Certain, CertainOpen, Fill, vars
  <2>2. CASE Mark(p)
    <3>1. marker' \in Marker /\ marker'.seen /\ marker'.durable = marker.durable
      BY <1>1, <2>2 DEF Mark, Marker
    <3>2. QED
      BY <1>1, <2>2, <3>1 DEF Guarded, Certain, CertainOpen, Mark, vars
  <2>3. QED
    BY <1>8, <2>1, <2>2
<1>9. ASSUME NEW p \in Procs, Unmark(p) PROVE Guarded'
  BY <1>1, <1>9 DEF Guarded, Certain, CertainOpen, Unmark, vars, Marker
<1>10. CASE MarkerSynced
  BY <1>1, <1>10 DEF Guarded, Certain, CertainOpen, MarkerSynced, vars, Marker
<1>11. CASE PWriteback
  BY <1>1, <1>11 DEF Guarded, Certain, CertainOpen, PWriteback, Writeback, added
<1>12. CASE PPowerLoss
  BY <1>1, <1>12 DEF Guarded, Certain, CertainOpen, PPowerLoss, PowerLoss, Marker
<1>13. CASE UNCHANGED pvars
  BY <1>1, <1>13 DEF Guarded, Certain, CertainOpen, pvars
<1>14. QED
  BY <1>2, <1>3, <1>4, <1>5, <1>6, <1>7, <1>8, <1>9, <1>10, <1>11, <1>12, <1>13
     DEF PNext, PProcessStep

\* On macOS a guard that accepts messages never rests on a replacement that a
\* power loss could undo (replay_macos.rs commit and open_storage).
THEOREM OpensOnlyTheCertain == PSpec => []CertainOpen
<1>1. PInit => Guarded
  BY DEF PInit, Init, Guarded, Certain, CertainOpen, Marker
<1>2. Guarded => CertainOpen
  BY DEF Guarded
<1>3. PSpec => []IInv
  BY PlatformsImplementStore, Invariance, PTL
<1>4. QED
  BY <1>1, <1>2, <1>3, NextGuarded, PTL DEF PSpec

-----------------------------------------------------------------------------
(* Removal: whose files it takes. *)

\* What the command asks for has a fingerprint to confirm.
Asked ==
    removal.pc = "asked" =>
        /\ removal.fp # Nothing /\ removal.kind \in {"paired", "orphan"}
        /\ removal.kind = "paired" => removal.path \in StubPaths

\* A removal at work has its journal, and takes no stub but its own.
Running ==
    removal.pc = "running" =>
        /\ journal # Nothing
        /\ (Windows => calm) /\ journal.stub # Nothing =>
               stub[journal.stub] \in {Nothing, StubOf(journal)}

\* Locators have a name each.
OneName == \A l, m \in loc : l.name = m.name => l = m

\* On macOS a desktop id is drawn with its state and used with no other.
OneState ==
    ~Windows =>
        /\ \A l, m \in loc : l.d = m.d => l.state = m.state
        /\ \A l \in loc : l.d \in used /\ (pair # Nothing => l.d # pair.d)
        /\ pair # Nothing => pair.d \in used

\* While a removal is pending, macOS lets no pair command run; the target has what
\* it names for itself.
Exclusively ==
    ~Windows /\ journal # Nothing =>
        /\ pair = Nothing /\ Exclusive(journal)
        /\ \A l \in loc : l.d = journal.d => l.state = journal.state

\* On Windows, without pair commands, what the target names is its own or gone.
Calmly ==
    Windows /\ journal # Nothing /\ calm =>
        /\ pair = Nothing
        /\ state[journal.state] \in {journal.d, Nothing}
        /\ replay[journal.replay] \in {Scope(journal), Nothing}

\* And the name of the target is not given to another.
NameKept ==
    journal # Nothing /\ (Windows => calm) =>
        \A l \in loc : l.name = journal.name => l.fp = journal.fp

RemovalInv ==
    /\ RemovalTypeOK
    /\ Asked /\ Running /\ OneName /\ OneState /\ Exclusively /\ Calmly /\ NameKept

LEMMA DifferentThings ==
    /\ \A r \in CleanupJournals \cup PairCommands \cup PairingScopes : r # Nothing
    /\ \A q \in Pairings : q # Nothing
    /\ \A u \in StubPaths : u # Nothing
  BY RecordsAssumption, RemovalAssumption

LEMMA RecordTypes ==
    /\ \A i \in Phones, d \in Pairings : Name(i, d) \in Names
    /\ \A l \in Locators \cup CleanupJournals : StubOf(l) \in Stubs /\ Scope(l) \in PairingScopes
    /\ pair \in PairCommands =>
           \A i \in Phones :
               /\ NewLocator(i) \in Locators
               /\ NewLocator(i).name = Name(i, pair.d) /\ NewLocator(i).d = pair.d
               /\ NewLocator(i).state = pair.state
  BY DEF Names, Locators, CleanupJournals, PairCommands, StubOf, Scope, PairingScopes, Stubs,
     NewLocator

-----------------------------------------------------------------------------
LEMMA RemovalInitInv == RemovalInit => RemovalInv
  <1> SUFFICES ASSUME RemovalInit PROVE RemovalInv
      OBVIOUS
  <1>1. /\ loc \in Inherited /\ loc \subseteq Locators
        /\ \A l, m \in loc : l.name = m.name => l = m
        /\ \A l, m \in loc : l.d = m.d => l.state = m.state
      BY InheritedAssumption DEF RemovalInit
  <1>2. /\ platform \in Platforms /\ keys = {l.d : l \in loc}
        /\ journal = Nothing /\ removal = Idle /\ pair = Nothing
        /\ used = {l.fp : l \in loc} \cup {l.d : l \in loc} /\ calm = TRUE /\ faults = 0
      BY DEF RemovalInit
  <1>3. state \in [StatePaths -> Pairings \cup {Nothing}]
    <2>1. PICK lost \in BOOLEAN :
            state = [s \in StatePaths |->
               IF \E l \in loc : l.state = s /\ ~(lost /\ IsManaged(l))
               THEN (CHOOSE l \in loc : l.state = s).d ELSE Nothing]
        BY DEF RemovalInit
    <2>2. ASSUME NEW s \in StatePaths, \E l \in loc : l.state = s /\ ~(lost /\ IsManaged(l))
          PROVE  (CHOOSE l \in loc : l.state = s).d \in Pairings
        BY <1>1, <2>2 DEF Locators
    <2> QED
        BY <2>1, <2>2
  <1>4. replay \in [ReplayPaths -> PairingScopes \cup {Nothing}]
    <2>1. replay = [r \in ReplayPaths |->
               IF \E l \in loc : l.replay = r
               THEN Scope(CHOOSE l \in loc : l.replay = r) ELSE Nothing]
        BY DEF RemovalInit
    <2>2. ASSUME NEW r \in ReplayPaths, \E l \in loc : l.replay = r
          PROVE  Scope(CHOOSE l \in loc : l.replay = r) \in PairingScopes
      <3>1. (CHOOSE l \in loc : l.replay = r) \in loc
          BY <2>2
      <3> QED
          BY <1>1, <3>1, RecordTypes
    <2> QED
        BY <2>1, <2>2
  <1>5. stub \in [StubPaths -> Stubs \cup {Nothing}]
    <2> DEFINE at == CHOOSE f \in [loc -> StubPaths] :
                         \A l, m \in loc : f[l] = f[m] => l = m
    <2>1. stub = [u \in StubPaths |->
                   IF \E l \in loc : at[l] = u
                   THEN StubOf(CHOOSE l \in loc : at[l] = u) ELSE Nothing]
        BY DEF RemovalInit
    <2> HIDE DEF at
    <2>2. ASSUME NEW u \in StubPaths, \E l \in loc : at[l] = u
          PROVE  StubOf(CHOOSE l \in loc : at[l] = u) \in Stubs
      <3>1. (CHOOSE l \in loc : at[l] = u) \in loc
          BY <2>2
      <3> QED
          BY <1>1, <3>1, RecordTypes
    <2> QED
        BY <2>1, <2>2
  <1>6. keys \subseteq Pairings /\ used \subseteq Pairings
      BY <1>1, <1>2 DEF Locators
  <1>7. RemovalTypeOK
      BY <1>1, <1>2, <1>3, <1>4, <1>5, <1>6, RemovalAssumption DEF RemovalTypeOK, Idle
  <1>8. Asked /\ Running /\ Exclusively /\ Calmly /\ NameKept
      BY <1>2 DEF Asked, Running, Exclusively, Calmly, NameKept, Idle
  <1>9. OneName /\ OneState
      BY <1>1, <1>2 DEF OneName, OneState
  <1> QED
      BY <1>7, <1>8, <1>9 DEF RemovalInv

-----------------------------------------------------------------------------
\* A new pairing begins.
LEMMA PairBeginsInv ==
    ASSUME RemovalInv, NEW s \in StatePaths, NEW r \in ReplayPaths, NEW u \in StubPaths,
           PairBegins(s, r, u)
    PROVE  RemovalInv'
  <1> DEFINE p == CHOOSE q \in Pairings \ used : TRUE
             made == state[s] = Nothing
             d == IF made THEN p ELSE state[s]
  <1>1. p \in Pairings /\ p \notin used
      BY DEF PairBegins, RemovalInv, RemovalTypeOK
  <1>2. d \in Pairings /\ made \in BOOLEAN
      BY <1>1 DEF RemovalInv, RemovalTypeOK
  <1>3. /\ state' = [state EXCEPT ![s] = d] /\ keys' = keys \cup {d}
        /\ pair' = [fp |-> p, d |-> d, state |-> s, replay |-> r, stub |-> u, made |-> made]
        /\ used' = used \cup {p} /\ calm' = FALSE
        /\ UNCHANGED <<platform, replay, loc, stub, journal, removal, faults>>
        /\ ~Windows => removal.pc # "running" /\ journal = Nothing /\ made
      BY DEF PairBegins, command
  <1> HIDE DEF p, d, made
  <1>4. RemovalTypeOK'
    <2>1. pair' \in PairCommands
        BY <1>1, <1>2, <1>3 DEF PairCommands
    <2> QED
        BY <1>1, <1>2, <1>3, <2>1 DEF RemovalInv, RemovalTypeOK
  <1>5. OneState'
    <2>1. ~Windows => d = p
        BY <1>3 DEF d
    <2>2. Windows' = Windows /\ pair'.d = d
        BY <1>3 DEF Windows
    <2> QED
        BY <1>1, <1>3, <2>1, <2>2 DEF RemovalInv, OneState
  <1>6. Asked' /\ Running' /\ OneName'
      BY <1>3 DEF RemovalInv, Asked, Running, OneName, Windows
  <1>7. Exclusively' /\ Calmly' /\ NameKept'
      BY <1>3 DEF Exclusively, Calmly, NameKept, Windows
  <1> QED
      BY <1>4, <1>5, <1>6, <1>7 DEF RemovalInv

\* While a pair command runs, a pending removal does not matter.
LEMMA NotPending ==
    ASSUME RemovalInv, pair # Nothing, calm' = calm, platform' = platform, journal' = journal,
           removal' = removal
    PROVE  /\ Asked' /\ Exclusively' /\ Calmly' /\ NameKept' /\ Running'
  <1>1. journal # Nothing => Windows /\ ~calm
      BY DEF RemovalInv, Exclusively, Calmly
  <1>2. Windows' = Windows
      BY DEF Windows
  <1> QED
      BY <1>1, <1>2 DEF RemovalInv, Asked, Exclusively, Calmly, NameKept, Running

LEMMA PairEndsInv ==
    ASSUME RemovalInv, pair # Nothing,
           (\E i \in Phones : PairCommits(i)) \/ PairFails
    PROVE  RemovalInv'
  <1>1. pair \in PairCommands
      BY DEF RemovalInv, RemovalTypeOK
  <1>2. /\ pair' = Nothing /\ UNCHANGED <<platform, journal, removal, used, calm>>
      BY DEF PairCommits, PairFails, command
  <1>3. \/ loc' = loc
        \/ \E i \in Phones : /\ \A l \in loc : l.name # Name(i, pair.d)
                             /\ loc' = loc \cup {NewLocator(i)}
      BY DEF PairCommits, PairFails
  <1>4. loc' \subseteq Locators
      BY <1>1, <1>3, RecordTypes DEF RemovalInv, RemovalTypeOK
  <1>5. /\ state' \in [StatePaths -> Pairings \cup {Nothing}] /\ keys' \subseteq Pairings
        /\ faults' \in 0 .. MaxFaults
    <2>1. CASE PairFails
        BY <1>1, <2>1, RemovalAssumption DEF PairFails, RemovalInv, RemovalTypeOK, PairCommands
    <2>2. CASE \E i \in Phones : PairCommits(i)
        BY <2>2 DEF PairCommits, RemovalInv, RemovalTypeOK
    <2> QED
        BY <2>1, <2>2
  <1>6. /\ replay' \in [ReplayPaths -> PairingScopes \cup {Nothing}]
        /\ stub' \in [StubPaths -> Stubs \cup {Nothing}]
    <2>1. CASE PairFails
        BY <1>1, <2>1 DEF PairFails, RemovalInv, RemovalTypeOK, PairCommands
    <2>2. ASSUME NEW i \in Phones, PairCommits(i)
          PROVE  /\ replay' \in [ReplayPaths -> PairingScopes \cup {Nothing}]
                 /\ stub' \in [StubPaths -> Stubs \cup {Nothing}]
      <3>1. /\ Scope(NewLocator(i)) \in PairingScopes
            /\ StubOf(NewLocator(i)) \in Stubs
          BY <1>1, RecordTypes
      <3> QED
          BY <1>1, <2>2, <3>1 DEF PairCommits, RemovalInv, RemovalTypeOK
    <2> QED
        BY <2>1, <2>2
  <1>7. RemovalTypeOK'
      BY <1>2, <1>4, <1>5, <1>6 DEF RemovalInv, RemovalTypeOK
  <1>8. OneName'
      BY <1>1, <1>3, RecordTypes DEF RemovalInv, OneName
  <1>9. OneState'
    <2>1. Windows' = Windows
        BY <1>2 DEF Windows
    <2>2. CASE ~Windows
      <3>1. \A l \in loc' \ loc : /\ l.d = pair.d
                                  /\ \A m \in loc' \ loc : l = m
          BY <1>1, <1>3, RecordTypes
      <3> QED
        BY <1>2, <2>1, <2>2, <3>1 DEF RemovalInv, OneState
    <2> QED
        BY <2>1, <2>2 DEF OneState
  <1> QED
      BY <1>2, <1>7, <1>8, <1>9, NotPending DEF RemovalInv

-----------------------------------------------------------------------------
LEMMA AskInv ==
    ASSUME RemovalInv, NEW kind \in {"paired", "orphan"}, NEW path,
           kind = "paired" => path \in StubPaths, path \in StubPaths \cup Names, Ask(kind, path)
    PROVE  RemovalInv'
  <1>1. /\ removal' = [pc |-> "asked", kind |-> kind, path |-> path,
                       fp |-> Fingerprint(kind, path)]
        /\ Fingerprint(kind, path) # Nothing
        /\ UNCHANGED <<platform, state, keys, replay, loc, stub, journal, pair, used, calm, faults>>
      BY DEF Ask, files
  <1>2. Fingerprint(kind, path) \in Pairings
    <2>1. CASE journal # Nothing
        BY <1>1, <2>1 DEF Fingerprint, PairedFingerprint, OrphanFingerprint, RemovalInv,
           RemovalTypeOK, CleanupJournals
    <2>2. CASE journal = Nothing /\ kind = "paired"
        BY <1>1, <2>2 DEF Fingerprint, PairedFingerprint, RemovalInv, RemovalTypeOK, Stubs
    <2>3. CASE journal = Nothing /\ kind = "orphan"
      <3> DEFINE found == {l \in loc : l.name = path}
      <3>1. found # {} /\ Fingerprint(kind, path) = (CHOOSE l \in found : TRUE).fp
          BY <1>1, <2>3 DEF Fingerprint, OrphanFingerprint
      <3>2. (CHOOSE l \in found : TRUE) \in found
          BY <3>1
      <3>3. found \subseteq Locators
          BY DEF RemovalInv, RemovalTypeOK
      <3> HIDE DEF found
      <3> QED
          BY <3>1, <3>2, <3>3 DEF Locators
    <2> QED
        BY <2>1, <2>2, <2>3
  <1>3. RemovalTypeOK'
      BY <1>1, <1>2 DEF RemovalInv, RemovalTypeOK
  <1>4. Asked' /\ Running'
      BY <1>1 DEF Asked, Running
  <1>5. Windows' = Windows
      BY <1>1 DEF Windows
  <1>6. OneName' /\ OneState' /\ Exclusively' /\ Calmly' /\ NameKept'
      BY <1>1, <1>5 DEF RemovalInv, OneName, OneState, Exclusively, Exclusive, Calmly, NameKept
  <1> QED
      BY <1>3, <1>4, <1>6 DEF RemovalInv

\* A removal writes its journal.
LEMMA StartsInv ==
    ASSUME RemovalInv, removal.pc = "asked", Windows \/ pair = Nothing, Starts,
           UNCHANGED <<platform, state, keys, replay, loc, stub, pair, used, faults>>
    PROVE  RemovalInv'
  <1>1. PICK l \in Startable :
            /\ journal' = [name |-> l.name, d |-> l.d, i |-> l.i, fp |-> l.fp,
                           state |-> l.state, replay |-> l.replay,
                           stub |-> IF removal.kind = "paired" THEN removal.path ELSE Nothing]
            /\ calm' = (pair = Nothing)
            /\ removal' = [removal EXCEPT !.pc = "running"]
      BY DEF Starts, Runs
  <1>2. /\ l \in Targets(removal.kind, removal.path) /\ Accepts(l)
      BY DEF Startable
  <1>3. /\ removal.kind \in {"paired", "orphan"}
        /\ removal.kind = "paired" => removal.path \in StubPaths
      BY DEF RemovalInv, Asked
  <1>4. l \in loc /\ (removal.kind = "paired" => stub[removal.path] = StubOf(l))
    <2>1. CASE removal.kind = "paired"
        BY <1>2, <2>1 DEF Targets, Opened, Found
    <2>2. CASE removal.kind = "orphan"
        BY <1>2, <2>2 DEF Targets
    <2> QED
        BY <1>3, <2>1, <2>2
  <1>5. l \in Locators
      BY <1>4 DEF RemovalInv, RemovalTypeOK
  <1>6. journal' \in CleanupJournals /\ journal' # Nothing
    <2>1. journal' \in CleanupJournals
        BY <1>1, <1>3, <1>5 DEF CleanupJournals, Locators
    <2> QED
        BY <2>1, DifferentThings
  <1>7. /\ journal'.name = l.name /\ journal'.d = l.d /\ journal'.i = l.i /\ journal'.fp = l.fp
        /\ journal'.state = l.state /\ journal'.replay = l.replay
        /\ journal'.stub = IF removal.kind = "paired" THEN removal.path ELSE Nothing
      BY <1>1
  <1>8. Windows' = Windows
      BY DEF Windows
  <1>9. RemovalTypeOK'
      BY <1>1, <1>6 DEF RemovalInv, RemovalTypeOK
  <1>10. Asked' /\ Running'
    <2>1. StubOf(journal') = StubOf(l)
        BY <1>7 DEF StubOf
    <2>2. removal'.pc = "running"
        BY <1>1 DEF RemovalInv, RemovalTypeOK
    <2> QED
        BY <1>4, <1>6, <1>7, <2>1, <2>2 DEF Asked, Running
  <1>11. Exclusively'
    <2> SUFFICES ASSUME ~Windows
                 PROVE  /\ pair = Nothing /\ Exclusive(journal)'
                        /\ \A m \in loc : m.d = l.d => m.state = l.state
        BY <1>7, <1>8 DEF Exclusively
    <2>1. Exclusive(l)
        BY <1>2 DEF Accepts
    <2> QED
        BY <1>4, <1>7, <2>1 DEF Exclusive, RemovalInv, OneState
  <1>12. Calmly'
    <2> SUFFICES ASSUME Windows, calm'
                 PROVE  /\ pair = Nothing
                        /\ state[l.state] \in {l.d, Nothing}
                        /\ replay[l.replay] \in {Scope(journal'), Nothing}
        BY <1>7, <1>8 DEF Calmly
    <2>1. Scope(journal') = Scope(l)
        BY <1>7 DEF Scope
    <2> QED
        BY <1>1, <1>2, <2>1 DEF Accepts, StateOpens, ReplayOpens
  <1>13. NameKept'
      BY <1>4, <1>7 DEF NameKept, RemovalInv, OneName
  <1>14. OneName' /\ OneState'
      BY <1>8 DEF RemovalInv, OneName, OneState
  <1> QED
      BY <1>9, <1>10, <1>11, <1>12, <1>13, <1>14 DEF RemovalInv

LEMMA BeginInv == ASSUME RemovalInv, Begin PROVE RemovalInv'
  <1>1. /\ removal.pc = "asked" /\ (Windows \/ pair = Nothing)
        /\ UNCHANGED <<platform, state, keys, replay, loc, stub, pair, used, faults>>
      BY DEF Begin, files
  <1>2. CASE Starts
      BY <1>1, <1>2, StartsInv
  <1>3. CASE ~Starts
    <2>1. /\ UNCHANGED <<journal, calm>>
          /\ \/ Resumable /\ removal' = [removal EXCEPT !.pc = "running"]
             \/ removal' = Idle
        BY <1>3 DEF Begin, Runs
    <2>2. Windows' = Windows
        BY <1>1 DEF Windows
    <2>3. RemovalTypeOK'
        BY <1>1, <2>1 DEF RemovalInv, RemovalTypeOK, Idle
    <2>4. Asked'
        BY <2>1 DEF Asked, Idle, RemovalInv, RemovalTypeOK
    <2>5. Running'
      <3>1. CASE removal' = Idle
          BY <3>1 DEF Running, Idle
      <3>2. CASE Resumable
        <4>1. journal # Nothing /\ Fingerprint(removal.kind, removal.path) = removal.fp
            BY <3>2 DEF Resumable, Confirmed
        <4>2. removal.fp # Nothing /\ removal.kind \in {"paired", "orphan"}
            BY <1>1 DEF RemovalInv, Asked
        <4>3. journal.stub # Nothing => stub[journal.stub] \in {Nothing, StubOf(journal)}
            BY <4>1, <4>2 DEF Fingerprint, PairedFingerprint, OrphanFingerprint
        <4> QED
            BY <1>1, <2>1, <4>1, <4>3 DEF Running, StubOf
      <3> QED
          BY <2>1, <3>1, <3>2
    <2>6. OneName' /\ OneState' /\ Exclusively' /\ Calmly' /\ NameKept'
        BY <1>1, <2>1, <2>2
           DEF RemovalInv, OneName, OneState, Exclusively, Exclusive, Calmly, NameKept
    <2> QED
        BY <2>3, <2>4, <2>5, <2>6 DEF RemovalInv
  <1> QED
      BY <1>2, <1>3

\* A removal deletes: its files become fewer.
LEMMA DeleteInv == ASSUME RemovalInv, Delete PROVE RemovalInv'
  <1>1. /\ removal.pc = "running" /\ UNCHANGED <<platform, pair, used, calm, faults>>
        /\ replay' \in {replay, [replay EXCEPT ![journal.replay] = Nothing]}
        /\ keys' \subseteq keys
        /\ state' \in {state, [state EXCEPT ![journal.state] = Nothing]}
        /\ loc' \subseteq loc
        /\ \/ stub' = stub
           \/ journal.stub # Nothing /\ stub' = [stub EXCEPT ![journal.stub] = Nothing]
        /\ \/ UNCHANGED <<journal, removal>>
           \/ journal' = Nothing /\ removal' = Idle
      BY DEF Delete
  <1>2. journal # Nothing /\ journal \in CleanupJournals
      BY <1>1 DEF RemovalInv, RemovalTypeOK, Running
  <1>3. Windows' = Windows
      BY <1>1 DEF Windows
  <1>4. RemovalTypeOK'
    <2>1. /\ journal.replay \in ReplayPaths /\ journal.state \in StatePaths
          /\ journal.stub # Nothing => journal.stub \in StubPaths
        BY <1>2 DEF CleanupJournals
    <2>2. removal' \in {removal, Idle} /\ journal' \in {journal, Nothing}
        BY <1>1
    <2>3. /\ state' \in [StatePaths -> Pairings \cup {Nothing}]
          /\ replay' \in [ReplayPaths -> PairingScopes \cup {Nothing}]
          /\ stub' \in [StubPaths -> Stubs \cup {Nothing}]
        BY <1>1, <2>1 DEF RemovalInv, RemovalTypeOK
    <2> QED
        BY <1>1, <2>2, <2>3 DEF RemovalInv, RemovalTypeOK, Idle
  <1>5. OneName' /\ OneState'
      BY <1>1, <1>3 DEF RemovalInv, OneName, OneState
  <1>6. CASE journal' = Nothing /\ removal' = Idle
      BY <1>4, <1>5, <1>6
         DEF RemovalInv, Asked, Running, Exclusively, Calmly, NameKept, Idle
  <1>7. CASE UNCHANGED <<journal, removal>>
    <2>1. Asked'
        BY <1>1, <1>7 DEF Asked
    <2>2. Running'
        BY <1>1, <1>2, <1>3, <1>7 DEF RemovalInv, RemovalTypeOK, Running, StubOf, CleanupJournals
    <2>3. Exclusively' /\ NameKept'
        BY <1>1, <1>3, <1>7 DEF RemovalInv, Exclusively, Exclusive, NameKept
    <2>4. Calmly'
        BY <1>1, <1>2, <1>3, <1>7 DEF RemovalInv, RemovalTypeOK, Calmly, Scope, CleanupJournals
    <2> QED
        BY <1>4, <1>5, <2>1, <2>2, <2>3, <2>4 DEF RemovalInv
  <1> QED
      BY <1>1, <1>6, <1>7

LEMMA OtherInv ==
    ASSUME RemovalInv,
           Fault \/ (\E u \in StubPaths, v \in StubPaths \cup {Nothing} : MoveStub(u, v))
               \/ UNCHANGED removalVars
    PROVE  RemovalInv'
  <1>1. /\ UNCHANGED <<platform, state, keys, replay, loc, journal, pair, used, calm>>
        /\ faults' \in 0 .. MaxFaults
        /\ stub' = stub \/ removal.pc # "running"
        /\ removal' = removal \/ removal' = Idle
      BY RemovalAssumption DEF Fault, MoveStub, removalVars, files, command, RemovalInv, RemovalTypeOK
  <1>2. stub' \in [StubPaths -> Stubs \cup {Nothing}]
      BY DEF Fault, MoveStub, removalVars, files, RemovalInv, RemovalTypeOK
  <1>3. Windows' = Windows
      BY <1>1 DEF Windows
  <1>4. RemovalTypeOK'
      BY <1>1, <1>2 DEF RemovalInv, RemovalTypeOK, Idle
  <1>5. Asked' /\ Running'
      BY <1>1, <1>3 DEF RemovalInv, Asked, Running, Idle, StubOf
  <1>6. OneName' /\ OneState' /\ Exclusively' /\ Calmly' /\ NameKept'
      BY <1>1, <1>3
         DEF RemovalInv, OneName, OneState, Exclusively, Exclusive, Calmly, NameKept
  <1> QED
      BY <1>4, <1>5, <1>6 DEF RemovalInv

LEMMA RemovalNextInv == RemovalInv /\ [RemovalNext]_removalVars => RemovalInv'
  <1> SUFFICES ASSUME RemovalInv, [RemovalNext]_removalVars PROVE RemovalInv'
      OBVIOUS
  <1>1. ASSUME NEW s \in StatePaths, NEW r \in ReplayPaths, NEW u \in StubPaths,
               PairBegins(s, r, u)
        PROVE  RemovalInv'
      BY <1>1, PairBeginsInv
  <1>2. CASE (\E i \in Phones : PairCommits(i)) \/ PairFails
    <2>1. pair # Nothing
        BY <1>2 DEF PairCommits, PairFails
    <2> QED
        BY <1>2, <2>1, PairEndsInv
  <1>3. ASSUME NEW u \in StubPaths, Ask("paired", u) PROVE RemovalInv'
      BY <1>3, AskInv
  <1>4. ASSUME NEW n \in Names, Ask("orphan", n) PROVE RemovalInv'
      BY <1>4, AskInv
  <1>5. CASE Begin
      BY <1>5, BeginInv
  <1>6. CASE Delete
      BY <1>6, DeleteInv
  <1>7. CASE Fault \/ (\E u \in StubPaths, v \in StubPaths \cup {Nothing} : MoveStub(u, v))
                 \/ UNCHANGED removalVars
      BY <1>7, OtherInv
  <1> QED
      BY <1>1, <1>2, <1>3, <1>4, <1>5, <1>6, <1>7 DEF RemovalNext

-----------------------------------------------------------------------------
\* What the target of a removal names, no other locator names, unless it is exempt.
LEMMA TargetAlone ==
    ASSUME RemovalInv, removal.pc = "running",
           ~(Windows /\ (~calm \/ \E l \in loc : l.d = journal.d /\ l.fp # journal.fp)),
           NEW l \in loc, l.fp # journal.fp
    PROVE  /\ pair = Nothing /\ l.name # journal.name
           /\ StateOpens(l) => l.d # journal.d /\ l.state # journal.state
           /\ ReplayOpens(l) => l.replay # journal.replay
  <1>1. journal # Nothing /\ journal \in CleanupJournals /\ l \in Locators
      BY DEF RemovalInv, RemovalTypeOK, Running
  <1>2. l.name # journal.name
      BY <1>1 DEF RemovalInv, NameKept
  <1>3. CASE ~Windows
    <2>1. /\ pair = Nothing /\ l.state # journal.state /\ l.replay # journal.replay
          /\ l.d = journal.d => l.state = journal.state
        BY <1>1, <1>2, <1>3 DEF RemovalInv, Exclusively, Exclusive
    <2> QED
        BY <1>2, <2>1
  <1>4. CASE Windows
    <2>1. /\ calm /\ l.d # journal.d /\ pair = Nothing
          /\ state[journal.state] \in {journal.d, Nothing}
          /\ replay[journal.replay] \in {Scope(journal), Nothing}
        BY <1>1, <1>4 DEF RemovalInv, Calmly
    <2>2. StateOpens(l) => l.state # journal.state
        BY <1>1, <2>1, DifferentThings DEF StateOpens, Locators
    <2>3. ReplayOpens(l) => l.replay # journal.replay
      <3>1. Scope(l) # Scope(journal)
          BY <1>1, <2>1 DEF Scope
      <3>2. Scope(l) # Nothing
          BY <1>1, RecordTypes, DifferentThings
      <3> QED
          BY <2>1, <3>1, <3>2 DEF ReplayOpens
    <2> QED
        BY <1>2, <2>1, <2>2, <2>3
  <1> QED
      BY <1>3, <1>4

\* Each step of a removal, and of what goes on meanwhile, is harmless.
LEMMA StepHarmless ==
    ASSUME RemovalInv, RemovalNext, removal.pc = "running",
           ~(Windows /\ (~calm \/ \E l \in loc : l.d = journal.d /\ l.fp # journal.fp))
    PROVE  Harmless
  <1>1. CASE Delete
    <2>1. /\ replay' \in {replay, [replay EXCEPT ![journal.replay] = Nothing]}
          /\ keys \ {journal.d} \subseteq keys'
          /\ state' \in {state, [state EXCEPT ![journal.state] = Nothing]}
          /\ \A l \in loc : l.name # journal.name => l \in loc'
          /\ \/ stub' = stub
             \/ journal.stub # Nothing /\ stub' = [stub EXCEPT ![journal.stub] = Nothing]
        BY <1>1 DEF Delete
    <2>2. ASSUME NEW l \in loc, l.fp # journal.fp
          PROVE  /\ l \in loc'
                 /\ StateOpens(l) => StateOpens(l)'
                 /\ ReplayOpens(l) => ReplayOpens(l)'
      <3>1. l.state \in StatePaths /\ l.replay \in ReplayPaths
          BY DEF RemovalInv, RemovalTypeOK, Locators
      <3>2. /\ l.name # journal.name
            /\ StateOpens(l) => l.d # journal.d /\ l.state # journal.state
            /\ ReplayOpens(l) => l.replay # journal.replay
          BY <2>2, TargetAlone
      <3>3. StateOpens(l) => StateOpens(l)'
          BY <2>1, <3>1, <3>2 DEF StateOpens, RemovalInv, RemovalTypeOK
      <3>4. ReplayOpens(l) => ReplayOpens(l)'
          BY <2>1, <3>1, <3>2 DEF ReplayOpens, Scope, RemovalInv, RemovalTypeOK
      <3> QED
          BY <2>1, <3>2, <3>3, <3>4
    <2>3. ASSUME NEW u \in StubPaths, stub'[u] # stub[u] PROVE stub[u] = StubOf(journal)
      <3>1. /\ journal.stub # Nothing /\ u = journal.stub /\ stub'[u] = Nothing
          BY <2>1, <2>3 DEF RemovalInv, RemovalTypeOK
      <3> QED
          BY <2>3, <3>1 DEF RemovalInv, Running
    <2> QED
        BY <2>2, <2>3 DEF Harmless
  <1>2. ASSUME NEW s \in StatePaths, NEW r \in ReplayPaths, NEW u \in StubPaths,
               PairBegins(s, r, u)
        PROVE  Harmless
    <2>1. /\ keys \subseteq keys' /\ UNCHANGED <<replay, loc, stub>>
          /\ \A x \in StatePaths : state[x] # Nothing => state'[x] = state[x]
        BY <1>2 DEF PairBegins, RemovalInv, RemovalTypeOK
    <2>2. ASSUME NEW l \in loc, StateOpens(l) PROVE StateOpens(l)'
      <3>1. l.state \in StatePaths /\ l.d # Nothing
          BY DifferentThings DEF RemovalInv, RemovalTypeOK, Locators
      <3> QED
          BY <2>1, <2>2, <3>1 DEF StateOpens
    <2> QED
        BY <2>1, <2>2 DEF Harmless, ReplayOpens
  <1>3. CASE (\E i \in Phones : PairCommits(i)) \/ PairFails
    <2>1. journal # Nothing /\ pair # Nothing
        BY <1>3 DEF PairCommits, PairFails, RemovalInv, Running
    <2> QED
        BY <2>1 DEF RemovalInv, Exclusively, Calmly
  <1>4. CASE Fault
      BY <1>4 DEF Fault, files, Harmless, StateOpens, ReplayOpens, Scope
  <1>5. CASE \/ \E u \in StubPaths : Ask("paired", u)
             \/ \E n \in Names : Ask("orphan", n)
             \/ Begin
             \/ \E u \in StubPaths, v \in StubPaths \cup {Nothing} : MoveStub(u, v)
      BY <1>5 DEF Ask, Begin, MoveStub
  <1> QED
      BY <1>1, <1>2, <1>3, <1>4, <1>5 DEF RemovalNext

-----------------------------------------------------------------------------
\* A removal, interrupted or not, takes the files of the confirmed pairing alone,
\* whatever stale locators name the same paths and wherever stubs have moved
\* (start_cleanup, ensure_exclusive_cleanup_target, execute_cleanup).
THEOREM TakesOwnAlone == RemovalSpec => OthersUnharmed
  <1>1. RemovalInv /\ [RemovalNext]_removalVars
          => [removal.pc = "running" =>
                 \/ Windows /\ (~calm \/ \E l \in loc : l.d = journal.d /\ l.fp # journal.fp)
                 \/ Harmless]_removalVars
      BY StepHarmless
  <1> QED
      BY RemovalInitInv, RemovalNextInv, <1>1, PTL DEF RemovalSpec, OthersUnharmed

\* The files, records and commands keep their types.
THEOREM RemovalTypeCorrect == RemovalSpec => []RemovalTypeOK
  <1>1. RemovalInv => RemovalTypeOK
      BY DEF RemovalInv
  <1> QED
      BY RemovalInitInv, RemovalNextInv, <1>1, PTL DEF RemovalSpec
=============================================================================
