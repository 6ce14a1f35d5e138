------------------------ MODULE DesktopLifecycleProofs ------------------------
(***************************************************************************)
(* Whatever step a command of the desktop dies at, its files are accounted *)
(* for, and no half-made or half-removed pairing can be selected: for any  *)
(* number of pairings, plugin runs and faults.  The invariant ties what    *)
(* the journals say to the command that is at work, to the files it still  *)
(* has to make or delete and to the replay locks.  The names that files    *)
(* may have on macOS come last.                                            *)
(***************************************************************************)
EXTENDS DesktopLifecycle, FiniteSetTheorems, TLAPS

\* Each kind of file that a command lists as "a" is listed later as "b".
Before(a, b, s) ==
    \A i \in DOMAIN s : s[i] = a => \E j \in DOMAIN s : i < j /\ s[j] = b

\* What the platforms never have.
Platforms ==
    /\ Windows => torn = {}
    /\ \A d \in Pairings :
        /\ <<"lock", d>> \notin torn /\ <<"pending", d>> \notin torn
        /\ Windows => <<"pending", d>> \notin whole
        /\ ~Windows => ~Present("keys", d)

\* A complete journal can be read, and before a candidate is there the pairing
\* has no locator.
Readable ==
    /\ setup \notin {None, Torn} =>
        /\ Decodes(setup)
        /\ setup.stage \notin WithCandidate => <<"locator", setup.d>> \notin whole
    /\ cleanup \notin {None, Torn} => DecodesCleanup(cleanup)

\* The journal of the command that is at work names its target.
SetupNames ==
    cmd \in {"setup", "commit", "undo"} =>
        /\ target \in Pairings
        /\ setup # None /\ cleanup = None
        /\ writing # "journal" => setup # Torn /\ setup.d = target
        /\ writing = "journal" => setup = Torn /\ cmd = "setup"

RemoveNames ==
    cmd = "remove" =>
        /\ target \in Pairings
        /\ setup = None /\ cleanup # None
        /\ writing = None => cleanup # Torn /\ cleanup.d = target
        /\ writing # None => cleanup = Torn /\ holder[target] = "cleanup"

\* A setup makes no locator, and on Windows the keys before their metadata.
Provisions ==
    cmd = "setup" =>
        /\ writing \in {None, "journal"}
        /\ <<"locator", target>> \notin whole
        /\ writing = "journal" => <<"state", target>> \notin whole
        /\ Windows /\ <<"state", target>> \in whole => <<"keys", target>> \in whole

\* What a commit no longer has to make is there.
Commits ==
    cmd = "commit" =>
        /\ setup # None /\ setup.stage = Confirmed
        /\ Range(todo) \subseteq {"replay", "locator", "stub"}
        /\ \A k \in Essential : <<k, target>> \in whole \/ k \in Range(todo)
        /\ writing # None => todo # <<>> /\ writing = Head(todo)

\* What a deletion no longer has to delete is gone; on macOS the lock goes after
\* the replay state, and so does its marker.
Deletes ==
    cmd \in {"undo", "remove"} =>
        /\ \A k \in Kinds \ {"lock", "stub"} : Present(k, target) => k \in Range(todo)
        /\ ~Windows => Before("replay", "lock", todo) /\ Before("replay", "pending", todo)
        /\ cmd = "undo" => writing = None

\* A run that waits has the replay lock, and on macOS no deletion gets past it.
Waits ==
    \A u \in Runs :
        /\ phase[u] # "idle" => runOf[u] \in Pairings
        /\ phase[u] = "waiting" =>
            /\ holder[runOf[u]] = u
            /\ ~Windows => <<"replay", runOf[u]>> \in whole

IInv ==
    /\ TypeOK /\ Platforms /\ Readable /\ OneJournal /\ SetupNames /\ RemoveNames
    /\ Provisions /\ Commits /\ Deletes /\ Waits /\ Accounted

-----------------------------------------------------------------------------
(* The lists of files a command goes through. *)

\* The first of a list, and the rest.
LEMMA TailRange ==
    ASSUME NEW s \in Seq(Kinds), s # <<>>
    PROVE  /\ Head(s) \in Kinds /\ Tail(s) \in Seq(Kinds)
           /\ Range(s) = {Head(s)} \cup Range(Tail(s))
  <1>1. Len(s) \in Nat \ {0} /\ Head(s) = s[1] /\ Head(s) \in Kinds /\ Tail(s) \in Seq(Kinds)
      OBVIOUS
  <1>2. Len(Tail(s)) = Len(s) - 1 /\ \A i \in 1 .. Len(s) - 1 : Tail(s)[i] = s[i + 1]
      OBVIOUS
  <1>3. ASSUME NEW x \in Range(s)
        PROVE  x \in {Head(s)} \cup Range(Tail(s))
      <2>1. PICK i \in 1 .. Len(s) : x = s[i]
          BY <1>3 DEF Range
      <2>2. CASE i = 1
          BY <2>1, <2>2, <1>1
      <2>3. CASE i # 1
          <3>1. i - 1 \in 1 .. Len(s) - 1 /\ x = Tail(s)[i - 1]
              BY <2>1, <2>3, <1>1, <1>2
          <3>2. i - 1 \in DOMAIN Tail(s)
              BY <3>1, <1>1, <1>2
          <3> QED
              BY <3>1, <3>2 DEF Range
      <2> QED
          BY <2>2, <2>3
  <1>4. ASSUME NEW x \in Range(Tail(s))
        PROVE  x \in Range(s)
      <2>1. PICK i \in 1 .. Len(s) - 1 : x = Tail(s)[i]
          BY <1>4, <1>1, <1>2 DEF Range
      <2>2. i + 1 \in DOMAIN s /\ x = s[i + 1]
          BY <2>1, <1>1, <1>2
      <2> QED
          BY <2>2 DEF Range
  <1>5. Head(s) \in Range(s)
      BY <1>1 DEF Range
  <1> QED
      BY <1>1, <1>3, <1>4, <1>5

\* The order of a list is that of its rest.
LEMMA TailBefore ==
    ASSUME NEW s \in Seq(Kinds), s # <<>>, NEW a, NEW b, Before(a, b, s)
    PROVE  Before(a, b, Tail(s))
  <1>1. Len(s) \in Nat \ {0} /\ Tail(s) \in Seq(Kinds)
      OBVIOUS
  <1>2. Len(Tail(s)) = Len(s) - 1 /\ \A i \in 1 .. Len(s) - 1 : Tail(s)[i] = s[i + 1]
      OBVIOUS
  <1>3. DOMAIN Tail(s) = 1 .. Len(s) - 1
      BY <1>1, <1>2
  <1> SUFFICES ASSUME NEW i \in 1 .. Len(s) - 1, Tail(s)[i] = a
               PROVE  \E j \in 1 .. Len(s) - 1 : i < j /\ Tail(s)[j] = b
      BY <1>3 DEF Before
  <1>4. PICK j \in 1 .. Len(s) : i + 1 < j /\ s[j] = b
      BY <1>1, <1>2 DEF Before
  <1>5. j - 1 \in 1 .. Len(s) - 1 /\ i < j - 1 /\ Tail(s)[j - 1] = b
      BY <1>4, <1>1, <1>2
  <1> QED
      BY <1>5

\* What comes before something has it in the list.
LEMMA BeforeIn ==
    ASSUME NEW s, NEW a, NEW b, Before(a, b, s), a \in Range(s)
    PROVE  b \in Range(s)
  BY DEF Before, Range

\* The two orders of deletion name every private file, and the lock and the marker
\* after the replay state.
DeletionOrder(s) ==
    /\ s \in Seq(Kinds)
    /\ {"replay", "locator", "state"} \subseteq Range(s)
    /\ Windows => "keys" \in Range(s)
    /\ ~Windows => /\ "pending" \in Range(s)
                   /\ Before("replay", "lock", s) /\ Before("replay", "pending", s)

LEMMA UndoOrdered == DeletionOrder(UndoOrder)
  <1>1. CASE Windows
      <2> DEFINE s == <<"replay", "lock", "locator", "state", "keys", "stub">>
      <2>1. UndoOrder = s
          BY <1>1 DEF UndoOrder
      <2>2. s \in Seq(Kinds) /\ DOMAIN s = 1 .. 6
          BY DEF Kinds
      <2>3. s[1] = "replay" /\ s[3] = "locator" /\ s[4] = "state" /\ s[5] = "keys"
          OBVIOUS
      <2> HIDE DEF s
      <2> QED
          BY <1>1, <2>1, <2>2, <2>3 DEF DeletionOrder, Range
  <1>2. CASE ~Windows
      <2> DEFINE s == <<"state", "replay", "pending", "locator", "stub", "lock">>
      <2>1. UndoOrder = s
          BY <1>2 DEF UndoOrder
      <2>2. s \in Seq(Kinds) /\ DOMAIN s = 1 .. 6
          BY DEF Kinds
      <2>3. /\ s[1] = "state" /\ s[2] = "replay" /\ s[3] = "pending"
            /\ s[4] = "locator" /\ s[5] = "stub" /\ s[6] = "lock"
          OBVIOUS
      <2> HIDE DEF s
      <2>4. \A i \in DOMAIN s : s[i] = "replay" => i = 2
          BY <2>2, <2>3
      <2> QED
          BY <1>2, <2>1, <2>2, <2>3, <2>4 DEF DeletionOrder, Range, Before
  <1> QED
      BY <1>1, <1>2

LEMMA RemoveOrdered == \A kind : DeletionOrder(RemoveOrder(kind))
  <1> SUFFICES ASSUME NEW kind
               PROVE  DeletionOrder(RemoveOrder(kind))
      OBVIOUS
  <1> DEFINE s == RemoveOrder(kind)
  <1>1. /\ s \in Seq(Kinds) /\ Len(s) \in {5, 6}
        /\ s[1] = "replay" /\ s[2] = IF Windows THEN "keys" ELSE "pending"
        /\ s[3] = "state" /\ s[4] = "locator" /\ s[5] = "lock"
        /\ Len(s) = 6 => s[6] = "stub"
      BY DEF RemoveOrder, Kinds
  <1> HIDE DEF s
  <1>2. DOMAIN s = 1 .. Len(s)
      BY <1>1
  <1>3. \A i \in DOMAIN s : s[i] = "replay" => i = 1
      BY <1>1, <1>2
  <1>4. DeletionOrder(s)
      BY <1>1, <1>2, <1>3 DEF DeletionOrder, Range, Before
  <1> QED
      BY <1>4 DEF s

-----------------------------------------------------------------------------
(* Initial states. *)

\* What the first release may have left is part of at most one pairing, which its
\* journal names.
NamedBySetup(left, d) ==
    /\ left.setup \in SetupFile /\ left.setup.d = d /\ Decodes(left.setup)
    /\ left.cleanup = None
    /\ left.files \subseteq (Essential \cup {"lock", "stub"}) \X {d}
    /\ left.setup.stage \notin WithCandidate => <<"locator", d>> \notin left.files

NamedByCleanup(left, d) ==
    /\ left.cleanup \in CleanupFile /\ left.cleanup.d = d /\ DecodesCleanup(left.cleanup)
    /\ left.setup = None
    /\ left.files \subseteq (Essential \cup {"lock", "stub"}) \X {d}

LEMMA LegacyNamed ==
    ASSUME NEW left \in Legacy
    PROVE  \/ left.files = {} /\ left.setup = None /\ left.cleanup = None
           \/ \E d \in Pairings : NamedBySetup(left, d) \/ NamedByCleanup(left, d)
  <1>1. ASSUME NEW d \in Pairings, NEW stage \in Stages, NEW ks \in MadeIn(stage)
        PROVE  NamedBySetup(LeftBySetup(d, stage, ks), d)
      <2> DEFINE j == LeftBySetup(d, stage, ks)
      <2>1. ks \subseteq Essential \cup {"lock", "stub"}
          BY DEF MadeIn, Essential
      <2>2. stage \notin WithCandidate => "locator" \notin ks
          BY DEF MadeIn, WithCandidate, Provisioning, Confirmed
      <2>3. /\ j.setup \in SetupFile /\ j.setup.d = d /\ j.setup.stage = stage
            /\ Decodes(j.setup) /\ j.cleanup = None
          BY JournalsAssumption
             DEF LeftBySetup, EncodeLegacy, Encode, NewJournal, SetupFile, Decodes, Stages,
                 WithCandidate, Provisioning, ResponseVerified, Confirmed
      <2>4. j.files = FilesOf(d, ks)
          BY DEF LeftBySetup
      <2> HIDE DEF j
      <2> QED
          BY <2>1, <2>2, <2>3, <2>4 DEF NamedBySetup, FilesOf, j
  <1>2. ASSUME NEW d \in Pairings, NEW n
        PROVE  NamedByCleanup(LeftByRemoval(d, n), d)
      BY DEF LeftByRemoval, NamedByCleanup, FilesOf, EncodeLegacyCleanup, CleanupFile,
             DecodesCleanup
  <1> QED
      BY <1>1, <1>2 DEF Legacy

LEMMA InitInv == Init => IInv
  <1> USE JournalsAssumption, FilesAssumption, LifecycleAssumption
  <1> SUFFICES ASSUME Init PROVE IInv
      OBVIOUS
  <1>1. PICK left \in Legacy :
            whole = left.files /\ setup = left.setup /\ cleanup = left.cleanup
      BY DEF Init
  <1>2. Essential \cup {"lock", "stub"} \subseteq Kinds
      BY DEF Essential, Kinds
  <1>3. /\ whole \subseteq Kinds \X Pairings
        /\ setup \in SetupFile \cup {None, Torn} /\ cleanup \in CleanupFile \cup {None, Torn}
        /\ OneJournal
        /\ Readable
      BY <1>1, <1>2, LegacyNamed DEF NamedBySetup, NamedByCleanup, OneJournal, Readable
  <1>4. TypeOK
      <2>1. scrapped \subseteq Pairings
          BY <1>3 DEF Init, cleanupId, CleanupFile
      <2>2. todo \in Seq(Kinds)
          BY DEF Init
      <2> QED
          BY <1>3, <2>1, <2>2 DEF Init, TypeOK
  <1>5. \A d \in Pairings : <<"pending", d>> \notin whole /\ (~Windows => <<"keys", d>> \notin whole)
      BY <1>1, LegacyNamed DEF NamedBySetup, NamedByCleanup, Essential
  <1>6. Accounted
      <2> SUFFICES ASSUME NEW d \in Pairings, d \notin {setupId, cleanupId}
                   PROVE  \A k \in Kinds : <<k, d>> \notin whole \cup torn
          BY DEF Accounted, Present
      <2>1. CASE left.files = {}
          BY <2>1, <1>1 DEF Init
      <2>2. ASSUME NEW e \in Pairings, NamedBySetup(left, e)
            PROVE  \A k \in Kinds : <<k, d>> \notin whole \cup torn
          <3>1. d # e
              BY <2>2, <1>1 DEF setupId, NamedBySetup
          <3> QED
              BY <3>1, <2>2, <1>1 DEF Init, NamedBySetup
      <2>3. ASSUME NEW e \in Pairings, NamedByCleanup(left, e)
            PROVE  \A k \in Kinds : <<k, d>> \notin whole \cup torn
          <3>1. d # e
              BY <2>3, <1>1 DEF cleanupId, NamedByCleanup
          <3> QED
              BY <3>1, <2>3, <1>1 DEF Init, NamedByCleanup
      <2> QED
          BY <2>1, <2>2, <2>3, LegacyNamed
  <1> QED
      BY <1>3, <1>4, <1>5, <1>6
         DEF Init, IInv, Platforms, Present, SetupNames, RemoveNames, Provisions, Commits,
             Deletes, Waits

-----------------------------------------------------------------------------
(* Steps of the commands.  A step that leaves the files alone, and one that leaves *)
(* the journals alone, keep what only these say.                                   *)

\* What only the files and journals say.
LEMMA SameFiles ==
    ASSUME IInv, UNCHANGED <<platform, files, setup, cleanup>>
    PROVE  Platforms' /\ Readable' /\ OneJournal' /\ Accounted'
  BY DEF IInv, Platforms, Readable, OneJournal, Accounted, Present, Windows, files, setupId,
         cleanupId, Essential

\* A command that ends keeps the invariant: whatever it dies at, its files are
\* accounted for.
LEMMA EndsInv ==
    ASSUME IInv, Ends, UNCHANGED <<platform, files, setup, cleanup, phase, runOf, scrapped>>,
           faults' \in 0 .. MaxFaults
    PROVE  IInv'
  <1> USE LifecycleAssumption
  <1>1. TypeOK'
      BY DEF Ends, IInv, TypeOK, files
  <1>2. Waits'
      BY DEF Ends, IInv, TypeOK, Waits, Windows, files
  <1> QED
      BY <1>1, <1>2, SameFiles
         DEF Ends, IInv, SetupNames, RemoveNames, Provisions, Commits, Deletes

LEMMA JournalFacts ==
    /\ \A j \in SetupJournal :
        /\ Encode(j) \in SetupFile /\ Encode(j) \notin {None, Torn}
        /\ Encode(j).d = j.d /\ Encode(j).stage = j.stage /\ Encode(j).candidate = j.candidate
    /\ \A f \in SetupFile :
        /\ Decode(f) \in SetupJournal
        /\ Decode(f).d = f.d /\ Decode(f).stage = f.stage /\ Decode(f).candidate = f.candidate
  BY FilesAssumption DEF SetupJournal, SetupFile, Encode, Decode

LEMMA NewJournalFacts ==
    ASSUME NEW d \in Pairings, NEW explicit \in BOOLEAN
    PROVE  /\ NewJournal(d, explicit) \in SetupJournal
           /\ NewJournal(d, explicit).d = d /\ NewJournal(d, explicit).stage = Provisioning
           /\ Encode(NewJournal(d, explicit)) \in SetupFile
           /\ Encode(NewJournal(d, explicit)).d = d
           /\ Encode(NewJournal(d, explicit)).stage \notin WithCandidate
           /\ Decodes(Encode(NewJournal(d, explicit)))
           /\ Encode(NewJournal(d, explicit)) \notin {None, Torn}
  BY JournalsAssumption, FilesAssumption
     DEF SetupJournal, SetupFile, NewJournal, Encode, Decodes, WithCandidate, Stages,
         Provisioning, ResponseVerified, Confirmed

\* A setup begins with an empty pairing.
LEMMA SetupBeginInv ==
    ASSUME IInv, NEW d \in Pairings, SetupBegin(d), UNCHANGED platform
    PROVE  IInv'
  <1> USE JournalsAssumption, FilesAssumption, LifecycleAssumption
  <1>1. /\ Encode(NewJournal(d, FALSE)) \in SetupFile
        /\ Encode(NewJournal(d, FALSE)) \notin {None, Torn}
        /\ Encode(NewJournal(d, FALSE)).d = d
        /\ Decodes(Encode(NewJournal(d, FALSE)))
      BY NewJournalFacts
  <1>2. cmd' = "setup" /\ target' = d /\ todo' = <<>> /\ setup = None /\ cleanup = None
        /\ UNCHANGED <<whole, torn, cleanup, phase, runOf, holder, faults, scrapped>>
      BY DEF SetupBegin, NoCleanupPending, files, runs
  <1>3. \/ Windows /\ setup' = Encode(NewJournal(d, FALSE)) /\ writing' = None
        \/ ~Windows /\ setup' = Torn /\ writing' = "journal"
      BY DEF SetupBegin
  <1>4. \A k \in Kinds : ~Present(k, d)
      BY DEF SetupBegin
  <1>5. \A k \in Kinds : <<k, d>> \notin whole
      BY <1>4 DEF Present
  <1>6. TypeOK'
      <2>1. todo' \in Seq(Kinds)
          BY <1>2
      <2> QED
          BY <1>1, <1>2, <1>3, <2>1 DEF IInv, TypeOK
  <1>7. Platforms' /\ Waits'
      BY <1>2 DEF IInv, Platforms, Waits, Present, Windows
  <1>8. Readable' /\ OneJournal'
      BY <1>1, <1>2, <1>3, <1>5 DEF IInv, Readable, OneJournal, Kinds
  <1>9. Accounted'
      BY <1>1, <1>2, <1>3
         DEF IInv, Accounted, Present, Essential, Windows, setupId, cleanupId
  <1>10. SetupNames' /\ RemoveNames' /\ Commits' /\ Deletes'
      BY <1>1, <1>2, <1>3 DEF SetupNames, RemoveNames, Commits, Deletes
  <1>11. Provisions'
      BY <1>2, <1>3, <1>5 DEF Provisions, Kinds, Windows
  <1> QED
      BY <1>6, <1>7, <1>8, <1>9, <1>10, <1>11 DEF IInv

LEMMA JournalWrittenInv ==
    ASSUME IInv, JournalWritten, UNCHANGED platform
    PROVE  IInv'
  <1> USE JournalsAssumption, FilesAssumption, LifecycleAssumption
  <1>1. /\ cmd = "setup" /\ writing = "journal" /\ setup = Torn /\ target \in Pairings
        /\ cleanup = None
      BY DEF JournalWritten, IInv, SetupNames
  <1>2. PICK explicit \in BOOLEAN : setup' = Encode(NewJournal(target, explicit))
      BY DEF JournalWritten
  <1>3. /\ setup' \in SetupFile /\ setup' \notin {None, Torn} /\ setup'.d = target
        /\ Decodes(setup')
      BY <1>1, <1>2, NewJournalFacts
  <1>4. /\ writing' = None
        /\ UNCHANGED <<whole, torn, cleanup, cmd, target, todo, phase, runOf, holder, faults,
                       scrapped>>
      BY DEF JournalWritten, files, runs
  <1>5. TypeOK'
      BY <1>3, <1>4 DEF IInv, TypeOK
  <1>6. Platforms' /\ Waits'
      BY <1>4 DEF IInv, Platforms, Waits, Present, Windows
  <1>7. Readable' /\ OneJournal'
      BY <1>1, <1>3, <1>4 DEF IInv, Readable, OneJournal, Provisions
  <1>8. Accounted'
      BY <1>1, <1>3, <1>4
         DEF IInv, Accounted, Present, Essential, Windows, setupId, cleanupId
  <1>9. SetupNames' /\ RemoveNames' /\ Commits' /\ Deletes' /\ Provisions'
      BY <1>1, <1>3, <1>4
         DEF IInv, SetupNames, RemoveNames, Commits, Deletes, Provisions, Windows
  <1> QED
      BY <1>5, <1>6, <1>7, <1>8, <1>9 DEF IInv

\* Key state is made under a journal that names it.
LEMMA ProvisioningInv ==
    ASSUME IInv, ReserveCng \/ ProvisionCng \/ ReserveEnclave \/ ProvisionEnclave,
           UNCHANGED platform
    PROVE  IInv'
  <1> USE JournalsAssumption, FilesAssumption, LifecycleAssumption
  <1>1. /\ cmd = "setup" /\ setup \notin {None, Torn} /\ target \in Pairings
        /\ setup.d = target /\ writing = None
        /\ UNCHANGED <<setup, cleanup, cmd, target, todo, writing, phase, runOf, holder,
                       faults, scrapped>>
      BY DEF ReserveCng, ProvisionCng, ReserveEnclave, ProvisionEnclave, InStage, IInv,
             SetupNames, Provisions, command, runs
  <1>2. \/ /\ Windows /\ torn = {} /\ torn' = {}
           /\ \/ whole' = whole \cup {<<"keys", target>>}
              \/ whole' = whole \cup {<<"state", target>>} /\ <<"keys", target>> \in whole
        \/ /\ ~Windows /\ <<"state", target>> \notin whole
           /\ whole' = whole /\ torn' = torn \cup {<<"state", target>>}
        \/ /\ ~Windows
           /\ whole' = whole \cup {<<"state", target>>}
           /\ torn' = torn \ {<<"state", target>>}
      BY DEF ReserveCng, ProvisionCng, ReserveEnclave, ProvisionEnclave, IInv, Platforms, Present
  <1>3. TypeOK'
      <2>1. <<"keys", target>> \in Kinds \X Pairings /\ <<"state", target>> \in Kinds \X Pairings
          BY <1>1 DEF Kinds
      <2>2. whole' \subseteq Kinds \X Pairings /\ torn' \subseteq Kinds \X Pairings
          <3>1. whole \subseteq Kinds \X Pairings /\ torn \subseteq Kinds \X Pairings
              BY DEF IInv, TypeOK
          <3> QED
              BY <1>2, <2>1, <3>1
      <2>3. whole' \cap torn' = {}
          BY <1>2 DEF IInv, TypeOK
      <2> QED
          BY <1>1, <2>2, <2>3 DEF IInv, TypeOK
  <1>4. Platforms'
      BY <1>1, <1>2 DEF IInv, Platforms, Present, Windows
  <1>5. Readable' /\ OneJournal'
      BY <1>1, <1>2 DEF IInv, Readable, OneJournal
  <1>6. Accounted'
      <2>1. \A d \in Pairings : d # target =>
                \A k : /\ <<k, d>> \in whole' <=> <<k, d>> \in whole
                       /\ <<k, d>> \in torn' <=> <<k, d>> \in torn
          BY <1>2
      <2>2. setupId' = target /\ setupId' = setupId /\ cleanupId' = cleanupId
          BY <1>1 DEF setupId, cleanupId
      <2> QED
          BY <2>1, <2>2 DEF IInv, Accounted, Present, Essential, Windows
  <1>7. Provisions'
      BY <1>1, <1>2 DEF IInv, Provisions, Windows
  <1>8. Waits'
      BY <1>1, <1>2 DEF IInv, Waits, Windows
  <1>9. SetupNames' /\ RemoveNames' /\ Commits' /\ Deletes'
      BY <1>1 DEF IInv, SetupNames, RemoveNames, Commits, Deletes
  <1> QED
      BY <1>3, <1>4, <1>5, <1>6, <1>7, <1>8, <1>9 DEF IInv

\* The order of a commit.
LEMMA CommitOrder ==
    /\ <<"replay", "locator", "stub">> \in Seq(Kinds)
    /\ Range(<<"replay", "locator", "stub">>) = {"replay", "locator", "stub"}
  <1> DEFINE s == <<"replay", "locator", "stub">>
  <1>1. s \in Seq(Kinds) /\ DOMAIN s = 1 .. 3
      BY DEF Kinds
  <1>2. s[1] = "replay" /\ s[2] = "locator" /\ s[3] = "stub"
      OBVIOUS
  <1> HIDE DEF s
  <1>3. Range(s) = {"replay", "locator", "stub"}
      BY <1>1, <1>2 DEF Range
  <1> QED
      BY <1>1, <1>3 DEF s

\* A commit starts for a confirmed journal whose key state is there.
LEMMA CommitStartsInv ==
    ASSUME IInv, cleanup = None, target' \in Pairings,
           setup' \in SetupFile, setup'.d = target', setup'.stage = Confirmed, Decodes(setup'),
           setupId \in {None, target'},
           \A k \in Essential \ {"replay", "locator"} : <<k, target'>> \in whole,
           Starts("commit", target', <<"replay", "locator", "stub">>),
           UNCHANGED <<platform, files, cleanup, runs, faults, scrapped>>
    PROVE  IInv'
  <1> USE JournalsAssumption, FilesAssumption, LifecycleAssumption
  <1>1. /\ cmd' = "commit" /\ todo' = <<"replay", "locator", "stub">> /\ writing' = None
        /\ UNCHANGED <<whole, torn, phase, runOf, holder>>
        /\ todo' \in Seq(Kinds) /\ Range(todo') = {"replay", "locator", "stub"}
        /\ setup' \notin {None, Torn} /\ setup'.stage \in WithCandidate
      BY CommitOrder DEF Starts, files, runs, WithCandidate
  <1>2. TypeOK'
      BY <1>1 DEF IInv, TypeOK
  <1>3. Platforms' /\ Waits'
      BY <1>1 DEF IInv, Platforms, Waits, Present, Windows
  <1>4. Readable' /\ OneJournal'
      BY <1>1 DEF IInv, Readable, OneJournal
  <1>5. Accounted'
      BY <1>1 DEF IInv, Accounted, Present, Essential, Windows, setupId, cleanupId
  <1>6. SetupNames' /\ RemoveNames' /\ Deletes' /\ Provisions'
      BY <1>1 DEF SetupNames, RemoveNames, Deletes, Provisions
  <1>7. Commits'
      BY <1>1 DEF Commits, Essential, Windows
  <1> QED
      BY <1>2, <1>3, <1>4, <1>5, <1>6, <1>7 DEF IInv

LEMMA AdvanceInv ==
    ASSUME IInv, Advance, UNCHANGED platform
    PROVE  IInv'
  <1> USE JournalsAssumption, FilesAssumption, LifecycleAssumption
  <1> DEFINE j == Decode(setup)
  <1>1. /\ cmd = "setup" /\ <<"state", target>> \in whole /\ writing = None
        /\ setup \in SetupFile /\ setup \notin {None, Torn} /\ setup.d = target
        /\ target \in Pairings /\ cleanup = None /\ Decodes(setup)
        /\ UNCHANGED <<files, cleanup, runs, faults, scrapped>>
      BY DEF Advance, IInv, TypeOK, Provisions, SetupNames, Readable
  <1>2. /\ j \in SetupJournal /\ j.d = target /\ j.stage = setup.stage
        /\ j.candidate = setup.candidate
      BY <1>1, JournalFacts
  <1> HIDE DEF j
  <1>3. CASE UNCHANGED command
      <2>1. /\ setup' \in SetupFile /\ setup' \notin {None, Torn} /\ setup'.d = target
            /\ Decodes(setup')
        <3>1. CASE j.stage = Provisioning /\ Replace(SetPairing(j))
            <4>1. SetPairing(j) \in SetupJournal /\ SetPairing(j).d = target
                  /\ SetPairing(j).stage = Pairing /\ SetPairing(j).candidate = j.candidate
                BY <1>2 DEF SetPairing, SetupJournal, Stages, Pairing
            <4>2. setup' = Encode(SetPairing(j)) /\ j.candidate = None
                BY <3>1, <1>1, <1>2
                   DEF Replace, Decodes, WithCandidate, Provisioning, ResponseVerified, Confirmed
            <4>3. setup'.version \in 1 .. 3
                BY <4>2 DEF Encode
            <4> QED
                BY <4>1, <4>2, <4>3, JournalFacts
                   DEF Decodes, WithCandidate, Pairing, ResponseVerified, Confirmed
        <3>2. CASE j.stage = Pairing /\ Replace(SetCandidate(j))
            <4>1. SetCandidate(j) \in SetupJournal /\ SetCandidate(j).d = target
                  /\ SetCandidate(j).stage = ResponseVerified
                  /\ SetCandidate(j).candidate = target
              <5> DEFINE staged == [j EXCEPT !.stage = ResponseVerified]
              <5>1. staged \in SetupJournal /\ staged.d = target /\ staged.stage = ResponseVerified
                  BY <1>2 DEF SetupJournal, Stages, ResponseVerified
              <5>2. SetCandidate(j) = [staged EXCEPT !.candidate = target]
                  BY <1>2 DEF SetCandidate
              <5> HIDE DEF staged
              <5> QED
                  BY <1>1, <5>1, <5>2 DEF SetupJournal
            <4>2. setup' = Encode(SetCandidate(j))
                BY <3>2 DEF Replace
            <4>3. setup'.version \in 1 .. 3
                BY <4>2 DEF Encode
            <4> QED
                BY <1>1, <4>1, <4>2, <4>3, JournalFacts DEF Decodes, WithCandidate
        <3>3. ~Starts("commit", target, <<"replay", "locator", "stub">>)
            BY <1>1, <1>3 DEF Starts, command
        <3> QED
            BY <3>1, <3>2, <3>3 DEF Advance, j
      <2>2. /\ UNCHANGED <<whole, torn, cmd, target, todo, writing, phase, runOf, holder>>
            /\ <<"locator", target>> \notin whole
          BY <1>1, <1>3 DEF command, files, runs, IInv, Provisions
      <2>3. TypeOK'
          BY <1>1, <2>1, <2>2 DEF IInv, TypeOK
      <2>4. Platforms' /\ Waits'
          BY <1>1, <2>2 DEF IInv, Platforms, Waits, Present, Windows
      <2>5. Readable' /\ OneJournal'
          BY <1>1, <2>1, <2>2 DEF IInv, Readable, OneJournal
      <2>6. Accounted'
          BY <1>1, <2>1, <2>2
             DEF IInv, Accounted, Present, Essential, Windows, setupId, cleanupId
      <2>7. SetupNames' /\ RemoveNames' /\ Deletes' /\ Provisions' /\ Commits'
          BY <1>1, <2>1, <2>2
             DEF IInv, SetupNames, RemoveNames, Deletes, Provisions, Commits, Windows
      <2> QED
          BY <2>3, <2>4, <2>5, <2>6, <2>7 DEF IInv
  <1>4. CASE /\ j.stage = ResponseVerified /\ Replace(SetConfirmed(j))
             /\ Starts("commit", target, <<"replay", "locator", "stub">>)
      <2>1. SetConfirmed(j) \in SetupJournal /\ SetConfirmed(j).d = target
            /\ SetConfirmed(j).stage = Confirmed /\ SetConfirmed(j).candidate = j.candidate
          BY <1>2 DEF SetConfirmed, SetupJournal, Stages, Confirmed
      <2>2. setup' = Encode(SetConfirmed(j))
          BY <1>4 DEF Replace
      <2>3. setup'.version \in 1 .. 3
          BY <2>2 DEF Encode
      <2>4. /\ setup' \in SetupFile /\ setup'.d = target /\ setup'.stage = Confirmed
            /\ Decodes(setup')
          BY <1>1, <1>2, <1>4, <2>1, <2>2, <2>3, JournalFacts DEF Decodes, WithCandidate
      <2>5. \A k \in Essential \ {"replay", "locator"} : <<k, target>> \in whole
          BY <1>1 DEF IInv, Provisions, Essential
      <2>6. target' = target /\ setupId = target
          BY <1>1, <1>4 DEF Starts, setupId
      <2> QED
          BY <1>1, <1>4, <2>4, <2>5, <2>6, CommitStartsInv
  <1> QED
      BY <1>3, <1>4 DEF Advance, j

LEMMA ResumeInv ==
    ASSUME IInv, Resume, UNCHANGED platform
    PROVE  IInv'
  <1>1. /\ cleanup = None /\ setup \notin {None, Torn} /\ setup.stage = Confirmed
        /\ setup \in SetupFile /\ Decodes(setup) /\ setup.d \in Pairings
        /\ setupId = setup.d /\ target' = setup.d
      BY JournalFacts DEF Resume, NoCleanupPending, SetupReads, InStage, Starts, IInv, TypeOK,
         SetupFile, setupId
  <1>2. \A k \in Essential \ {"replay", "locator"} : <<k, target'>> \in whole
      BY <1>1 DEF Resume, StateOpens, CngStateOpens, EnclaveStateOpens, Essential
  <1> QED
      BY <1>1, <1>2, CommitStartsInv DEF Resume

\* What a commit knows.
LEMMA CommitFacts ==
    ASSUME IInv, cmd = "commit"
    PROVE  /\ target \in Pairings /\ cleanup = None /\ setup \in SetupFile
           /\ setup \notin {None, Torn} /\ setup.d = target /\ setupId = target
           /\ cleanupId = None /\ setup.stage \in WithCandidate
           /\ todo \in Seq(Kinds) /\ Range(todo) \subseteq {"replay", "locator", "stub"}
  BY DEF IInv, TypeOK, SetupNames, Commits, setupId, cleanupId, WithCandidate

\* An accepted object was already there.
LEMMA CommitAcceptsInv ==
    ASSUME IInv, CommitAccepts, UNCHANGED platform
    PROVE  IInv'
  <1> USE LifecycleAssumption
  <1>1. /\ cmd = "commit" /\ writing = None /\ todo # <<>> /\ todo' = Tail(todo)
        /\ UNCHANGED <<files, whole, torn, setup, cleanup, cmd, target, writing, phase, runOf,
                       holder, faults, scrapped>>
      BY DEF CommitAccepts, files, runs
  <1>2. Tail(todo) \in Seq(Kinds) /\ Range(todo) = {Head(todo)} \cup Range(Tail(todo))
      BY <1>1, CommitFacts, TailRange
  <1>3. <<Head(todo), target>> \in whole
      BY DEF CommitAccepts, ReplayOpens
  <1>4. TypeOK'
      BY <1>1, <1>2 DEF IInv, TypeOK
  <1>5. Commits'
      BY <1>1, <1>2, <1>3 DEF IInv, Commits, Essential, Windows
  <1>6. SetupNames' /\ RemoveNames' /\ Provisions' /\ Deletes' /\ Waits'
      BY <1>1 DEF IInv, SetupNames, RemoveNames, Provisions, Deletes, Waits, Windows
  <1> QED
      BY <1>1, <1>4, <1>5, <1>6, SameFiles DEF IInv

\* A commit makes the next object, or on macOS an empty one and then fills it.
LEMMA CommitMakesInv ==
    ASSUME IInv, CommitCreates \/ CommitWrites, UNCHANGED platform
    PROVE  IInv'
  <1> USE LifecycleAssumption
  <1> DEFINE k == Head(todo)
  <1>1. /\ cmd = "commit" /\ todo # <<>>
        /\ UNCHANGED <<setup, cleanup, cmd, target, phase, runOf, holder, faults, scrapped>>
      BY DEF CommitCreates, CommitWrites, IInv, Commits, runs
  <1>2. /\ k \in {"replay", "locator", "stub"}
        /\ todo \in Seq(Kinds) /\ Tail(todo) \in Seq(Kinds)
        /\ Range(todo) = {k} \cup Range(Tail(todo))
      BY <1>1, CommitFacts, TailRange
  <1> HIDE DEF k
  <1>3. \/ /\ Windows /\ torn' = torn /\ todo' = Tail(todo) /\ writing' = None
           /\ whole' \in {whole \cup {<<k, target>>},
                          whole \cup {<<"lock", target>>} \cup {<<k, target>>}}
        \/ /\ ~Windows /\ <<k, target>> \notin whole
           /\ whole' \in {whole, whole \cup {<<"lock", target>>}}
           /\ torn' = torn \cup {<<k, target>>}
           /\ writing' = k /\ todo' = todo
        \/ /\ writing = k /\ writing # None
           /\ whole' = whole \cup {<<k, target>>} /\ torn' = torn \ {<<k, target>>}
           /\ todo' = Tail(todo) /\ writing' = None
      <2>1. CASE CommitCreates
          BY <2>1 DEF CommitCreates, Present, k
      <2>2. CASE CommitWrites
          BY <2>2 DEF CommitWrites, IInv, Commits, k
      <2> QED
          BY <2>1, <2>2
  <1>4. /\ target \in Pairings /\ setup \notin {None, Torn} /\ setup.d = target
        /\ setup.stage \in WithCandidate /\ setupId = target
      BY <1>1, CommitFacts
  <1>5. TypeOK'
      <2>1. <<k, target>> \in Kinds \X Pairings /\ <<"lock", target>> \in Kinds \X Pairings
          BY <1>2, <1>4 DEF Kinds
      <2>2. whole' \subseteq Kinds \X Pairings /\ torn' \subseteq Kinds \X Pairings
          <3>1. whole \subseteq Kinds \X Pairings /\ torn \subseteq Kinds \X Pairings
              BY DEF IInv, TypeOK
          <3> QED
              BY <1>3, <2>1, <3>1
      <2>3. whole' \cap torn' = {}
          <3>1. <<"lock", target>> \notin torn /\ k # "lock" /\ (Windows => torn = {})
              BY <1>2, <1>4 DEF IInv, Platforms
          <3>2. whole \cap torn = {}
              BY DEF IInv, TypeOK
          <3> QED
              BY <1>3, <3>1, <3>2
      <2>4. writing' \in Kinds \cup {"journal", None} /\ todo' \in Seq(Kinds)
          BY <1>2, <1>3 DEF Kinds, IInv, TypeOK
      <2> QED
          BY <1>1, <2>2, <2>3, <2>4 DEF IInv, TypeOK
  <1>6. Platforms'
      BY <1>1, <1>2, <1>3 DEF IInv, Platforms, Present, Windows
  <1>7. Readable' /\ OneJournal'
      BY <1>1, <1>4 DEF IInv, Readable, OneJournal
  <1>8. Accounted'
      <2>1. \A d \in Pairings : d # target =>
                \A x : /\ <<x, d>> \in whole' <=> <<x, d>> \in whole
                       /\ <<x, d>> \in torn' <=> <<x, d>> \in torn
          BY <1>3
      <2>2. setupId' = target /\ setupId' = setupId /\ cleanupId' = cleanupId
          BY <1>1, <1>4 DEF setupId, cleanupId
      <2> QED
          BY <2>1, <2>2 DEF IInv, Accounted, Present, Essential, Windows
  <1>9. Commits'
      <2>1. Range(todo') \subseteq Range(todo) /\ UNCHANGED Essential
          BY <1>2, <1>3 DEF Essential, Windows
      <2>2. \A x \in Essential : <<x, target>> \in whole' \/ x \in Range(todo')
          <3>1. \A x \in Essential : <<x, target>> \in whole \/ x = k \/ x \in Range(Tail(todo))
              BY <1>1, <1>2 DEF IInv, Commits
          <3>2. \A x \in Essential : <<x, target>> \in whole \/ x \in Range(todo)
              BY <1>1 DEF IInv, Commits
          <3> QED
              BY <1>3, <3>1, <3>2
      <2>3. writing' # None => todo' # <<>> /\ writing' = Head(todo')
          BY <1>1, <1>3 DEF k
      <2> QED
          BY <1>1, <2>1, <2>2, <2>3 DEF IInv, Commits
  <1>10. SetupNames' /\ RemoveNames' /\ Provisions' /\ Deletes'
      BY <1>1, <1>2, <1>3, <1>4
         DEF IInv, SetupNames, RemoveNames, Provisions, Deletes, Kinds
  <1>11. Waits'
      BY <1>1, <1>3 DEF IInv, Waits, Windows
  <1> QED
      BY <1>5, <1>6, <1>7, <1>8, <1>9, <1>10, <1>11 DEF IInv

\* The journal of a commit goes when the pairing is complete, that of a deletion
\* when its private files are gone.
LEMMA JournalGoesInv ==
    ASSUME IInv, CommitDone \/ DeleteDone, UNCHANGED platform
    PROVE  IInv'
  <1> USE JournalsAssumption, FilesAssumption, LifecycleAssumption
  <1>1. /\ Ends /\ cmd \in {"commit", "undo", "remove"} /\ todo = <<>>
        /\ UNCHANGED <<whole, torn, phase, runOf, faults, scrapped>>
        /\ \/ setup' = None /\ cleanup' = cleanup /\ cmd # "remove"
           \/ cleanup' = None /\ setup' = setup /\ cmd = "remove"
      BY DEF CommitDone, DeleteDone, files
  <1>2. Range(todo) = {}
      BY <1>1 DEF Range
  <1>3. \/ \A k \in Essential : <<k, target>> \in whole
        \/ \A k \in Kinds \ {"lock", "stub"} : ~Present(k, target)
      BY <1>1, <1>2 DEF IInv, Commits, Deletes
  <1>4. /\ cmd # "remove" => cleanup = None /\ setupId \in {target, None}
        /\ cmd = "remove" => setup = None /\ cleanupId \in {target, None}
      BY <1>1 DEF IInv, SetupNames, RemoveNames, setupId, cleanupId
  <1>5. Accounted'
      BY <1>1, <1>3, <1>4 DEF IInv, Accounted, Present, Essential, Windows, setupId, cleanupId
  <1>6. Platforms'
      BY <1>1 DEF IInv, Platforms, Present, Windows
  <1>7. Readable' /\ OneJournal'
      BY <1>1 DEF IInv, Readable, OneJournal
  <1>8. TypeOK'
      BY <1>1 DEF Ends, IInv, TypeOK
  <1>9. Waits'
      BY <1>1 DEF Ends, IInv, TypeOK, Waits, Windows
  <1> QED
      BY <1>1, <1>5, <1>6, <1>7, <1>8, <1>9
         DEF Ends, IInv, SetupNames, RemoveNames, Provisions, Commits, Deletes

-----------------------------------------------------------------------------
(* Deletion. *)

\* A deletion starts with all its files still to delete.
LEMMA UndoStartsInv ==
    ASSUME IInv, cleanup = None, setup \notin {None, Torn}, target' = setup.d,
           Starts("undo", target', UndoOrder),
           UNCHANGED <<platform, files, setup, cleanup, runs, faults, scrapped>>
    PROVE  IInv'
  <1> USE LifecycleAssumption
  <1>1. /\ cmd' = "undo" /\ todo' = UndoOrder /\ writing' = None /\ target' = setup.d
        /\ setup.d \in Pairings
        /\ UNCHANGED <<files, whole, torn, phase, runOf, holder>>
      BY DEF Starts, files, runs, IInv, TypeOK, SetupFile
  <1>2. DeletionOrder(todo') /\ UNCHANGED Windows
      BY <1>1, UndoOrdered DEF Windows
  <1>3. TypeOK'
      BY <1>1, <1>2 DEF IInv, TypeOK, DeletionOrder
  <1>4. Deletes'
      BY <1>1, <1>2 DEF IInv, Platforms, Deletes, DeletionOrder, Kinds, Present, Windows
  <1>5. SetupNames' /\ RemoveNames' /\ Commits' /\ Provisions' /\ Waits'
      BY <1>1, <1>2 DEF IInv, SetupNames, RemoveNames, Commits, Provisions, Waits
  <1> QED
      BY <1>1, <1>3, <1>4, <1>5, SameFiles DEF IInv

LEMMA CleanupSetupInv ==
    ASSUME IInv, CleanupSetup, UNCHANGED platform
    PROVE  IInv'
  <1>1. cleanup = None /\ setup \notin {None, Torn} /\ setupId = setup.d /\ target' = setup.d
      BY DEF CleanupSetup, NoCleanupPending, SetupReads, setupId, Starts
  <1> QED
      BY <1>1, UndoStartsInv DEF CleanupSetup

LEMMA SetupFailsInv ==
    ASSUME IInv, SetupFails, UNCHANGED platform
    PROVE  IInv'
  <1>1. CASE Windows
      <2>1. cleanup = None /\ setup \notin {None, Torn} /\ setup.d = target /\ target' = target
          BY <1>1, LifecycleAssumption DEF SetupFails, Starts, IInv, SetupNames
      <2> QED
          BY <1>1, <2>1, UndoStartsInv DEF SetupFails, runs
  <1>2. CASE ~Windows
      <2>1. faults' \in 0 .. MaxFaults
          BY DEF SetupFails, IInv, TypeOK
      <2> QED
          BY <1>2, <2>1, EndsInv DEF SetupFails
  <1> QED
      BY <1>1, <1>2

LEMMA RemoveAgainInv ==
    ASSUME IInv, RemoveAgain, UNCHANGED platform
    PROVE  IInv'
  <1> USE LifecycleAssumption
  <1>1. /\ cmd' = "remove" /\ todo' = RemoveOrder(cleanup.kind) /\ writing' = None
        /\ setup = None /\ cleanup \notin {None, Torn}
        /\ target' = cleanup.d /\ cleanup.d \in Pairings
        /\ UNCHANGED <<files, whole, torn, setup, cleanup, phase, runOf, holder, faults, scrapped>>
      BY DEF RemoveAgain, Starts, CleanupReads, cleanupId, files, runs, IInv, TypeOK, CleanupFile
  <1>2. DeletionOrder(todo') /\ UNCHANGED Windows
      BY <1>1, RemoveOrdered DEF Windows
  <1>3. TypeOK'
      BY <1>1, <1>2 DEF IInv, TypeOK, DeletionOrder
  <1>4. Deletes'
      BY <1>1, <1>2 DEF IInv, Platforms, Deletes, DeletionOrder, Kinds, Present, Windows
  <1>5. SetupNames' /\ RemoveNames' /\ Commits' /\ Provisions' /\ Waits'
      BY <1>1, <1>2 DEF IInv, SetupNames, RemoveNames, Commits, Provisions, Waits
  <1> QED
      BY <1>1, <1>3, <1>4, <1>5, SameFiles DEF IInv

\* An available pairing is complete: no journal names it, or only a setup journal
\* that does not know its candidate yet, and then it has no locator.
LEMMA AvailableComplete == IInv => AvailableIsComplete
  <1> SUFFICES ASSUME IInv, NEW d \in Pairings, LocatorOpens(d)
               PROVE  \A k \in Essential : <<k, d>> \in whole
      BY DEF AvailableIsComplete
  <1>1. <<"locator", d>> \in whole /\ Present("locator", d)
      BY DEF LocatorOpens, Present
  <1>2. cleanupId # d
      BY JournalsAssumption DEF LocatorOpens, CleanupReads, cleanupId
  <1>3. setupId # d
      <2> SUFFICES ASSUME setupId = d PROVE FALSE
          OBVIOUS
      <2>1. setup \notin {None, Torn} /\ setup.d = d /\ setup \in SetupFile
          BY JournalsAssumption DEF setupId, IInv, TypeOK
      <2>2. Decode(setup).candidate # d /\ Decodes(setup)
          BY <2>1 DEF LocatorOpens, SetupReads
      <2>3. setup.candidate = None
          BY <2>1, <2>2, JournalFacts DEF Decodes
      <2>4. setup.stage \notin WithCandidate
          BY <2>2, <2>3 DEF Decodes
      <2> QED
          BY <2>1, <2>4, <1>1 DEF IInv, Readable
  <1> QED
      BY <1>1, <1>2, <1>3 DEF IInv, Accounted, Kinds

\* A removal begins with a complete pairing that no journal names.
LEMMA RemoveBeginInv ==
    ASSUME IInv, NEW d \in Pairings, NEW kind \in {"paired", "orphan"}, RemoveBegin(d, kind),
           UNCHANGED platform
    PROVE  IInv'
  <1> USE JournalsAssumption, FilesAssumption, LifecycleAssumption
  <1>1. /\ cmd' = "remove" /\ todo' = RemoveOrder(kind) /\ target' = d
        /\ setup = None /\ cleanup = None
        /\ whole' = whole \cup {<<"lock", d>>}
        /\ UNCHANGED <<torn, setup, phase, runOf, faults, scrapped>>
      BY DEF RemoveBegin
  <1>2. \A k \in Essential : <<k, d>> \in whole
      BY AvailableComplete DEF AvailableIsComplete, RemoveBegin
  <1>3. EncodeCleanup(kind, d) \in CleanupFile /\ EncodeCleanup(kind, d).d = d
        /\ DecodesCleanup(EncodeCleanup(kind, d))
      BY DEF EncodeCleanup, CleanupFile, DecodesCleanup
  <1>4. \/ /\ Windows /\ cleanup' = EncodeCleanup(kind, d) /\ writing' = None
           /\ holder' = holder
        \/ /\ ~Windows /\ cleanup' = Torn /\ writing' = "journal" /\ holder[d] = None
           /\ holder' = [holder EXCEPT ![d] = "cleanup"]
      BY DEF RemoveBegin
  <1>5. DeletionOrder(todo') /\ UNCHANGED Windows
      BY <1>1, RemoveOrdered DEF Windows
  <1>6. TypeOK'
      <2>1. <<"lock", d>> \in Kinds \X Pairings /\ <<"lock", d>> \notin torn
          BY DEF Kinds, IInv, Platforms
      <2>2. whole' \cup torn' \subseteq Kinds \X Pairings /\ whole' \cap torn' = {}
          BY <1>1, <2>1 DEF IInv, TypeOK
      <2>3. holder' \in [Pairings -> Runs \cup {"cleanup", None}]
          BY <1>4 DEF IInv, TypeOK
      <2> QED
          BY <1>1, <1>3, <1>4, <1>5, <2>2, <2>3 DEF IInv, TypeOK, DeletionOrder
  <1>7. Platforms'
      BY <1>1 DEF IInv, Platforms, Present, Windows
  <1>8. Readable' /\ OneJournal'
      BY <1>1, <1>3, <1>4 DEF IInv, Readable, OneJournal
  <1>9. Accounted'
      BY <1>1, <1>2, <1>4, <1>3
         DEF IInv, Accounted, Present, Essential, Windows, setupId, cleanupId
  <1>10. RemoveNames'
      BY <1>1, <1>3, <1>4 DEF RemoveNames, IInv, TypeOK
  <1>11. Deletes'
      BY <1>1, <1>5, <1>7 DEF Platforms, Deletes, DeletionOrder, Kinds, Present, Windows
  <1>12. Waits'
      BY <1>1, <1>4, <1>5 DEF IInv, TypeOK, Waits
  <1>13. SetupNames' /\ Commits' /\ Provisions'
      BY <1>1 DEF SetupNames, Commits, Provisions
  <1> QED
      BY <1>6, <1>7, <1>8, <1>9, <1>10, <1>11, <1>12, <1>13 DEF IInv

LEMMA RemoveWritesInv ==
    ASSUME IInv, RemoveWrites, UNCHANGED platform
    PROVE  IInv'
  <1> USE JournalsAssumption, FilesAssumption, LifecycleAssumption
  <1>1. /\ cmd = "remove" /\ target \in Pairings /\ setup = None /\ cleanup = Torn
        /\ holder[target] = "cleanup" /\ writing' = None
        /\ holder' = [holder EXCEPT ![target] = None]
        /\ UNCHANGED <<whole, torn, setup, cmd, target, todo, phase, runOf, faults, scrapped>>
      BY DEF RemoveWrites, IInv, RemoveNames, files
  <1>2. PICK kind \in {"paired", "orphan"} : cleanup' = EncodeCleanup(kind, target)
      BY DEF RemoveWrites
  <1>3. cleanup' \in CleanupFile /\ cleanup'.d = target /\ DecodesCleanup(cleanup')
        /\ cleanup' \notin {None, Torn}
      BY <1>1, <1>2 DEF EncodeCleanup, CleanupFile, DecodesCleanup
  <1>4. TypeOK'
      BY <1>1, <1>3 DEF IInv, TypeOK
  <1>5. Platforms'
      BY <1>1 DEF IInv, Platforms, Present, Windows
  <1>6. Readable' /\ OneJournal'
      BY <1>1, <1>3 DEF IInv, Readable, OneJournal
  <1>7. Accounted'
      BY <1>1, <1>3 DEF IInv, Accounted, Present, Essential, Windows, setupId, cleanupId
  <1>8. SetupNames' /\ RemoveNames' /\ Commits' /\ Provisions' /\ Deletes'
      BY <1>1, <1>3
         DEF IInv, SetupNames, RemoveNames, Commits, Provisions, Deletes, Present, Windows
  <1>9. Waits'
      BY <1>1 DEF IInv, TypeOK, Waits, Windows
  <1> QED
      BY <1>4, <1>5, <1>6, <1>7, <1>8, <1>9 DEF IInv

\* Taking a lock again changes nothing but the lock.
LEMMA RelockInv ==
    ASSUME IInv, Relock, UNCHANGED platform
    PROVE  IInv'
  <1> USE LifecycleAssumption
  <1>1. /\ cmd \in {"undo", "remove"} /\ writing = None /\ ~Windows /\ holder[target] = None
        /\ holder' = [holder EXCEPT ![target] = "cleanup"]
        /\ whole' = whole \cup {<<"lock", target>>} /\ target \in Pairings
        /\ UNCHANGED <<torn, setup, cleanup, cmd, target, todo, writing, phase, runOf, faults,
                       scrapped>>
      BY DEF Relock, Locked, command, IInv, SetupNames, RemoveNames
  <1>2. TypeOK'
      <2>1. <<"lock", target>> \in Kinds \X Pairings /\ <<"lock", target>> \notin torn
          BY <1>1 DEF Kinds, IInv, Platforms
      <2>2. whole' \cup torn' \subseteq Kinds \X Pairings /\ whole' \cap torn' = {}
          BY <1>1, <2>1 DEF IInv, TypeOK
      <2>3. holder' \in [Pairings -> Runs \cup {"cleanup", None}]
          BY <1>1 DEF IInv, TypeOK
      <2> QED
          BY <1>1, <2>2, <2>3 DEF IInv, TypeOK
  <1>3. Platforms'
      BY <1>1 DEF IInv, Platforms, Present, Windows
  <1>4. Readable' /\ OneJournal'
      BY <1>1 DEF IInv, Readable, OneJournal
  <1>5. Accounted'
      BY <1>1 DEF IInv, Accounted, Present, Essential, Windows, setupId, cleanupId
  <1>6. SetupNames' /\ RemoveNames' /\ Commits' /\ Provisions'
      BY <1>1 DEF IInv, SetupNames, RemoveNames, Commits, Provisions
  <1>7. Deletes'
      BY <1>1 DEF IInv, Deletes, Present, Windows
  <1>8. Waits'
      BY <1>1 DEF IInv, TypeOK, Waits, Windows
  <1> QED
      BY <1>2, <1>3, <1>4, <1>5, <1>6, <1>7, <1>8 DEF IInv

\* A file is deleted under a journal that names it, and no waiting run loses its
\* replay state on macOS.
LEMMA DeleteInv ==
    ASSUME IInv, Delete, UNCHANGED platform
    PROVE  IInv'
  <1> USE LifecycleAssumption
  <1> DEFINE k == Head(todo)
  <1>1. /\ cmd \in {"undo", "remove"} /\ writing = None /\ todo # <<>> /\ todo' = Tail(todo)
        /\ whole' = whole \ {<<k, target>>} /\ torn' = torn \ {<<k, target>>}
        /\ scrapped' \in {scrapped, scrapped \cup {target}}
        /\ k = "lock" => holder[target] \notin Runs
        /\ holder' = IF k = "lock" THEN [holder EXCEPT ![target] = None] ELSE holder
        /\ UNCHANGED <<setup, cleanup, cmd, target, writing, phase, runOf, faults>>
      BY DEF Delete
  <1>2. /\ target \in Pairings
        /\ setup # Torn /\ cleanup # Torn
        /\ \/ setup # None /\ setup.d = target
           \/ cleanup # None /\ cleanup.d = target
      BY <1>1, FilesAssumption, JournalsAssumption DEF IInv, SetupNames, RemoveNames
  <1>3. /\ todo \in Seq(Kinds) /\ Tail(todo) \in Seq(Kinds)
        /\ Range(todo) = {k} \cup Range(Tail(todo))
      BY <1>1, TailRange DEF IInv, TypeOK
  <1>4. ~Windows => Before("replay", "lock", todo) /\ Before("replay", "pending", todo)
      BY <1>1 DEF IInv, Deletes
  <1>5. ~Windows => Before("replay", "lock", todo') /\ Before("replay", "pending", todo')
      BY <1>1, <1>3, <1>4, TailBefore
  <1>6. ~Windows /\ k = "replay" => holder[target] = "cleanup"
      <2> SUFFICES ASSUME ~Windows, k = "replay" PROVE holder[target] = "cleanup"
          OBVIOUS
      <2>1. "lock" \in Range(todo)
          BY <1>3, <1>4, BeforeIn
      <2>2. \E i \in DOMAIN todo : todo[i] = "lock"
          BY <2>1 DEF Range
      <2> QED
          BY <2>2 DEF Delete, Locked
  <1> HIDE DEF k
  <1>7. TypeOK'
      BY <1>1, <1>2, <1>3 DEF IInv, TypeOK
  <1>8. Platforms'
      BY <1>1 DEF IInv, Platforms, Present, Windows
  <1>9. Readable' /\ OneJournal'
      BY <1>1 DEF IInv, Readable, OneJournal
  <1>10. Accounted'
      <2>1. target \in {setupId, cleanupId} /\ UNCHANGED <<setupId, cleanupId, Essential>>
          BY <1>1, <1>2 DEF setupId, cleanupId, Essential, Windows, IInv, OneJournal
      <2>2. \A d \in Pairings : d # target =>
                \A x : /\ <<x, d>> \in whole' <=> <<x, d>> \in whole
                       /\ <<x, d>> \in torn' <=> <<x, d>> \in torn
          BY <1>1
      <2> QED
          BY <2>1, <2>2 DEF IInv, Accounted, Present
  <1>11. SetupNames' /\ RemoveNames' /\ Commits' /\ Provisions'
      BY <1>1 DEF IInv, SetupNames, RemoveNames, Commits, Provisions
  <1>12. Deletes'
      <2>1. \A x \in Kinds \ {"lock", "stub"} : Present(x, target)' => x \in Range(todo')
          BY <1>1, <1>3 DEF IInv, Deletes, Present
      <2> QED
          BY <1>1, <1>5, <2>1 DEF Deletes, Windows
  <1>13. Waits'
      <2> SUFFICES ASSUME NEW u \in Runs
                   PROVE  /\ phase[u] # "idle" => runOf[u] \in Pairings
                          /\ phase[u] = "waiting" =>
                                /\ holder'[runOf[u]] = u
                                /\ ~Windows => <<"replay", runOf[u]>> \in whole'
          BY <1>1 DEF Waits, Windows
      <2>1. phase[u] # "idle" => runOf[u] \in Pairings
          BY DEF IInv, Waits
      <2>2. ASSUME phase[u] = "waiting"
            PROVE  holder'[runOf[u]] = u /\ (~Windows => <<"replay", runOf[u]>> \in whole')
          <3>1. holder[runOf[u]] = u /\ (~Windows => <<"replay", runOf[u]>> \in whole)
              BY <2>2 DEF IInv, Waits
          <3>2. holder'[runOf[u]] = u
              BY <1>1, <1>2, <3>1 DEF IInv, TypeOK
          <3>3. ~Windows /\ k = "replay" => runOf[u] # target
              BY <1>6, <3>1
          <3> QED
              BY <1>1, <3>1, <3>2, <3>3
      <2> QED
          BY <2>1, <2>2
  <1> QED
      BY <1>7, <1>8, <1>9, <1>10, <1>11, <1>12, <1>13 DEF IInv

\* The user's own stub is no private file.
LEMMA StubLostInv ==
    ASSUME IInv, NEW d \in Pairings, StubLost(d), UNCHANGED platform
    PROVE  IInv'
  <1>1. /\ setup = None /\ whole' = whole \ {<<"stub", d>>}
        /\ UNCHANGED <<torn, setup, cleanup, cmd, target, todo, writing, phase, runOf, holder,
                       faults, scrapped>>
      BY DEF StubLost, command, runs
  <1>2. TypeOK'
      BY <1>1 DEF IInv, TypeOK
  <1>3. Platforms'
      BY <1>1 DEF IInv, Platforms, Present, Windows
  <1>4. Readable' /\ OneJournal'
      BY <1>1 DEF IInv, Readable, OneJournal
  <1>5. Accounted'
      BY <1>1 DEF IInv, Accounted, Present, Essential, Windows, setupId, cleanupId
  <1>6. SetupNames' /\ RemoveNames' /\ Commits' /\ Provisions'
      BY <1>1 DEF IInv, SetupNames, RemoveNames, Commits, Provisions
  <1>7. Deletes' /\ Waits'
      BY <1>1 DEF IInv, Deletes, Waits, Present, Windows
  <1> QED
      BY <1>2, <1>3, <1>4, <1>5, <1>6, <1>7 DEF IInv

-----------------------------------------------------------------------------
(* Plugin runs. *)

LEMMA SelectInv ==
    ASSUME IInv, NEW u \in Runs, NEW d \in Pairings, Select(u, d), UNCHANGED platform
    PROVE  IInv'
  <1>1. /\ phase' = [phase EXCEPT ![u] = "selected"] /\ runOf' = [runOf EXCEPT ![u] = d]
        /\ UNCHANGED <<files, whole, setup, cleanup, cmd, target, todo, writing, holder,
                       faults, scrapped>>
      BY DEF Select, command, files
  <1>2. TypeOK'
      BY <1>1 DEF IInv, TypeOK, files
  <1>3. Waits'
      BY <1>1 DEF IInv, TypeOK, Waits, Windows
  <1>4. SetupNames' /\ RemoveNames' /\ Commits' /\ Provisions' /\ Deletes'
      BY <1>1
         DEF IInv, SetupNames, RemoveNames, Commits, Provisions, Deletes, Present, files,
             Essential, Windows
  <1> QED
      BY <1>1, <1>2, <1>3, <1>4, SameFiles DEF IInv

\* Files that only gain lock files: the pairings stay as they are.
LEMMA LockAdded ==
    ASSUME IInv, NEW d \in Pairings, whole' = whole \cup {<<"lock", d>>},
           UNCHANGED <<platform, torn, setup, cleanup, cmd, target, todo, writing>>,
           RemoveNames'
    PROVE  /\ whole' \cup torn' \subseteq Kinds \X Pairings /\ whole' \cap torn' = {}
           /\ Platforms' /\ Readable' /\ OneJournal' /\ Accounted'
           /\ SetupNames' /\ Provisions' /\ Commits' /\ Deletes'
  <1>1. <<"lock", d>> \in Kinds \X Pairings /\ <<"lock", d>> \notin torn
      BY DEF Kinds, IInv, Platforms
  <1>2. whole' \cup torn' \subseteq Kinds \X Pairings /\ whole' \cap torn' = {}
      BY <1>1 DEF IInv, TypeOK
  <1>3. Platforms'
      BY DEF IInv, Platforms, Present, Windows
  <1>4. Readable' /\ OneJournal'
      BY DEF IInv, Readable, OneJournal
  <1>5. Accounted'
      BY DEF IInv, Accounted, Present, Essential, Windows, setupId, cleanupId
  <1>6. SetupNames' /\ Provisions'
      BY DEF IInv, SetupNames, Provisions, Windows
  <1>7. Commits'
      BY DEF IInv, Commits, Essential, Windows
  <1>8. Deletes'
      BY DEF IInv, Deletes, Present, Windows
  <1> QED
      BY <1>2, <1>3, <1>4, <1>5, <1>6, <1>7, <1>8

LEMMA GuardInv ==
    ASSUME IInv, NEW u \in Runs, Guard(u), UNCHANGED platform
    PROVE  IInv'
  <1> USE LifecycleAssumption
  <1> DEFINE d == runOf[u]
  <1>1. /\ d \in Pairings /\ holder[d] = None /\ whole' = whole \cup {<<"lock", d>>}
        /\ UNCHANGED <<torn, setup, cleanup, cmd, target, todo, writing, faults, scrapped>>
      BY DEF Guard, IInv, Waits, command
  <1>2. \/ /\ <<"replay", d>> \in whole
           /\ phase' = [phase EXCEPT ![u] = "waiting"] /\ runOf' = runOf
           /\ holder' = [holder EXCEPT ![d] = u]
        \/ /\ phase' = [phase EXCEPT ![u] = "idle"] /\ runOf' = [runOf EXCEPT ![u] = None]
           /\ holder' = holder
      BY DEF Guard, ReplayOpens
  <1> HIDE DEF d
  <1>3. /\ holder' \in [Pairings -> Runs \cup {"cleanup", None}]
        /\ phase' \in [Runs -> {"idle", "selected", "waiting"}]
        /\ runOf' \in [Runs -> Pairings \cup {None}]
      BY <1>1, <1>2 DEF IInv, TypeOK
  <1>4. RemoveNames'
      BY <1>1, <1>2 DEF IInv, TypeOK, RemoveNames
  <1>5. Waits'
      BY <1>1, <1>2 DEF IInv, TypeOK, Waits, Windows, d
  <1>6. /\ whole' \cup torn' \subseteq Kinds \X Pairings /\ whole' \cap torn' = {}
        /\ Platforms' /\ Readable' /\ OneJournal' /\ Accounted'
        /\ SetupNames' /\ Provisions' /\ Commits' /\ Deletes'
      BY <1>1, <1>4, LockAdded
  <1>7. TypeOK'
      BY <1>1, <1>3, <1>6 DEF IInv, TypeOK
  <1> QED
      BY <1>4, <1>5, <1>6, <1>7 DEF IInv

\* A run that dies within its commit leaves the marker of a replay state that is
\* still there, so that whoever deletes the one has the other still to delete.
LEMMA RunEndsInv ==
    ASSUME IInv, NEW u \in Runs, RunEnds(u), UNCHANGED platform
    PROVE  IInv'
  <1> USE LifecycleAssumption
  <1> DEFINE d == runOf[u]
  <1>1. /\ phase[u] # "idle" /\ d \in Pairings
        /\ phase' = [phase EXCEPT ![u] = "idle"] /\ runOf' = [runOf EXCEPT ![u] = None]
        /\ holder' = [e \in Pairings |-> IF holder[e] = u THEN None ELSE holder[e]]
        /\ UNCHANGED <<torn, setup, cleanup, cmd, target, todo, writing, faults, scrapped>>
      BY DEF RunEnds, IInv, Waits, command
  <1>2. \/ whole' = whole
        \/ /\ ~Windows /\ <<"replay", d>> \in whole
           /\ whole' = whole \cup {<<"pending", d>>}
      BY DEF RunEnds, IInv, Waits
  <1> HIDE DEF d
  <1>4. TypeOK'
      <2>1. <<"pending", d>> \in Kinds \X Pairings /\ <<"pending", d>> \notin torn
          BY <1>1 DEF Kinds, IInv, Platforms
      <2>2. whole' \cup torn' \subseteq Kinds \X Pairings /\ whole' \cap torn' = {}
          <3>1. whole \cup torn \subseteq Kinds \X Pairings /\ whole \cap torn = {}
              BY DEF IInv, TypeOK
          <3>2. CASE whole' = whole
              BY <1>1, <3>1, <3>2
          <3>3. CASE whole' = whole \cup {<<"pending", d>>}
              BY <1>1, <2>1, <3>1, <3>3
          <3> QED
              BY <1>2, <3>2, <3>3
      <2>3. /\ holder' \in [Pairings -> Runs \cup {"cleanup", None}]
            /\ phase' \in [Runs -> {"idle", "selected", "waiting"}]
            /\ runOf' \in [Runs -> Pairings \cup {None}]
          BY <1>1 DEF IInv, TypeOK
      <2> QED
          BY <1>1, <2>2, <2>3 DEF IInv, TypeOK
  <1>5. Platforms'
      BY <1>1, <1>2 DEF IInv, Platforms, Present, Windows
  <1>6. Readable' /\ OneJournal'
      BY <1>1, <1>2 DEF IInv, Readable, OneJournal
  <1>7. Accounted'
      <2>1. whole \subseteq whole' /\ UNCHANGED <<setupId, cleanupId, Essential>>
          BY <1>1, <1>2 DEF setupId, cleanupId, Essential, Windows
      <2>2. \A e \in Pairings, x \in Kinds :
                Present(x, e)' => Present(x, e) \/ (e = d /\ Present("replay", d))
          BY <1>1, <1>2 DEF Present
      <2> QED
          BY <2>1, <2>2 DEF IInv, Accounted, Kinds
  <1>8. RemoveNames'
      BY <1>1 DEF IInv, TypeOK, RemoveNames
  <1>9. SetupNames' /\ Provisions' /\ Commits'
      BY <1>1, <1>2 DEF IInv, SetupNames, Provisions, Commits, Essential, Windows
  <1>10. Deletes'
      <2> SUFFICES ASSUME cmd \in {"undo", "remove"}
                   PROVE  \A x \in Kinds \ {"lock", "stub"} :
                              Present(x, target)' => x \in Range(todo)
          BY <1>1 DEF IInv, Deletes, Windows
      <2>1. ~Windows /\ Present("replay", target) => "pending" \in Range(todo)
          BY BeforeIn DEF IInv, Deletes, Kinds
      <2>2. \A x \in Kinds \ {"lock", "stub"} : Present(x, target) => x \in Range(todo)
          BY DEF IInv, Deletes
      <2>3. \A x : Present(x, target)' =>
                Present(x, target)
                \/ (x = "pending" /\ ~Windows /\ Present("replay", target))
          BY <1>1, <1>2 DEF Present
      <2> QED
          BY <2>1, <2>2, <2>3
  <1>11. Waits'
      BY <1>1, <1>2 DEF IInv, TypeOK, Waits, Windows
  <1> QED
      BY <1>4, <1>5, <1>6, <1>7, <1>8, <1>9, <1>10, <1>11 DEF IInv

-----------------------------------------------------------------------------
LEMMA NextInv == IInv /\ [Next]_vars => IInv'
  <1> SUFFICES ASSUME IInv, [Next]_vars PROVE IInv'
      OBVIOUS
  <1>1. CASE UNCHANGED vars
      <2>1. UNCHANGED <<platform, files, setup, cleanup, cmd, target, todo, writing, phase,
                        runOf, holder, faults, scrapped, whole, torn>>
          BY <1>1 DEF vars, files, command, runs
      <2>2. TypeOK'
          BY <2>1 DEF IInv, TypeOK
      <2>3. SetupNames' /\ RemoveNames' /\ Provisions'
          BY <2>1 DEF IInv, SetupNames, RemoveNames, Provisions, Windows
      <2>4. Commits' /\ Deletes' /\ Waits'
          BY <2>1 DEF IInv, Commits, Deletes, Waits, Present, Essential, Windows
      <2> QED
          BY <2>1, <2>2, <2>3, <2>4, SameFiles DEF IInv
  <1>2. CASE Next
      <2> USE <1>2
      <2>1. UNCHANGED platform
          BY DEF Next
      <2>2. ASSUME NEW d \in Pairings, SetupBegin(d) \/ StubLost(d)
            PROVE  IInv'
          BY <2>1, <2>2, SetupBeginInv, StubLostInv
      <2>3. ASSUME NEW d \in Pairings, NEW kind \in {"paired", "orphan"}, RemoveBegin(d, kind)
            PROVE  IInv'
          BY <2>1, <2>3, RemoveBeginInv
      <2>4. CASE SetupStep
          BY <2>1, <2>4, JournalWrittenInv, AdvanceInv, SetupFailsInv, ProvisioningInv
             DEF SetupStep
      <2>5. CASE CommitRefused \/ DeleteRefused \/ Fault
          <3>1. /\ Ends /\ UNCHANGED <<files, setup, cleanup, phase, runOf, scrapped>>
                /\ faults' \in 0 .. MaxFaults
              BY <2>5, LifecycleAssumption DEF CommitRefused, DeleteRefused, Fault, IInv, TypeOK
          <3> QED
              BY <2>1, <3>1, EndsInv
      <2>6. CASE CommitStep
          BY <2>1, <2>5, <2>6, CommitAcceptsInv, CommitMakesInv, JournalGoesInv DEF CommitStep
      <2>7. CASE DeleteStep
          BY <2>1, <2>5, <2>7, RemoveWritesInv, RelockInv, DeleteInv, JournalGoesInv
             DEF DeleteStep
      <2>8. CASE Resume \/ CleanupSetup \/ RemoveAgain
          BY <2>1, <2>8, ResumeInv, CleanupSetupInv, RemoveAgainInv
      <2>9. ASSUME NEW u \in Runs, NEW d \in Pairings, Select(u, d)
            PROVE  IInv'
          BY <2>1, <2>9, SelectInv
      <2>10. ASSUME NEW u \in Runs, Guard(u) \/ RunEnds(u)
             PROVE  IInv'
          BY <2>1, <2>10, GuardInv, RunEndsInv
      <2> QED
          BY <2>2, <2>3, <2>4, <2>5, <2>6, <2>7, <2>8, <2>9, <2>10
             DEF Next, CommandNext, RunNext
  <1> QED
      BY <1>1, <1>2

-----------------------------------------------------------------------------
\* Every variable keeps its type.
THEOREM TypeCorrect == Spec => []TypeOK
  <1>1. IInv => TypeOK
      BY DEF IInv
  <1> QED
      BY InitInv, NextInv, <1>1, PTL DEF Spec

\* Setup and cleanup journals never exist together (ensure_no_cleanup_pending,
\* remove_desktop_state).
THEOREM NeverTwoJournals == Spec => []OneJournal
  <1>1. IInv => OneJournal
      BY DEF IInv
  <1> QED
      BY InitInv, NextInv, <1>1, PTL DEF Spec

\* Whatever step a command dies at, on either platform and after any number of
\* faults, the private files it leaves are a finished pairing or are named by a
\* journal (commit_confirmed_for, cleanup_owned, execute_cleanup).
THEOREM NothingStranded == Spec => []Accounted
  <1>1. IInv => Accounted
      BY DEF IInv
  <1> QED
      BY InitInv, NextInv, <1>1, PTL DEF Spec

\* A pairing that open_pairing_locator lets an unwrap select is complete.
THEOREM SelectedIsComplete == Spec => []AvailableIsComplete
  <1> QED
      BY InitInv, NextInv, AvailableComplete, PTL DEF Spec

-----------------------------------------------------------------------------
(* The names that files may have on macOS, of any parts: "A" stands for those  *)
(* that are not in lower case.                                                *)

\* The parts that matter.
Marks == {"", "cbor", "lock", "pending", "setup", "cleanup", "hex", "a", "A", "b",
          "state", "txt", "replace"}
AnyName(W) == Seq(W) \ {<<>>}
Files == {"state", "replay", "stub"}
AnyPaths(W) == [Files -> [dir : {"root", "elsewhere"}, name : AnyName(W)]]

\* Three things are three.
LEMMA Three == \A a, b, c : a # b /\ a # c /\ b # c => Cardinality({a, b, c}) = 3
  <1> SUFFICES ASSUME NEW a, NEW b, NEW c, a # b, a # c, b # c
               PROVE  Cardinality({a, b, c}) = 3
      OBVIOUS
  <1>1. IsFiniteSet({c}) /\ Cardinality({c}) = 1
      BY FS_Singleton
  <1>2. IsFiniteSet({c} \cup {b}) /\ Cardinality({c} \cup {b}) = 2
      BY <1>1, FS_AddElement
  <1>3. Cardinality(({c} \cup {b}) \cup {a}) = 3
      BY <1>2, FS_AddElement
  <1>4. ({c} \cup {b}) \cup {a} = {a, b, c}
      OBVIOUS
  <1> QED
      BY <1>3, <1>4

\* A name that may be given does not end in a part that is kept back.
LEMMA KeptBack ==
    ASSUME NEW W, Marks \subseteq W, NEW n \in AnyName(W), NameAllowed(n), Len(n) # 1,
           ~(Len(n) = 2 /\ n[1] = "")
    PROVE  n[Len(n)] \notin {"cbor", "lock", "pending"}
  <1>1. Extension(n) = n[Len(n)]
      BY DEF Extension
  <1> QED
      BY <1>1 DEF NameAllowed

\* Neither the reserved names nor the locator's may be given.
LEMMA NotReserved ==
    ASSUME NEW W, Marks \subseteq W, NEW n \in AnyName(W), NameAllowed(n)
    PROVE  n \notin Reserved \cup {LocatorName}
  <1>1. \A v \in {"setup", "cleanup", "hex"}, e \in {"cbor", "lock"} : n # <<v, e>>
    <2> SUFFICES ASSUME NEW v \in {"setup", "cleanup", "hex"}, NEW e \in {"cbor", "lock"},
                        n = <<v, e>>
                 PROVE  FALSE
        OBVIOUS
    <2>1. Len(n) = 2 /\ n[1] = v /\ n[2] = e
        OBVIOUS
    <2>2. Len(n) # 1 /\ ~(Len(n) = 2 /\ n[1] = "")
        BY <2>1
    <2>3. n[Len(n)] \notin {"cbor", "lock", "pending"}
        BY <2>2, KeptBack
    <2> QED
        BY <2>1, <2>3
  <1> QED
      BY <1>1 DEF Reserved, SetupJournalName, CleanupJournalName, CleanupLockName, LocatorName

LEMMA NotEmpty ==
    ASSUME NEW W, NEW m \in AnyName(W) PROVE m \in Seq(W) /\ Len(m) # 0
  BY DEF AnyName

LEMMA Appended ==
    ASSUME NEW W, NEW m \in Seq(W), Len(m) # 0, NEW e \in W
    PROVE  /\ Append(m, e)[Len(Append(m, e))] = e /\ Append(m, e)[1] = m[1]
           /\ Len(Append(m, e)) # 1
           /\ Len(Append(m, e)) = 2 => Len(m) = 1
  <1>1. PICK n : n = Append(m, e)
      OBVIOUS
  <1>2. n[Len(n)] = e
      BY <1>1
  <1>3. n[1] = m[1]
      BY <1>1
  <1>4. Len(n) # 1
      BY <1>1
  <1>5. Len(n) = Len(m) + 1
      BY <1>1
  <1>6. Len(n) = 2 => Len(m) = 1
    <2> DEFINE k == Len(m)
               l == Len(n)
    <2>1. k \in Nat /\ l = k + 1
        BY <1>5
    <2> HIDE DEF k, l
    <2>2. l = 2 => k = 1
        BY <2>1
    <2> QED
        BY <2>2 DEF k, l
  <1> QED
      BY <1>1, <1>2, <1>3, <1>4, <1>6

LEMMA Pair == \A W : \A v, w \in W : <<v, w>> \in AnyName(W)
  BY DEF AnyName

LEMMA Unfolded ==
    ASSUME NEW W, NEW n \in Seq(W), "A" \notin W PROVE Fold(n) = n
  BY DEF Fold

LEMMA OnePart ==
    ASSUME NEW W, NEW m \in Seq(W), Len(m) = 1 PROVE m = <<m[1]>>
  OBVIOUS

\* Nor is it the name of the replay state's lock or pending marker.
LEMMA NotSidecar ==
    ASSUME NEW W, Marks \subseteq W, NEW n \in AnyName(W), NameAllowed(n), NEW m \in AnyName(W), m # <<"">>
    PROVE  n \notin Sidecars(m)
  <1>1. m \in Seq(W) /\ Len(m) # 0
      BY NotEmpty
  <1>2. ASSUME NEW e \in W, e \in {"lock", "pending"} PROVE n # Append(m, e)
    <2> SUFFICES ASSUME n = Append(m, e) PROVE FALSE
        OBVIOUS
    <2>1. n[Len(n)] = e
        BY <1>1, Appended
    <2>2. n[1] = m[1]
        BY <1>1, Appended
    <2>3. Len(n) # 1
        BY <1>1, Appended
    <2>4. Len(n) = 2 => Len(m) = 1
        BY <1>1, Appended
    <2>5. ~(Len(n) = 2 /\ n[1] = "")
        BY <1>1, <2>2, <2>4, OnePart
    <2> QED
        BY <1>2, <2>1, <2>3, <2>5, KeptBack
  <1> QED
      BY <1>2 DEF Sidecars, Marks

\* Three different names that may be given, of files in their directories, are apart
\* from one another and from all other files (validate_explicit_root,
\* validate_macos_root).
LEMMA AllowedApart ==
    ASSUME NEW W, Marks \subseteq W, NEW p \in AnyPaths(W), p.state.dir = "root", p.replay.dir = "root",
           \A k \in Files : Fold(p[k].name) = p[k].name /\ ~IsTemporary(p[k].name),
           \A k \in Files :
               p[k].name \notin Reserved \cup {LocatorName} \cup Sidecars(p.replay.name),
           \A k, l \in Files : k # l => p[k].name # p[l].name,
           LocatorName \notin Sidecars(p.replay.name)
    PROVE  Apart(p)
  <1> DEFINE locator == InRoot(LocatorName)
             private == {locator, p.state, p.replay}
             sidecars == {InRoot(n) : n \in Sidecars(p.replay.name)}
             reserved == {InRoot(n) : n \in Reserved}
  <1>1. /\ DOMAIN p = Files /\ "state" \in Files /\ "replay" \in Files /\ "stub" \in Files
        /\ p.state = p["state"] /\ p.replay = p["replay"] /\ p.stub = p["stub"]
      BY DEF AnyPaths, Files
  <1>2. locator.name = LocatorName /\ locator.dir = "root"
      BY DEF InRoot
  <1>3. \A n : InRoot(n).name = n
      BY DEF InRoot
  <1>4. \A k \in Files : p[k] \notin reserved \cup sidecars \cup {locator}
      BY <1>2, <1>3
  <1>5. locator \notin reserved \cup sidecars
    <2>1. LocatorName \notin Reserved
        BY DEF LocatorName, Reserved, SetupJournalName, CleanupJournalName, CleanupLockName
    <2> QED
        BY <1>2, <1>3, <2>1
  <1>6. p.state # p.replay /\ p.state # p.stub /\ p.replay # p.stub
      BY <1>1
  <1>7. Cardinality(private) = 3
    <2> DEFINE s == p.state
               r == p.replay
    <2>1. locator # s /\ locator # r /\ s # r
        BY <1>1, <1>4, <1>6
    <2> HIDE DEF locator, s, r
    <2>2. Cardinality({locator, s, r}) = 3
        BY <2>1, Three
    <2> QED
        BY <2>2 DEF s, r
  <1>8. ValidCleanupRoot(p)
      BY <1>1, <1>2, <1>4, <1>5, <1>6, <1>7 DEF ValidCleanupRoot
  <1>9. Cardinality({Fold(p[k].name) : k \in DOMAIN p}) = 3
    <2>1. {Fold(p[k].name) : k \in DOMAIN p} = {p.state.name, p.replay.name, p.stub.name}
        BY <1>1 DEF Files
    <2>2. p.state.name # p.replay.name /\ p.state.name # p.stub.name /\ p.replay.name # p.stub.name
        BY <1>1
    <2> QED
      <3> DEFINE s == p.state.name
                   r == p.replay.name
                   t == p.stub.name
        <3>1. s # r /\ s # t /\ r # t
            BY <2>2
        <3> HIDE DEF s, r, t
        <3>2. Cardinality({s, r, t}) = 3
            BY <3>1, Three
        <3> QED
            BY <2>1, <3>2 DEF s, r, t
  <1> QED
      BY <1>1, <1>8, <1>9 DEF Apart

\* The names that setup gives are apart, too.
LEMMA ManagedApart == Apart(ManagedPaths)
  <1> DEFINE p == ManagedPaths
             names == {<<"a", "state">>, <<"b", "state">>, <<"a", "txt">>}
  <1>1. names \subseteq AnyName(Marks)
      BY Pair DEF Marks
  <1>2. p \in AnyPaths(Marks) /\ p.state.dir = "root" /\ p.replay.dir = "root"
      BY <1>1 DEF AnyPaths, Files, ManagedPaths, InRoot
  <1>3. /\ p["state"].name = <<"a", "state">> /\ p["replay"].name = <<"b", "state">>
        /\ p["stub"].name = <<"a", "txt">> /\ p.replay.name = <<"b", "state">>
      BY DEF ManagedPaths, InRoot
  <1>4. \A n \in names : Fold(n) = n /\ ~IsTemporary(n)
    <2>1. \A n \in names : n \in Seq({"a", "b", "state", "txt"})
      <3>1. \A W : \A v, w \in W : <<v, w>> \in Seq(W)
          OBVIOUS
      <3> QED
          BY <3>1
    <2>2. \A n \in names : Fold(n) = n
        BY <2>1, Unfolded
    <2>3. \A n \in names : ~IsTemporary(n)
      <3>1. \A v, w : <<v, w>>[1] = v
          OBVIOUS
      <3> QED
          BY <3>1 DEF IsTemporary
    <2> QED
        BY <2>2, <2>3
  <1>5. Sidecars(<<"b", "state">>) = {<<"b", "state", "lock">>, <<"b", "state", "pending">>}
      BY DEF Sidecars
  <1>6. \A n \in names : n \notin Reserved \cup {LocatorName} \cup Sidecars(p.replay.name)
      BY <1>3, <1>5 DEF Reserved, SetupJournalName, CleanupJournalName, CleanupLockName,
         LocatorName
  <1>7. LocatorName \notin Sidecars(p.replay.name)
      BY <1>3, <1>5 DEF LocatorName
  <1>8. \A k \in Files : p[k].name \in names
      BY <1>3 DEF Files
  <1>9. \A k, l \in Files : k # l => p[k].name # p[l].name
      BY <1>3 DEF Files
  <1> HIDE DEF p
  <1>10. Apart(p)
      BY <1>2, <1>4, <1>6, <1>7, <1>8, <1>9, AllowedApart
  <1> QED
      BY <1>10 DEF p

\* On macOS, whatever names of whatever parts and whatever directories the user gives
\* the explicit pair command: if they are accepted, no two files of the pairing or of
\* the desktop have one name, and a removal accepts them too (validate_explicit_root,
\* validate_macos_root).
THEOREM AcceptedApart ==
    ASSUME NEW W, Marks \subseteq W, NEW p \in AnyPaths(W), ValidExplicitRoot(p)
    PROVE  Apart(p)
  <1>1. /\ DOMAIN p = Files /\ "replay" \in Files
        /\ \A k \in Files : p[k].name \in AnyName(W) /\ NameAllowed(p[k].name)
      BY DEF AnyPaths, Files, ValidExplicitRoot
  <1>2. \A k \in Files :
            p[k].name \notin Reserved \cup {LocatorName} \cup Sidecars(p.replay.name)
      BY <1>1, NotReserved, NotSidecar DEF NameAllowed
  <1>3. LocatorName \notin Sidecars(p.replay.name)
    <2>1. p.replay.name \in Seq(W)
        BY <1>1 DEF AnyName
    <2>2. \A e \in {"lock", "pending"} :
              LET n == Append(p.replay.name, e) IN n[Len(n)] = e
      <3>1. "lock" \in W /\ "pending" \in W
          BY DEF Marks
      <3> QED
          BY <2>1, <3>1
    <2>3. LocatorName[Len(LocatorName)] = "cbor"
        BY DEF LocatorName
    <2> QED
        BY <2>2, <2>3 DEF Sidecars
  <1> QED
      BY <1>1, <1>2, <1>3, AllowedApart DEF ValidExplicitRoot, NameAllowed

LEMMA AllClaimsApart == ClaimsApart
  <1>1. Names \subseteq AnyName(Marks)
    <2>1. {<<w>> : w \in {"", "a", "A", "b"}} \subseteq AnyName(Marks)
      <3>1. \A W : \A w \in W : <<w>> \in AnyName(W)
          BY DEF AnyName
      <3> QED
          BY <3>1 DEF Marks
    <2>2. <<"a", "state">> \in AnyName(Marks)
        BY Pair DEF Marks
    <2>3. <<"a", "state", "lock">> \in AnyName(Marks)
        BY DEF AnyName, Marks
    <2>4. {"", "a", "A"} \X {"lock", "pending", "cbor", "replace"} \subseteq AnyName(Marks)
      <3>1. ASSUME NEW V, NEW W, V \subseteq Marks, W \subseteq Marks
            PROVE  V \X W \subseteq AnyName(Marks)
          BY <3>1, Pair
      <3> QED
          BY <3>1 DEF Marks
    <2> QED
        BY <2>1, <2>2, <2>3, <2>4 DEF Names
  <1>2. [{"state", "replay", "stub"} -> Paths] \subseteq AnyPaths(Marks)
      BY <1>1 DEF Paths, AnyPaths, Files
  <1> QED
      BY <1>2, AcceptedApart, ManagedApart DEF ClaimsApart, Claims

\* So are the claims that an attempt may make (SetupJournal::new, validate_explicit_root).
THEOREM ClaimsStayApart == Spec => []ClaimedNamesApart
  <1>1. ClaimedNamesApart
      BY AllClaimsApart DEF ClaimedNamesApart
  <1> QED
      BY <1>1, PTL
=============================================================================
