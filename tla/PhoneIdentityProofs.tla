------------------------- MODULE PhoneIdentityProofs -------------------------
(***************************************************************************)
(* Proofs about PhoneIdentity, for any desktops, identities and requests   *)
(* and any number of pairings and faults.                                  *)
(*                                                                         *)
(* The invariants of PhoneIdentity are not inductive: whether the metadata *)
(* may go depends on how far the running operation has come.  IInv adds    *)
(* what each next step may rely on (Control) and, for AskedOnce, where a   *)
(* request that has been asked about is remembered (Remembered).           *)
(***************************************************************************)
EXTENDS PhoneIdentity, TLAPS

Nowhere == \A s \in Scopes : record[s] = None /\ pending[s] = None

\* A key of the current identity is gone, or its deletion was passed over.
Settled(role) == <<role, identity>> \in keys => <<role, identity>> \in leaked

Control ==
    /\ step = "prepare" => phase = "none"
    /\ step \in MakeStages => phase = "preparing"
    /\ step \in DropStages => phase # "none" /\ Nowhere
    /\ step \in {"dropSigning", "dropState"} => Settled("identity")
    /\ step = "dropState" => Settled("signing")
    /\ step = "mark" => phase = "committed"
    /\ step = "records" => phase = "deleting"
    /\ step \in {"rename", "unlink"} => op = "revoke" \/ phase = "deleting"
    /\ step \in {"rename", "unlink", "confirm"} =>
           target \in Scopes /\ target[2] = identity /\ phase \in {"committed",
              "deleting"}
    /\ step = "confirm" => transcripts # 0

Remembered ==
    /\ \A s \in Scopes, q \in Requests : s[1] \notin Kept /\ asked[s][q] # 0 =>
           /\ asked[s][q] = 1
           /\ s \in scrapped \/ (record[s] # None /\ q \in entries[s])
    /\ \A s \in scrapped : s[1] \notin Kept => record[s] = None
    /\ step = "confirm" /\ target[1] \notin Kept => target \notin scrapped

\* What LivePairingStays says of one step.
Stays ==
    \A s \in Scopes : record[s] # None /\ record'[s] # None =>
        record'[s] = record[s] /\ entries[s] \subseteq entries'[s]

IInv ==
    /\ TypeOK
    /\ Control
    /\ KeysNamed
    /\ RecordsOwned
    /\ Remembered

\* revokeState and revoke: a rename keeps the types of the pairing files.
LEMMA RenameTyped ==
  ASSUME TypeOK, NEW s \in Scopes, Rename(s)
  PROVE  /\ record' \in [Scopes -> Transcripts \cup {None}]
         /\ pending' \in [Scopes -> Transcripts \cup {None}]
         /\ entries' \in [Scopes -> SUBSET Requests]
         /\ scrapped' \subseteq Scopes
BY DEF TypeOK, Rename

\* No step of an operation, and no fault, breaks a type.
LEMMA TypeStep == TypeOK /\ Control /\ [Next]_vars => TypeOK'
<1> SUFFICES ASSUME TypeOK, Control, [Next]_vars PROVE TypeOK'
  OBVIOUS
<1> USE IdentityAssumption DEF IdentityAssumption, metadata, pairings, operation,
   history, Then, Done, Begin, Fault
<1>1. CASE BeginProvision
  BY <1>1 DEF BeginProvision, TypeOK, Ops, Stages, DropStages
<1>2. CASE BeginDeletion
  BY <1>2 DEF BeginDeletion, TypeOK, Ops, Stages
<1>3. CASE BeginPairing
  BY <1>3 DEF BeginPairing, TypeOK, Ops, Stages
<1>4. ASSUME NEW s \in Scopes, BeginRevocation(s) PROVE TypeOK'
  BY <1>4 DEF BeginRevocation, TypeOK, Ops, Stages
<1>5. ASSUME NEW s \in Scopes, NEW q \in Requests, Consume(s, q) PROVE TypeOK'
  BY <1>5 DEF Consume, TypeOK
<1>6. CASE Prepare
  BY <1>6 DEF Prepare, TypeOK, Stages, MakeStages
<1>7. CASE Commit
  BY <1>7 DEF Commit, TypeOK, Control, Ops, Stages
<1>8. CASE Mark
  BY <1>8 DEF Mark, TypeOK, Control, Stages
<1>9. CASE DropState
  BY <1>9 DEF DropState, TypeOK, Ops, Stages
<1>10. ASSUME NEW role \in Roles, MakeKey(role) PROVE TypeOK'
  BY <1>10 DEF MakeKey, TypeOK, Control, Stages, MakeStages
<1>11. ASSUME NEW role \in Roles, DropKey(role) PROVE TypeOK'
  BY <1>11 DEF DropKey, TypeOK, Stages, DropStages
<1>12. CASE RevokeRename
  <2>1. target \in Scopes
    BY <1>12 DEF RevokeRename, Control
  <2>2. CASE Rename(target) /\ Then("unlink")
    BY <1>12, <2>1, <2>2, RenameTyped DEF RevokeRename, TypeOK, Stages
  <2> QED
    BY <1>12, <2>2 DEF RevokeRename, TypeOK, Ops, Stages
<1>13. CASE Unlink
  BY <1>13 DEF Unlink, TypeOK, Ops, Stages
<1>14. CASE RevokedAll
  BY <1>14 DEF RevokedAll, TypeOK, Ops, Stages, DropStages
<1>15. ASSUME NEW s \in Scopes, RevokeNext(s) PROVE TypeOK'
  <2>1. CASE s \in Mine(record) /\ Rename(s)
    BY <1>15, <2>1, RenameTyped DEF RevokeNext, TypeOK, Ops, Stages
  <2> QED
    BY <1>15, <2>1 DEF RevokeNext, TypeOK, Stages
<1>16. CASE OfferFails
  BY <1>16 DEF OfferFails, TypeOK, Ops, Stages
<1>17. CASE ConfirmPairing
  BY <1>17 DEF ConfirmPairing, TypeOK, Control, Ops, Stages, Transcripts
<1>18. CASE DropPairing
  BY <1>18 DEF DropPairing, TypeOK, Ops, Stages
<1>19. ASSUME NEW d \in Desktops, Offer(d) PROVE TypeOK'
  BY <1>19 DEF Offer, Opens, Scopes, TypeOK, Stages
<1>20. CASE ProvisionFails
  BY <1>20 DEF ProvisionFails, TypeOK, Control, Ops, Stages, DropStages
<1>21. CASE SkipKey
  BY <1>21 DEF SkipKey, TypeOK, Control, Stages, DropStages, Roles
<1>22. CASE SkipState
  BY <1>22 DEF SkipState, TypeOK, Ops, Stages
<1>23. CASE Interrupted
  BY <1>23 DEF Interrupted, TypeOK, Ops, Stages
<1>24. CASE LoseKey
  BY <1>24 DEF LoseKey, TypeOK
<1>25. CASE UNCHANGED vars
  BY <1>25 DEF vars, TypeOK
<1> QED
  BY <1>1, <1>2, <1>3, <1>4, <1>5, <1>6, <1>7, <1>8, <1>9, <1>10, <1>11,
     <1>12, <1>13, <1>14, <1>15, <1>16, <1>17, <1>18, <1>19, <1>20,
     <1>21, <1>22, <1>23, <1>24, <1>25
  DEF Next, Steps, IdentitySteps, RevocationSteps, PairingSteps, Faults

\* A key is created under the id in the metadata, and the metadata goes only when
\* both keys are gone or passed over (deleteIdentity, the undo of provision).
LEMMA KeysStep == TypeOK /\ Control /\ KeysNamed /\ [Next]_vars => KeysNamed'
<1> SUFFICES ASSUME TypeOK, Control, KeysNamed, [Next]_vars PROVE KeysNamed'
  OBVIOUS
<1> USE IdentityAssumption DEF IdentityAssumption, metadata, pairings, operation,
   history, Then, Done, Begin, Fault
<1>1. CASE BeginProvision
  BY <1>1 DEF BeginProvision, KeysNamed
<1>2. CASE BeginDeletion
  BY <1>2 DEF BeginDeletion, KeysNamed
<1>3. CASE BeginPairing
  BY <1>3 DEF BeginPairing, KeysNamed
<1>4. ASSUME NEW s \in Scopes, BeginRevocation(s) PROVE KeysNamed'
  BY <1>4 DEF BeginRevocation, KeysNamed
<1>5. ASSUME NEW s \in Scopes, NEW q \in Requests, Consume(s, q) PROVE KeysNamed'
  BY <1>5 DEF Consume, KeysNamed
<1>6. CASE Prepare
  BY <1>6 DEF Prepare, KeysNamed, TypeOK, Control
<1>7. CASE Commit
  BY <1>7 DEF Commit, KeysNamed
<1>8. CASE Mark
  BY <1>8 DEF Mark, KeysNamed
<1>9. CASE DropState
  <2>1. ASSUME NEW k \in keys \ leaked PROVE FALSE
    <3>1. k \in Roles \X Ids /\ k = <<k[1], identity>>
      BY <2>1 DEF TypeOK, KeysNamed
    <3>2. Settled("identity") /\ Settled("signing")
      BY <1>9 DEF DropState, Control
    <3> QED
      BY <2>1, <3>1, <3>2 DEF Settled, Roles
  <2> QED
    BY <1>9, <2>1 DEF DropState, KeysNamed
<1>10. ASSUME NEW role \in Roles, MakeKey(role) PROVE KeysNamed'
  BY <1>10 DEF MakeKey, KeysNamed
<1>11. ASSUME NEW role \in Roles, DropKey(role) PROVE KeysNamed'
  BY <1>11 DEF DropKey, KeysNamed
<1>12. CASE RevokeRename
  BY <1>12 DEF RevokeRename, KeysNamed
<1>13. CASE Unlink
  BY <1>13 DEF Unlink, KeysNamed
<1>14. CASE RevokedAll
  BY <1>14 DEF RevokedAll, KeysNamed
<1>15. ASSUME NEW s \in Scopes, RevokeNext(s) PROVE KeysNamed'
  BY <1>15 DEF RevokeNext, KeysNamed
<1>16. CASE OfferFails
  BY <1>16 DEF OfferFails, KeysNamed
<1>17. CASE ConfirmPairing
  BY <1>17 DEF ConfirmPairing, KeysNamed
<1>18. CASE DropPairing
  BY <1>18 DEF DropPairing, KeysNamed
<1>19. ASSUME NEW d \in Desktops, Offer(d) PROVE KeysNamed'
  BY <1>19 DEF Offer, KeysNamed
<1>20. CASE ProvisionFails
  BY <1>20 DEF ProvisionFails, KeysNamed
<1>21. CASE SkipKey
  BY <1>21 DEF SkipKey, KeysNamed
<1>22. CASE SkipState
  BY <1>22 DEF SkipState, KeysNamed
<1>23. CASE Interrupted
  BY <1>23 DEF Interrupted, KeysNamed
<1>24. CASE LoseKey
  BY <1>24 DEF LoseKey, KeysNamed
<1>25. CASE UNCHANGED vars
  BY <1>25 DEF vars, KeysNamed
<1> QED
  BY <1>1, <1>2, <1>3, <1>4, <1>5, <1>6, <1>7, <1>8, <1>9, <1>10, <1>11,
     <1>12, <1>13, <1>14, <1>15, <1>16, <1>17, <1>18, <1>19, <1>20,
     <1>21, <1>22, <1>23, <1>24, <1>25
  DEF Next, Steps, IdentitySteps, RevocationSteps, PairingSteps, Faults

\* Records are created for the committed identity, and the id changes only when
\* no file is left (createAt, revokeAll).
LEMMA RecordsStep == TypeOK /\ Control /\ RecordsOwned /\ [Next]_vars => RecordsOwned'
<1> SUFFICES ASSUME TypeOK, Control, RecordsOwned, [Next]_vars PROVE RecordsOwned'
  OBVIOUS
<1> USE IdentityAssumption DEF IdentityAssumption, metadata, pairings, operation,
   history, Then, Done, Begin, Fault
<1>1. CASE BeginProvision
  BY <1>1 DEF BeginProvision, RecordsOwned
<1>2. CASE BeginDeletion
  BY <1>2 DEF BeginDeletion, RecordsOwned
<1>3. CASE BeginPairing
  BY <1>3 DEF BeginPairing, RecordsOwned
<1>4. ASSUME NEW s \in Scopes, BeginRevocation(s) PROVE RecordsOwned'
  BY <1>4 DEF BeginRevocation, RecordsOwned
<1>5. ASSUME NEW s \in Scopes, NEW q \in Requests, Consume(s, q) PROVE RecordsOwned'
  BY <1>5 DEF Consume, RecordsOwned
<1>6. CASE Prepare
  BY <1>6 DEF Prepare, RecordsOwned, Control
<1>7. CASE Commit
  BY <1>7 DEF Commit, RecordsOwned
<1>8. CASE Mark
  BY <1>8 DEF Mark, RecordsOwned
<1>9. CASE DropState
  BY <1>9 DEF DropState, RecordsOwned, Control, DropStages, Nowhere
<1>10. ASSUME NEW role \in Roles, MakeKey(role) PROVE RecordsOwned'
  BY <1>10 DEF MakeKey, RecordsOwned
<1>11. ASSUME NEW role \in Roles, DropKey(role) PROVE RecordsOwned'
  BY <1>11 DEF DropKey, RecordsOwned
<1>12. CASE RevokeRename
  BY <1>12 DEF RevokeRename, Rename, RecordsOwned, TypeOK
<1>13. CASE Unlink
  BY <1>13 DEF Unlink, RecordsOwned
<1>14. CASE RevokedAll
  BY <1>14 DEF RevokedAll, RecordsOwned
<1>15. ASSUME NEW s \in Scopes, RevokeNext(s) PROVE RecordsOwned'
  BY <1>15 DEF RevokeNext, Rename, RecordsOwned, TypeOK
<1>16. CASE OfferFails
  BY <1>16 DEF OfferFails, RecordsOwned
<1>17. CASE ConfirmPairing
  BY <1>17 DEF ConfirmPairing, RecordsOwned, Control
<1>18. CASE DropPairing
  BY <1>18 DEF DropPairing, RecordsOwned
<1>19. ASSUME NEW d \in Desktops, Offer(d) PROVE RecordsOwned'
  BY <1>19 DEF Offer, RecordsOwned
<1>20. CASE ProvisionFails
  BY <1>20 DEF ProvisionFails, RecordsOwned
<1>21. CASE SkipKey
  BY <1>21 DEF SkipKey, RecordsOwned
<1>22. CASE SkipState
  BY <1>22 DEF SkipState, RecordsOwned
<1>23. CASE Interrupted
  BY <1>23 DEF Interrupted, RecordsOwned
<1>24. CASE LoseKey
  BY <1>24 DEF LoseKey, RecordsOwned
<1>25. CASE UNCHANGED vars
  BY <1>25 DEF vars, RecordsOwned
<1> QED
  BY <1>1, <1>2, <1>3, <1>4, <1>5, <1>6, <1>7, <1>8, <1>9, <1>10, <1>11,
     <1>12, <1>13, <1>14, <1>15, <1>16, <1>17, <1>18, <1>19, <1>20,
     <1>21, <1>22, <1>23, <1>24, <1>25
  DEF Next, Steps, IdentitySteps, RevocationSteps, PairingSteps, Faults

\* Each durable step establishes what the next one of its operation relies on.
LEMMA ControlStep == TypeOK /\ Control /\ KeysNamed /\ RecordsOwned /\ [Next]_vars
   => Control'
<1> SUFFICES ASSUME TypeOK, Control, KeysNamed, RecordsOwned, [Next]_vars PROVE Control'
  OBVIOUS
<1> USE IdentityAssumption DEF IdentityAssumption, metadata, pairings, operation,
   history, Then, Done, Begin, Fault
<1>1. CASE BeginProvision
  BY <1>1 DEF BeginProvision, Control, Nowhere, RecordsOwned, DropStages, MakeStages
<1>2. CASE BeginDeletion
  BY <1>2 DEF BeginDeletion, Opens, Control, DropStages, MakeStages
<1>3. CASE BeginPairing
  BY <1>3 DEF BeginPairing, Control, DropStages, MakeStages
<1>4. ASSUME NEW s \in Scopes, BeginRevocation(s) PROVE Control'
  BY <1>4 DEF BeginRevocation, Control, RecordsOwned, DropStages, MakeStages
<1>5. ASSUME NEW s \in Scopes, NEW q \in Requests, Consume(s, q) PROVE Control'
  BY <1>5 DEF Consume, Control, Nowhere, DropStages
<1>6. CASE Prepare
  BY <1>6 DEF Prepare, Control, DropStages
<1>7. CASE Commit
  BY <1>7 DEF Commit, Control, DropStages, MakeStages
<1>8. CASE Mark
  BY <1>8 DEF Mark, Control, DropStages, MakeStages
<1>9. CASE DropState
  BY <1>9 DEF DropState, Control, DropStages, MakeStages
<1>10. ASSUME NEW role \in Roles, MakeKey(role) PROVE Control'
  BY <1>10 DEF MakeKey, Control, DropStages, MakeStages
<1>11. ASSUME NEW role \in Roles, DropKey(role) PROVE Control'
  BY <1>11 DEF DropKey, Control, Nowhere, Settled, DropStages, MakeStages, Roles
<1>12. CASE RevokeRename
  BY <1>12 DEF RevokeRename, Control, DropStages, MakeStages
<1>13. CASE Unlink
  BY <1>13 DEF Unlink, Control, DropStages, MakeStages
<1>14. CASE RevokedAll
  BY <1>14 DEF RevokedAll, Mine, Control, Nowhere, RecordsOwned, DropStages, MakeStages
<1>15. ASSUME NEW s \in Scopes, RevokeNext(s) PROVE Control'
  BY <1>15 DEF RevokeNext, Mine, Control, DropStages, MakeStages
<1>16. CASE OfferFails
  BY <1>16 DEF OfferFails, Control, DropStages, MakeStages
<1>17. CASE ConfirmPairing
  BY <1>17 DEF ConfirmPairing, Control, DropStages, MakeStages
<1>18. CASE DropPairing
  BY <1>18 DEF DropPairing, Control, DropStages, MakeStages
<1>19. ASSUME NEW d \in Desktops, Offer(d) PROVE Control'
  BY <1>19 DEF Offer, Opens, Scopes, Control, TypeOK, DropStages, MakeStages
<1>20. CASE ProvisionFails
  BY <1>20 DEF ProvisionFails, Control, Nowhere, RecordsOwned, MakeStages
<1>21. CASE SkipKey
  BY <1>21 DEF SkipKey, Control, Nowhere, Settled, DropStages, MakeStages, Roles
<1>22. CASE SkipState
  BY <1>22 DEF SkipState, Control, DropStages, MakeStages
<1>23. CASE Interrupted
  BY <1>23 DEF Interrupted, Control, DropStages, MakeStages
<1>24. CASE LoseKey
  BY <1>24 DEF LoseKey, Control, Nowhere, Settled
<1>25. CASE UNCHANGED vars
  BY <1>25 DEF vars, Control, Nowhere, Settled
<1> QED
  BY <1>1, <1>2, <1>3, <1>4, <1>5, <1>6, <1>7, <1>8, <1>9, <1>10, <1>11,
     <1>12, <1>13, <1>14, <1>15, <1>16, <1>17, <1>18, <1>19, <1>20,
     <1>21, <1>22, <1>23, <1>24, <1>25
  DEF Next, Steps, IdentitySteps, RevocationSteps, PairingSteps, Faults

\* A request that was put to the user stays in its record until the scope is
\* revoked, and a revoked scope of a desktop with fresh ids is not offered again.
LEMMA RememberedStep == TypeOK /\ Control /\ Remembered /\ [Next]_vars => Remembered'
<1> SUFFICES ASSUME TypeOK, Control, Remembered, [Next]_vars PROVE Remembered'
  OBVIOUS
<1> USE IdentityAssumption DEF IdentityAssumption, metadata, pairings, operation,
   history, Then, Done, Begin, Fault
<1>1. CASE BeginProvision
  BY <1>1 DEF BeginProvision, Remembered
<1>2. CASE BeginDeletion
  BY <1>2 DEF BeginDeletion, Remembered
<1>3. CASE BeginPairing
  BY <1>3 DEF BeginPairing, Remembered
<1>4. ASSUME NEW s \in Scopes, BeginRevocation(s) PROVE Remembered'
  BY <1>4 DEF BeginRevocation, Remembered
<1>5. ASSUME NEW s \in Scopes, NEW q \in Requests, Consume(s, q) PROVE Remembered'
  BY <1>5 DEF Consume, Remembered, TypeOK
<1>6. CASE Prepare
  BY <1>6 DEF Prepare, Remembered
<1>7. CASE Commit
  BY <1>7 DEF Commit, Remembered
<1>8. CASE Mark
  BY <1>8 DEF Mark, Remembered
<1>9. CASE DropState
  BY <1>9 DEF DropState, Remembered
<1>10. ASSUME NEW role \in Roles, MakeKey(role) PROVE Remembered'
  BY <1>10 DEF MakeKey, Remembered
<1>11. ASSUME NEW role \in Roles, DropKey(role) PROVE Remembered'
  BY <1>11 DEF DropKey, Remembered
<1>12. CASE RevokeRename
  BY <1>12 DEF RevokeRename, Rename, Remembered, TypeOK, Control
<1>13. CASE Unlink
  BY <1>13 DEF Unlink, Remembered
<1>14. CASE RevokedAll
  BY <1>14 DEF RevokedAll, Remembered
<1>15. ASSUME NEW s \in Scopes, RevokeNext(s) PROVE Remembered'
  BY <1>15 DEF RevokeNext, Rename, Remembered, TypeOK
<1>16. CASE OfferFails
  BY <1>16 DEF OfferFails, Remembered
<1>17. CASE ConfirmPairing
  BY <1>17 DEF ConfirmPairing, Remembered
<1>18. CASE DropPairing
  BY <1>18 DEF DropPairing, Remembered
<1>19. ASSUME NEW d \in Desktops, Offer(d) PROVE Remembered'
  BY <1>19 DEF Offer, Scopes, Remembered, TypeOK
<1>20. CASE ProvisionFails
  BY <1>20 DEF ProvisionFails, Remembered
<1>21. CASE SkipKey
  BY <1>21 DEF SkipKey, Remembered
<1>22. CASE SkipState
  BY <1>22 DEF SkipState, Remembered
<1>23. CASE Interrupted
  BY <1>23 DEF Interrupted, Remembered
<1>24. CASE LoseKey
  BY <1>24 DEF LoseKey, Remembered
<1>25. CASE UNCHANGED vars
  BY <1>25 DEF vars, Remembered
<1> QED
  BY <1>1, <1>2, <1>3, <1>4, <1>5, <1>6, <1>7, <1>8, <1>9, <1>10, <1>11,
     <1>12, <1>13, <1>14, <1>15, <1>16, <1>17, <1>18, <1>19, <1>20,
     <1>21, <1>22, <1>23, <1>24, <1>25
  DEF Next, Steps, IdentitySteps, RevocationSteps, PairingSteps, Faults

\* No step replaces an active record or takes an entry from it.
LEMMA LiveStep == TypeOK /\ Control /\ [Next]_vars => Stays
<1> SUFFICES ASSUME TypeOK, Control, [Next]_vars PROVE Stays
  OBVIOUS
<1> USE IdentityAssumption DEF IdentityAssumption, metadata, pairings, operation,
   history, Then, Done, Begin, Fault
<1>1. CASE BeginProvision
  BY <1>1 DEF BeginProvision, Stays
<1>2. CASE BeginDeletion
  BY <1>2 DEF BeginDeletion, Stays
<1>3. CASE BeginPairing
  BY <1>3 DEF BeginPairing, Stays
<1>4. ASSUME NEW s \in Scopes, BeginRevocation(s) PROVE Stays
  BY <1>4 DEF BeginRevocation, Stays
<1>5. ASSUME NEW s \in Scopes, NEW q \in Requests, Consume(s, q) PROVE Stays
  BY <1>5 DEF Consume, Stays
<1>6. CASE Prepare
  BY <1>6 DEF Prepare, Stays
<1>7. CASE Commit
  BY <1>7 DEF Commit, Stays
<1>8. CASE Mark
  BY <1>8 DEF Mark, Stays
<1>9. CASE DropState
  BY <1>9 DEF DropState, Stays
<1>10. ASSUME NEW role \in Roles, MakeKey(role) PROVE Stays
  BY <1>10 DEF MakeKey, Stays
<1>11. ASSUME NEW role \in Roles, DropKey(role) PROVE Stays
  BY <1>11 DEF DropKey, Stays
<1>12. CASE RevokeRename
  BY <1>12 DEF RevokeRename, Rename, Stays, TypeOK
<1>13. CASE Unlink
  BY <1>13 DEF Unlink, Stays
<1>14. CASE RevokedAll
  BY <1>14 DEF RevokedAll, Stays
<1>15. ASSUME NEW s \in Scopes, RevokeNext(s) PROVE Stays
  BY <1>15 DEF RevokeNext, Rename, Stays, TypeOK
<1>16. CASE OfferFails
  BY <1>16 DEF OfferFails, Stays
<1>17. CASE ConfirmPairing
  BY <1>17 DEF ConfirmPairing, Stays
<1>18. CASE DropPairing
  BY <1>18 DEF DropPairing, Stays
<1>19. ASSUME NEW d \in Desktops, Offer(d) PROVE Stays
  BY <1>19 DEF Offer, Stays
<1>20. CASE ProvisionFails
  BY <1>20 DEF ProvisionFails, Stays
<1>21. CASE SkipKey
  BY <1>21 DEF SkipKey, Stays
<1>22. CASE SkipState
  BY <1>22 DEF SkipState, Stays
<1>23. CASE Interrupted
  BY <1>23 DEF Interrupted, Stays
<1>24. CASE LoseKey
  BY <1>24 DEF LoseKey, Stays
<1>25. CASE UNCHANGED vars
  BY <1>25 DEF vars, Stays
<1> QED
  BY <1>1, <1>2, <1>3, <1>4, <1>5, <1>6, <1>7, <1>8, <1>9, <1>10, <1>11,
     <1>12, <1>13, <1>14, <1>15, <1>16, <1>17, <1>18, <1>19, <1>20,
     <1>21, <1>22, <1>23, <1>24, <1>25
  DEF Next, Steps, IdentitySteps, RevocationSteps, PairingSteps, Faults

-----------------------------------------------------------------------------
\* A fresh installation has no identity, no files and no operation.
LEMMA InitInv == Init => IInv
BY IdentityAssumption
   DEF IdentityAssumption, Init, IInv, TypeOK, Ops, Stages, Control, DropStages,
       MakeStages, KeysNamed, RecordsOwned, Remembered

\* The steps of the operations and the faults preserve the whole invariant.
LEMMA NextInv == IInv /\ [Next]_vars => IInv'
BY TypeStep, ControlStep, KeysStep, RecordsStep, RememberedStep DEF IInv

\* IInv holds in every reachable state of the stores.
LEMMA Invariance == Spec => []IInv
BY InitInv, NextInv, PTL DEF Spec

\* Every variable of the identity and pairing stores keeps its type.
THEOREM TypeCorrect == Spec => []TypeOK
<1>1. IInv => TypeOK
  BY DEF IInv
<1> QED
  BY <1>1, Invariance, PTL

\* Whatever fails in provision and deleteIdentity, the metadata leads to every
\* hardware key, save those whose deletion was passed over.
THEOREM KeysAreNamed == Spec => []KeysNamed
<1>1. IInv => KeysNamed
  BY DEF IInv
<1> QED
  BY <1>1, Invariance, PTL

\* No pairing, active or pending deletion, outlives its identity: deleteIdentity
\* has removed them all before it removes the keys and the metadata.
THEOREM RecordsAreOwned == Spec => []RecordsOwned
<1>1. IInv => RecordsOwned
  BY DEF IInv
<1> QED
  BY <1>1, Invariance, PTL

\* consumeRequest over all pairings: no request of a desktop with fresh ids is
\* put to the user twice.
THEOREM RequestsAskedOnce == Spec => []AskedOnce
<1>1. IInv => AskedOnce
  BY DEF IInv, TypeOK, Remembered, AskedOnce
<1> QED
  BY <1>1, Invariance, PTL

\* createAt and consumeRequest: no step replaces an active pairing or forgets
\* one of its consumed requests.
THEOREM LivePairingsStay == Spec => LivePairingStays
<1>1. IInv /\ [Next]_vars => [Stays]_vars
  BY LiveStep DEF IInv
<1> QED
  BY <1>1, Invariance, PTL DEF Spec, LivePairingStays, Stays
==============================================================================
