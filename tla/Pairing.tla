------------------------------ MODULE Pairing ------------------------------
(***************************************************************************)
(* Pairing a desktop with a phone by the explicit pair command (desktop    *)
(* main.rs, pairing.rs) on Linux and Windows, and what the phone confirms. *)
(*                                                                         *)
(* Several commands and several phones talk over routes that may mix up,   *)
(* repeat or delay their offers and responses: only the fingerprint the    *)
(* user carries from one screen to the other binds the two devices.  A     *)
(* command then commits its files one by one and undoes them if one fails; *)
(* it may die at any point.  Nothing keeps two commands that run at the    *)
(* same time off one another's paths: each looks whether a path is free    *)
(* long before it uses it, and undoes by path.                             *)
(***************************************************************************)
EXTENDS Envelopes, FiniteSets, Integers

CONSTANTS
    Attempts,      \* pair commands
    Phones,
    DesktopPaths,  \* desktop state paths that commands may share
    ReplayPaths,   \* replay state paths
    IdentityPaths, \* identity output paths
    Given,         \* the paths that users may give the commands
    None,          \* nothing there
    Torn,          \* a state file whose writing was interrupted
    MaxResponses   \* bound on the responses of all phones together

\* The one-time keys of an exchange.
OneTime(i) == <<"one-time", i>>

ASSUME PairingAssumption ==
    /\ \A a \in Attempts : {<<"sign", a>>, <<"select", a>>} \subseteq Keys
    /\ \A h \in Phones : {<<"identity", h>>, <<"phone", h>>} \subseteq Keys
    /\ {OneTime(i) : i \in 0..2} \subseteq Keys
    /\ MaxResponses \in Nat
    /\ Given \subseteq [Attempts -> [desktop : DesktopPaths, replay : ReplayPaths,
                                    stub : IdentityPaths]]
    /\ None \notin Attempts \cup Phones
    /\ None \notin Attempts \X Phones
    /\ Torn \notin Attempts

\* What DesktopPairingSession::begin sends for a desktop, and what a phone answers.
SignedOffer(desktop, nonce) ==
    SignOffer(Offer(desktop, <<"sign", desktop>>, <<"select", desktop>>, nonce),
              <<"sign", desktop>>)

Answer(h, offer, nonce) ==
    SignPairing(PairingResponse(h, Text("age1phone", LegacyRecipient(<<"identity", h>>)),
                                <<"phone", h>>, offer, nonce),
                <<"phone", h>>)

\* Bad is a value of its own: none that is signed, sealed or kept; and None is no
\* identity file.
ASSUME BadAssumption ==
    \A d, a \in Attempts, h \in Phones, n \in 0 .. MaxResponses :
        LET offer == SignedOffer(d, a)
            answer == Answer(h, offer, n)
            record == PairingRecord(offer, answer)
            own == PairedRecipient(<<"identity", h>>, <<"select", d>>, h)
        IN  /\ Bad \notin {LegacyRecipient(<<"identity", h>>), own, Stub(offer, answer)}
            /\ \A kind \in RecipientTypes : IdentityFile(Stub(offer, answer), kind) # None
            /\ \A s \in {WrapPaired(own, OneTime(0), "file key"),
                         WrapTagged(<<"identity", h>>, OneTime(0), "file key")} :
                 LET request == Signed(<<"sign", d>>, Request("request", record, OneTime(1), s))
                 IN  /\ Bad \notin {s.body, s.args[1], s.args[2], request}
                     /\ SealResponse(request, "file key", <<"phone", h>>, OneTime(2),
                                     "nonce").payload.box # Bad

VARIABLES
    platform,  \* "linux" or "windows"
    att,       \* the commands
    state,     \* desktop state files: the desktop each belongs to
    keys,      \* desktops whose hardware keys exist (Windows)
    replay,    \* replay state files: the scope of each
    lock,      \* replay files that have a lock file beside them
    locators,  \* locators of the configuration root: scope and paths
    stubs,     \* identity files
    sent,      \* messages on the routes
    screen,    \* what a phone shows for confirmation
    records    \* a phone's durable pairings

vars == <<platform, att, state, keys, replay, lock, locators, stubs, sent, screen, records>>
desktopFiles == <<state, keys, replay, lock, locators, stubs>>
network == <<sent, screen, records>>

Ended == {"idle", "ended", "rolled back", "done"}
Steps == Ended \cup {"opening", "naming", "offering", "exchanging", "confirming",
                     "replay", "locator", "stub", "rollback"}
Undo == {"locator", "replay", "lock", "keys", "state"}

\* A command: its step, the phone its user holds, its three paths, the desktop it
\* pairs, whether the desktop state was there, the commands under way when it
\* started (history), the response and what is left to undo.
NewAttempt(paths) ==
    [pc |-> "idle", hand |-> None, desktop |-> paths.desktop, replay |-> paths.replay,
     stub |-> paths.stub, id |-> None, existed |-> FALSE, beside |-> {}, response |-> None,
     todo |-> <<>>]

Init ==
    /\ platform \in {"linux", "windows"}
    /\ \E paths \in Given : att = [a \in Attempts |-> NewAttempt(paths[a])]
    /\ state = [p \in DesktopPaths |-> None]
    /\ replay = [r \in ReplayPaths |-> None]
    /\ stubs = [i \in IdentityPaths |-> None]
    /\ keys = {} /\ lock = {} /\ locators = {} /\ sent = {}
    /\ screen = [h \in Phones |-> None]
    /\ records = [h \in Phones |-> {}]

-----------------------------------------------------------------------------
(* The command until it offers. *)

Running(a) == att[a].pc \notin Ended

\* ensure_pairing_outputs_available, and whether there is a desktop state.  The user
\* has one phone in hand; other commands may be under way, on the same paths or not.
Start(a) ==
    /\ att[a].pc = "idle"
    /\ replay[att[a].replay] = None /\ stubs[att[a].stub] = None
    /\ \E h \in Phones :
         att' = [att EXCEPT ![a].pc = "opening", ![a].hand = h,
                            ![a].existed = state[att[a].desktop] # None,
                            ![a].beside = {b \in Attempts : Running(b)}]
    /\ UNCHANGED <<platform, desktopFiles, network>>

\* A command that is over: what it had received and what it had to undo is gone.
Over(a, pc) == [att EXCEPT ![a].pc = pc, ![a].response = None, ![a].todo = <<>>]

\* DesktopKeyState::open.
Opens(a) ==
    LET id == state[att[a].desktop] IN
    id \notin {None, Torn} /\ (platform = "windows" => id \in keys)

\* Windows opens the state that was there, Linux what is there now.
OpenState(a) ==
    /\ att[a].pc = "opening"
    /\ IF platform = "windows" THEN att[a].existed ELSE state[att[a].desktop] # None
    /\ \/ /\ Opens(a)
          /\ att' = [att EXCEPT ![a].id = state[att[a].desktop], ![a].pc = "offering"]
       \/ att' = Over(a, "ended")
    /\ UNCHANGED <<platform, desktopFiles, network>>

\* open_or_create, before the route is known: the keys are in the file.
CreateSoftwareState(a) ==
    /\ att[a].pc = "opening" /\ platform = "linux"
    /\ state[att[a].desktop] = None
    /\ \/ /\ state' = [state EXCEPT ![att[a].desktop] = a]
          /\ att' = [att EXCEPT ![a].id = a, ![a].pc = "offering"]
       \/ /\ state' \in {state, [state EXCEPT ![att[a].desktop] = Torn]}
          /\ att' = Over(a, "ended")
    /\ UNCHANGED <<platform, keys, replay, lock, locators, stubs, network>>

\* DesktopKeyState::create_new: once discovery, preflight and the configuration
\* root have not failed and the path is still unused, the key set, then the file
\* that names it.
CreateKeys(a) ==
    /\ att[a].pc = "opening" /\ platform = "windows" /\ ~att[a].existed
    /\ \/ /\ state[att[a].desktop] = None
          /\ keys' = keys \cup {a}
          /\ att' = [att EXCEPT ![a].id = a, ![a].pc = "naming"]
       \/ att' = Over(a, "ended") /\ UNCHANGED keys
    /\ UNCHANGED <<platform, state, replay, lock, locators, stubs, network>>

CreateStateFile(a) ==
    /\ att[a].pc = "naming"
    /\ \/ /\ state[att[a].desktop] = None
          /\ state' = [state EXCEPT ![att[a].desktop] = a]
          /\ att' = [att EXCEPT ![a].pc = "offering"]
          /\ UNCHANGED keys
       \/ /\ keys' \in {keys, keys \ {a}}
          /\ att' = Over(a, "ended")
          /\ UNCHANGED state
    /\ UNCHANGED <<platform, replay, lock, locators, stubs, network>>

OfferOf(a) == SignedOffer(att[a].id, a)

\* DesktopPairingSession::begin, unless the route or the configuration fails first:
\* a state that was opened or created for it stays.
SendOffer(a) ==
    /\ att[a].pc = "offering"
    /\ \/ /\ sent' = sent \cup {Encode(OfferOf(a))}
          /\ att' = [att EXCEPT ![a].pc = "exchanging"]
       \/ att' = Over(a, "ended") /\ UNCHANGED sent
    /\ UNCHANGED <<platform, desktopFiles, screen, records>>

-----------------------------------------------------------------------------
(* The phone. *)

Responses == {wire \in sent : Decode("pairing", wire) # Bad}

\* A phone takes one offer at a time and answers it at once.
Receive(h) ==
    /\ screen[h] = None
    /\ Cardinality(Responses) < MaxResponses
    /\ \E wire \in sent :
         LET offer == Decode("offer", wire)
             response == Answer(h, offer, Cardinality(Responses))
         IN  /\ offer # Bad /\ OfferVerifies(offer)
             /\ sent' = sent \cup {Encode(response)}
             /\ screen' = [screen EXCEPT ![h] = [offer |-> offer, response |-> response]]
    /\ UNCHANGED <<platform, att, desktopFiles, records>>

ShownBy(h) == Fingerprint(screen[h].offer, screen[h].response)

\* What a desktop shows while its command runs and once it is done.
ShownTo(a) == Fingerprint(OfferOf(a), att[a].response)

\* The phone's user compares the two screens and confirms; a desktop that this
\* identity is already paired with is refused.
PhoneConfirms(h) ==
    /\ screen[h] # None
    /\ \E a \in Attempts :
         att[a].hand = h /\ att[a].response # None /\ ShownTo(a) = ShownBy(h)
    /\ LET record == PairingRecord(screen[h].offer, screen[h].response) IN
       IF \E r \in records[h] : r.desktop = record.desktop /\ r.identity = record.identity
       THEN UNCHANGED records
       ELSE records' = [records EXCEPT ![h] = @ \cup {record}]
    /\ screen' = [screen EXCEPT ![h] = None]
    /\ UNCHANGED <<platform, att, desktopFiles, sent>>

\* Declined, cancelled or timed out.
PhoneDrops(h) ==
    /\ screen[h] # None
    /\ screen' = [screen EXCEPT ![h] = None]
    /\ UNCHANGED <<platform, att, desktopFiles, sent, records>>

\* The phone's user revokes a pairing, as failed commands advise.
Revoke(h) ==
    /\ \E r \in records[h] : records' = [records EXCEPT ![h] = @ \ {r}]
    /\ UNCHANGED <<platform, att, desktopFiles, sent, screen>>

-----------------------------------------------------------------------------
(* The command from the response to its end. *)

\* Mutant: the desktop state goes whoever created it.
RollBackAll(a, locator) ==
    att' = [att EXCEPT ![a].pc = "rollback",
                       ![a].todo = locator \o <<"replay", "lock">> \o
                           (IF platform = "windows" THEN <<"keys", "state">>
                            ELSE <<"state">>)]

\* rollback_failed_pairing: the locator if it was made, the replay state and its
\* lock file, and what this command created of the desktop state.
RollBack(a, locator) ==
    att' = [att EXCEPT ![a].pc = "rollback",
                       ![a].todo = locator \o <<"replay", "lock">> \o
                           (IF att[a].existed THEN <<>>
                            ELSE IF platform = "windows" THEN <<"keys", "state">>
                            ELSE <<"state">>)]

\* A route hands over some message: this phone's answer, another's, an old one,
\* the offer itself or garbled bytes (Bad).
TakeResponse(a) ==
    /\ att[a].pc = "exchanging"
    /\ \E wire \in sent \cup {Bad} :
         LET response == Decode("pairing", wire) IN
         att' = IF response # Bad /\ PairingVerifies(response, OfferOf(a))
                THEN [att EXCEPT ![a].response = response, ![a].pc = "confirming"]
                ELSE Over(a, "ended")
    /\ UNCHANGED <<platform, desktopFiles, network>>

ExchangeFails(a) ==
    /\ att[a].pc = "exchanging"
    /\ RollBack(a, <<>>)
    /\ UNCHANGED <<platform, desktopFiles, network>>

\* DesktopPairingSession::confirm: the user types what the phone in hand shows.
\* A wrong fingerprint or a late one ends the command as it stands.
Confirm(a) ==
    /\ att[a].pc = "confirming"
    /\ \/ /\ screen[att[a].hand] # None
          /\ ShownBy(att[a].hand) = ShownTo(a)
          /\ att' = [att EXCEPT ![a].pc = "replay"]
       \/ att' = Over(a, "ended")
    /\ UNCHANGED <<platform, desktopFiles, network>>

StubOf(a) == Stub(OfferOf(a), att[a].response)
Scope(a) == <<att[a].id, att[a].response.payload.identity>>
LocatorOf(a) == [scope |-> Scope(a), desktop |-> att[a].desktop, replay |-> att[a].replay]

\* FileReplayGuard::create: the lock file first.
CreateReplay(a) ==
    /\ att[a].pc = "replay"
    /\ \/ /\ replay[att[a].replay] = None
          /\ replay' = [replay EXCEPT ![att[a].replay] = Scope(a)]
          /\ lock' = lock \cup {att[a].replay}
          /\ att' = [att EXCEPT ![a].pc = "locator"]
       \/ /\ lock' \in {lock, lock \cup {att[a].replay}}
          /\ RollBack(a, <<>>)
          /\ UNCHANGED replay
    /\ UNCHANGED <<platform, state, keys, locators, stubs, network>>

LocatorFree(a) == \A l \in locators : l.scope # Scope(a)

\* Mutant: a locator is written over what stands there.
CreateLocatorOver(a) ==
    /\ att[a].pc = "locator"
    /\ \/ /\ locators' = {l \in locators : l.scope # Scope(a)} \cup {LocatorOf(a)}
          /\ att' = [att EXCEPT ![a].pc = "stub"]
       \/ RollBack(a, <<>>) /\ UNCHANGED locators
    /\ UNCHANGED <<platform, state, keys, replay, lock, stubs, network>>

\* The two files that a locator names must be there.
PathsExist(a) == state[att[a].desktop] # None /\ replay[att[a].replay] # None

\* create_pairing_locator: create-only under the name of its scope, then, on
\* Linux, the directory is synced.  A failed sync is a failed creation.
CreateLocator(a) ==
    /\ att[a].pc = "locator"
    /\ \/ /\ LocatorFree(a) /\ PathsExist(a)
          /\ locators' = locators \cup {LocatorOf(a)}
          /\ \/ att' = [att EXCEPT ![a].pc = "stub"]
             \/ platform = "linux" /\ RollBack(a, <<>>)
       \/ RollBack(a, <<>>) /\ UNCHANGED locators
    /\ UNCHANGED <<platform, state, keys, replay, lock, stubs, network>>

\* create_identity_stub_file_for: create-only; what was half written is removed
\* (that this removal fails too is left out).
CreateStub(a) ==
    /\ att[a].pc = "stub"
    /\ \/ /\ stubs[att[a].stub] = None
          /\ \E kind \in RecipientTypes :
                 stubs' = [stubs EXCEPT ![att[a].stub] = IdentityFile(StubOf(a), kind)]
          /\ att' = [att EXCEPT ![a].pc = "done"]
       \/ RollBack(a, <<"locator">>) /\ UNCHANGED stubs
    /\ UNCHANGED <<platform, state, keys, replay, lock, locators, network>>

\* By path and scope, whoever made what is there.
Removed(a, item) ==
    /\ state' = IF item = "state" THEN [state EXCEPT ![att[a].desktop] = None] ELSE state
    /\ keys' = IF item = "keys" THEN keys \ {att[a].id} ELSE keys
    /\ replay' = IF item = "replay" THEN [replay EXCEPT ![att[a].replay] = None] ELSE replay
    /\ lock' = IF item = "lock" THEN lock \ {att[a].replay} ELSE lock
    /\ locators' = IF item = "locator" THEN {l \in locators : l.scope # Scope(a)} ELSE locators

\* One file at a time; a file that cannot be removed does not stop the rest, save
\* that a key set that stays keeps the file that names it.
RollBackStep(a) ==
    /\ att[a].pc = "rollback" /\ att[a].todo # <<>>
    /\ \/ /\ Removed(a, Head(att[a].todo))
          /\ att' = [att EXCEPT ![a].todo = Tail(@)]
       \/ /\ att' = [att EXCEPT ![a].todo = IF Head(@) = "keys" THEN <<>> ELSE Tail(@)]
          /\ UNCHANGED <<state, keys, replay, lock, locators>>
    /\ UNCHANGED <<platform, stubs, network>>

RolledBack(a) ==
    /\ att[a].pc = "rollback" /\ att[a].todo = <<>>
    /\ att' = Over(a, "rolled back")
    /\ UNCHANGED <<platform, desktopFiles, network>>

Die(a) ==
    /\ Running(a)
    /\ att' = Over(a, IF att[a].pc = "rollback" THEN "rolled back" ELSE "ended")
    /\ UNCHANGED <<platform, desktopFiles, network>>

Next ==
    \/ \E a \in Attempts :
         \/ Start(a) \/ OpenState(a) \/ CreateSoftwareState(a) \/ CreateKeys(a)
         \/ CreateStateFile(a) \/ SendOffer(a) \/ TakeResponse(a)
         \/ ExchangeFails(a) \/ Confirm(a) \/ CreateReplay(a) \/ CreateLocator(a)
         \/ CreateStub(a) \/ RollBackStep(a) \/ RolledBack(a) \/ Die(a)
    \/ \E h \in Phones : Receive(h) \/ PhoneConfirms(h) \/ PhoneDrops(h) \/ Revoke(h)

Spec == Init /\ [][Next]_vars

-----------------------------------------------------------------------------
(* What pairing promises. *)

Done == {a \in Attempts : att[a].pc = "done"}

\* Every variable has its shape.
TypeOK ==
    /\ platform \in {"linux", "windows"}
    /\ \A a \in Attempts :
         /\ att[a].pc \in Steps
         /\ att[a].hand \in Phones \cup {None}
         /\ att[a].desktop \in DesktopPaths
         /\ att[a].replay \in ReplayPaths
         /\ att[a].stub \in IdentityPaths
         /\ att[a].id \in Attempts \cup {None}
         /\ {att[a].todo[i] : i \in DOMAIN att[a].todo} \subseteq Undo
         /\ att[a].existed \in BOOLEAN /\ att[a].beside \subseteq Attempts
    /\ \A p \in DesktopPaths : state[p] \in Attempts \cup {None, Torn}
    /\ \A r \in ReplayPaths : replay[r] \in (Attempts \X Phones) \cup {None}
    /\ keys \subseteq Attempts /\ lock \subseteq ReplayPaths
    /\ \A l \in locators : l.scope \in Attempts \X Phones

\* Whatever the routes mix up, a finished command is paired with the phone its
\* user held, and a phone only with desktops of a user who held it
\* (DesktopPairingSession::confirm, PairingConfirmationSession.confirm).
RightDevices ==
    /\ \A a \in Done :
         LET stub == ReadIdentityFile(stubs[att[a].stub]) IN
         /\ stub # Bad
         /\ ReadText(1, stub.recipient).phone = <<"identity", att[a].hand>>
         /\ stub.record.phone = <<"phone", att[a].hand>>
    /\ \A h \in Phones : \A r \in records[h] :
         \E a \in Attempts : att[a].hand = h /\ att[a].id = r.desktop

\* The commands that ran at the same time as this one, failed and undid their files.
Crossed(a) ==
    {c \in Attempts \ {a} : /\ c \in att[a].beside \/ a \in att[c].beside
                           /\ att[c].pc \in {"rollback", "rolled back"}}

\* Whether one of them may have undone the desktop state, for it had found none, or
\* the replay state, for it had been given the same path.
StateUndone(a) ==
    \E c \in Crossed(a) : att[c].desktop = att[a].desktop /\ ~att[c].existed
ReplayUndone(a) == \E c \in Crossed(a) : att[c].replay = att[a].replay

\* A finished pairing keeps its locator and its identity file, and its desktop state,
\* keys and replay state too, whatever other commands do that share its paths, fail,
\* roll back or die, before it or after, unless one that ran at the same time undid
\* them (run_pair, rollback_failed_pairing).
FinishedStays ==
    \A a \in Done :
        /\ LocatorOf(a) \in locators
        /\ ReadIdentityFile(stubs[att[a].stub]) = StubOf(a)
        /\ \/ /\ state[att[a].desktop] = att[a].id
              /\ platform = "windows" => att[a].id \in keys
           \/ StateUndone(a)
        /\ replay[att[a].replay] = Scope(a) \/ ReplayUndone(a)

\* No two finished pairings have the same desktop and identity: they would keep
\* two replay states for one stream of responses (create_pairing_locator).
OneReplayPerScope ==
    \A a, b \in Done : a # b => Scope(a) # Scope(b)

\* The exchange of a file key between a desktop's record and a phone's.
Unwraps(desktop, phone, recipientStanza, identityKey, fileKey) ==
    LET payload == Request("request", desktop, OneTime(1), recipientStanza)
        request == CreateRequest(payload, desktop.signing, desktop)
    IN  /\ request # Bad
        /\ RequestVerifies(request, phone)
        /\ OpenResponse(SealResponse(request, UnwrapFileKey(identityKey, recipientStanza),
                                     phone.phone, OneTime(2), "nonce"),
                        request, desktop, OneTime(1)) = fileKey

\* Once both sides have confirmed, the recipient in the identity file wraps file
\* keys that the file's identity finds and its phone unwraps, and the two records
\* carry them there and back (commit_pairing_state, create_request, seal_response).
RecordsWork ==
    \A a \in Done : \A r \in records[att[a].hand] :
        LET file == stubs[att[a].stub]
            stub == ReadIdentityFile(file)
            desktop == stub.record
            identity == <<"identity", att[a].hand>>
            own == ReadText(2, PhoneRecipient(stub))
            private == WrapFileKey(ReadText(2, file.comment), OneTime(0), "file key")
            tagged == WrapTagged(ReadTagText(file.comment), OneTime(0), "file key")
        IN  r.desktop = att[a].id =>
            IF ReadText(2, file.comment) # Bad
            THEN /\ Matches(own, <<"select", att[a].id>>, private)
                 /\ Unwraps(desktop, r, private, identity, "file key")
            ELSE /\ TagMatches(identity, tagged)
                 /\ Unwraps(desktop, r, tagged, identity, "file key")

=============================================================================
