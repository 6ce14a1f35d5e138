--------------------------- MODULE PhoneOperations ---------------------------
(***************************************************************************)
(* Who owns the phone: the Android plugin's operation slots                *)
(* (PhoneIdentityPlugin.kt, UnwrapOperationState.kt, StreamTransport.kt).  *)
(*                                                                         *)
(* Every unwrap, pairing or local operation publishes itself in shared     *)
(* fields guarded by stateLock.  Tauri commands, activity callbacks,       *)
(* posted runnables, timeouts and biometric callbacks run on the main      *)
(* thread; each network operation has a worker thread.  An action is one   *)
(* critical section, with the steps of the same thread around it that no   *)
(* other thread observes.  A worker keeps running after its operation lost *)
(* the field that named it, and finds out at its next critical section.    *)
(*                                                                         *)
(* Tokens are fresh UUIDs; here an operation is a slot, reused only when   *)
(* nothing refers to it any more.  Scheduling an evaluation of the Wi-Fi   *)
(* auto-listener makes every earlier posted one void (its generation is    *)
(* stale), so one Boolean says whether a live evaluation is posted.        *)
(***************************************************************************)
EXTENDS Integers, FiniteSets

CONSTANTS
    Ops,        \* operation slots
    Draws,      \* what a behaviour may draw on: the kinds each slot allows
    None

VARIABLES
    may,                         \* the draw of this behaviour
    enabled, foreground, ready,  \* auto-listen setting, activity, Wi-Fi network
    evaluation,                  \* an evaluation of this generation is posted
    main,                        \* what the main thread is in the middle of
    kind, stage,                 \* each slot's operation and how far it is
    usbToken, usbSession,        \* activeUsbToken, activeUsbSession
    wifiToken, listener,         \* activeWifiToken; listener with its discovery
    wifiSession,                 \* activeWifiSession
    pending, response,           \* activePhoneUnwrap, activeStreamResponse
    screens,                     \* owners of the scanner, dialogs, other fields
    confirmation,                \* the PairingConfirmationCoordinator's session
    prompts,                     \* biometric prompts on the screen
    closed,                      \* operations whose socket was closed locally
    cancelled, sent              \* history: unwraps cancelled, responses sent

switches == <<may, enabled, foreground, ready>>
slots == <<kind, stage>>
usb == <<usbToken, usbSession>>
wifi == <<wifiToken, listener, wifiSession>>
unwrap == <<pending, response, prompts>>
ui == <<screens, confirmation>>
history == <<cancelled, sent>>
vars == <<switches, evaluation, main, slots, usb, wifi, unwrap, ui, closed, history>>

AllKinds == {"usb", "auto", "qr", "usbPair", "wifiPair", "qrPair", "local"}
Stages == {"free", "connect", "listen", "receive", "prepared", "answered", "published",
           "posted", "prompt", "sending", "scan", "dialog", "local"}

ASSUME OperationsAssumption ==
    /\ Draws \subseteq [Ops -> SUBSET AllKinds]
    /\ None \notin Ops

Just(o) == {o} \ {None}

-----------------------------------------------------------------------------
(* Ownership. *)

PendingWifi == {o \in Just(pending) \cup Just(response) : kind[o] = "auto"}

\* The operations that wifiOperationActive finds.
WifiOwners == Just(wifiToken) \cup Just(listener) \cup Just(wifiSession) \cup PendingWifi

\* wifiOperationActive.
WifiBusy == wifiToken # None \/ listener # None \/ wifiSession # None \/ PendingWifi # {}

\* nonWifiOperationActive.
NonWifiBusy ==
    \/ screens # {} \/ usbToken # None \/ usbSession # None
    \/ (Just(pending) \cup Just(response)) \ PendingWifi # {}

\* The operations that nativeOperationActive finds.
Owners ==
    Just(usbToken) \cup Just(usbSession) \cup Just(wifiToken) \cup Just(listener)
        \cup Just(wifiSession) \cup Just(pending) \cup Just(response) \cup screens

\* A slot that no field, thread, posted runnable or prompt refers to.
Free(o) ==
    /\ stage[o] = "free"
    /\ o \notin Owners \cup prompts \cup Just(confirmation)

\* scheduleWifiAutoEvaluation, when the last generation change before it left
\* the evaluation as given.
Scheduled(before) == IF enabled /\ foreground THEN TRUE ELSE before

Release(o) == stage' = [stage EXCEPT ![o] = "free"]
Reach(o, s) == stage' = [stage EXCEPT ![o] = s]

Clear(field, o) == IF field = o THEN None ELSE field

Init ==
    /\ may \in Draws
    /\ enabled \in BOOLEAN
    /\ foreground = FALSE /\ ready = FALSE
    /\ evaluation = FALSE
    /\ main = "idle"
    /\ kind = [o \in Ops |-> "local"] /\ stage = [o \in Ops |-> "free"]
    /\ usbToken = None /\ usbSession = None
    /\ wifiToken = None /\ listener = None /\ wifiSession = None
    /\ pending = None /\ response = None /\ prompts = {}
    /\ screens = {} /\ confirmation = None
    /\ closed = {} /\ cancelled = {} /\ sent = {}

\* A new operation takes a slot; nothing of the slot's last user remains.
Allocate(o, k, s) ==
    /\ Free(o) /\ k \in may[o]
    /\ kind' = [kind EXCEPT ![o] = k]
    /\ stage' = [stage EXCEPT ![o] = s]
    /\ cancelled' = cancelled \ {o}
    /\ sent' = sent \ {o}

-----------------------------------------------------------------------------
(* Commands on the main thread. *)

\* Mutant: the preempted listener's evaluation is not posted again.
PreemptSilently(kept) ==
    /\ wifiSession = None
    /\ PendingWifi = {}
    /\ wifiToken' = kept
    /\ listener' = None
    /\ evaluation' = (wifiToken = None /\ listener = None /\ evaluation)

\* preemptPassiveWifiForLocalOperation: refused once a connection was accepted;
\* otherwise a passive listener is closed, and its evaluation posted again.
Preempt(kept) ==
    /\ wifiSession = None
    /\ PendingWifi = {}
    /\ wifiToken' = kept
    /\ listener' = None
    /\ evaluation' = Scheduled(IF wifiToken # None \/ listener # None
                                   THEN FALSE ELSE evaluation)

\* pairPhoneUsb, startAutomaticUsbUnwrap: preempt, then claim the USB token.
StartUsb(o, k) ==
    /\ main = "idle" /\ k \in {"usb", "usbPair"}
    /\ ~NonWifiBusy
    /\ Preempt(None)
    /\ Allocate(o, k, "connect")
    /\ usbToken' = o
    /\ closed' = (closed \cup Just(listener)) \ {o}
    /\ UNCHANGED <<switches, main, usbSession, wifiSession, unwrap, ui>>

\* pairPhoneWifi.
StartWifiPairing(o) ==
    /\ main = "idle"
    /\ ~NonWifiBusy
    /\ Preempt(o)
    /\ Allocate(o, "wifiPair", "connect")
    /\ closed' = (closed \cup Just(listener)) \ {o}
    /\ UNCHANGED <<switches, main, usb, wifiSession, unwrap, ui>>

\* unwrapPhone and pairPhone by QR, provisioning, revocation and deletion: the
\* operation shows a screen and has no worker.
StartScreen(o, k) ==
    /\ main = "idle" /\ k \in {"qr", "qrPair", "local"}
    /\ ~NonWifiBusy
    /\ Preempt(None)
    /\ Allocate(o, k, IF k = "local" THEN "local" ELSE "scan")
    /\ screens' = screens \cup {o}
    /\ closed' = (closed \cup Just(listener)) \ {o}
    /\ UNCHANGED <<switches, main, usb, wifiSession, unwrap, confirmation>>

\* A command that preempts the passive listener and then finds another operation.
StartRefused ==
    /\ main = "idle"
    /\ NonWifiBusy
    /\ Preempt(None)
    /\ closed' = closed \cup Just(listener)
    /\ UNCHANGED <<switches, main, slots, usb, wifiSession, unwrap, ui, history>>

\* stopWifiAutoOperation, including a pending authorization: the pending or
\* answering Wi-Fi unwrap is taken, or else the listener or session is closed.
StopWifi ==
    IF PendingWifi # {}
    THEN LET o == IF pending \in PendingWifi THEN pending ELSE response IN
         /\ pending' = Clear(pending, o)
         /\ response' = Clear(response, o)
         /\ prompts' = prompts \ {o}
         /\ closed' = closed \cup {o}
         /\ cancelled' = cancelled \cup {o}
         /\ UNCHANGED <<wifi, sent>>
    ELSE /\ wifiToken' = None /\ listener' = None /\ wifiSession' = None
         /\ closed' = closed \cup Just(listener) \cup Just(wifiSession)
         /\ UNCHANGED <<unwrap, history>>

\* setWifiAutoListen.
SetEnabled ==
    /\ main = "idle"
    /\ enabled' = ~enabled
    /\ IF enabled'
       THEN /\ evaluation' = foreground
            /\ UNCHANGED <<wifi, unwrap, closed, history>>
       ELSE /\ evaluation' = FALSE
            /\ StopWifi
    /\ UNCHANGED <<may, foreground, ready, main, slots, usb, ui>>

\* wifiNetworkChanged: nothing survives a change of network.
NetworkChanged ==
    /\ main = "idle" /\ foreground
    /\ ready' \in BOOLEAN
    /\ IF enabled
       THEN /\ StopWifi
            /\ evaluation' = TRUE
       ELSE UNCHANGED <<wifi, unwrap, closed, history, evaluation>>
    /\ UNCHANGED <<may, enabled, foreground, main, slots, usb, ui>>

-----------------------------------------------------------------------------
(* The activity. *)

\* wifiForegroundChanged(true): the network monitor starts from nothing.
Start ==
    /\ main = "idle" /\ ~foreground
    /\ foreground' = TRUE
    /\ ready' = FALSE
    /\ evaluation' = enabled
    /\ IF enabled THEN StopWifi
                  ELSE UNCHANGED <<wifi, unwrap, closed, history>>
    /\ UNCHANGED <<may, enabled, main, slots, usb, ui>>

\* onStop, first part: the foreground flag, the pairing confirmation, scanner
\* and dialogs, and then cancelPhoneUnwrap.  It may come twice, from MainActivity
\* and from Tauri's own lifecycle observer.
Stop ==
    /\ main = "idle"
    /\ foreground' = FALSE /\ ready' = FALSE
    /\ evaluation' = FALSE
    /\ confirmation' = None
    /\ screens' = {}
    /\ stage' = [o \in Ops |-> IF o \in screens THEN "free" ELSE stage[o]]
    /\ pending' = None
    /\ prompts' = prompts \ Just(pending)
    /\ closed' = closed \cup Just(pending)
    /\ cancelled' = cancelled \cup Just(pending)
    /\ main' = "stopUsb"
    /\ UNCHANGED <<may, enabled, kind, usb, wifi, response, sent>>

\* onStop: cancelUsbSession.
StopUsb ==
    /\ main = "stopUsb"
    /\ usbToken' = None /\ usbSession' = None
    /\ closed' = closed \cup Just(usbSession)
    /\ main' = "stopWifi"
    /\ UNCHANGED <<switches, evaluation, slots, wifi, unwrap, ui, history>>

\* onStop, last part: stopWifiAutoOperation.
StopLast ==
    /\ main = "stopWifi"
    /\ StopWifi
    /\ main' = "idle"
    /\ UNCHANGED <<switches, evaluation, slots, usb, ui>>

\* evaluateWifiAutoListen: while another operation is active it posts itself
\* again; with everything in place it claims the token and starts a worker.
Evaluate(o) ==
    /\ main = "idle" /\ evaluation
    /\ WifiBusy \/ ~NonWifiBusy
    /\ IF WifiBusy \/ ~ready
       THEN /\ evaluation' = ~WifiBusy
            /\ UNCHANGED <<slots, wifiToken, closed, history>>
       ELSE /\ evaluation' = FALSE
            /\ Allocate(o, "auto", "connect")
            /\ wifiToken' = o
            /\ closed' = closed \ {o}
    /\ UNCHANGED <<switches, main, usb, listener, wifiSession, unwrap, ui>>

-----------------------------------------------------------------------------
(* The workers: runUsbUnwrap, runUsbPairing, runWifiAutoUnwrap, runWifiPairing. *)

\* connectUsb succeeded and the operation still owns the USB token.
UsbConnect(o) ==
    /\ kind[o] \in {"usb", "usbPair"} /\ stage[o] = "connect"
    /\ usbToken = o
    /\ usbSession' = o
    /\ Reach(o, "receive")
    /\ UNCHANGED <<switches, evaluation, main, kind, usbToken, wifi, unwrap, ui,
                   closed, history>>

\* Mutant: the listener is published though the token was lost while it was bound.
ListenLate(o) ==
    /\ kind[o] \in {"auto", "wifiPair"} /\ stage[o] = "connect"
    /\ listener' = o
    /\ wifiSession' = IF kind[o] = "wifiPair" THEN None ELSE wifiSession
    /\ Reach(o, "listen")
    /\ UNCHANGED <<switches, evaluation, main, kind, usb, wifiToken, unwrap, ui,
                   closed, history>>

\* The listener and the discovery responder are bound.
Listen(o) ==
    /\ kind[o] \in {"auto", "wifiPair"} /\ stage[o] = "connect"
    /\ wifiToken = o
    /\ listener' = o
    /\ wifiSession' = IF kind[o] = "wifiPair" THEN None ELSE wifiSession
    /\ Reach(o, "listen")
    /\ UNCHANGED <<switches, evaluation, main, kind, usb, wifiToken, unwrap, ui,
                   closed, history>>

\* A desktop connected; the one-shot listener is closed.
Accept(o) ==
    /\ stage[o] = "listen" /\ o \notin closed
    /\ wifiToken = o
    /\ listener' = None
    /\ wifiSession' = o
    /\ Reach(o, "receive")
    /\ UNCHANGED <<switches, evaluation, main, kind, usb, wifiToken, unwrap, ui,
                   closed, history>>

\* The request was received and verified.  An unwrap request is now consumed; a
\* pairing offer is answered, and awaits its confirmation if none else does.
Receive(o) ==
    /\ stage[o] = "receive" /\ o \notin closed
    /\ IF kind[o] \in {"usb", "auto"}
       THEN UNCHANGED confirmation
       ELSE confirmation = None /\ confirmation' = o
    /\ Reach(o, "prepared")
    /\ UNCHANGED <<switches, evaluation, main, kind, usb, wifi, unwrap, screens,
                   closed, history>>

\* runUsbUnwrap hands the verified request to the main thread.
UsbPublish(o) ==
    /\ kind[o] = "usb" /\ stage[o] = "prepared"
    /\ usbToken = o
    /\ usbToken' = None /\ usbSession' = None
    /\ pending' = o
    /\ Reach(o, "published")
    /\ UNCHANGED <<switches, evaluation, main, kind, wifi, response, prompts, ui,
                   closed, history>>

\* publishWifi.
WifiPublish(o) ==
    /\ kind[o] = "auto" /\ stage[o] = "prepared"
    /\ wifiToken = o /\ pending = None /\ response = None
    /\ wifiToken' = None /\ wifiSession' = None
    /\ pending' = o
    /\ Reach(o, "published")
    /\ UNCHANGED <<switches, evaluation, main, kind, usb, listener, response, prompts,
                   ui, closed, history>>

\* watchPeerDisconnect refuses a session that was closed meanwhile; otherwise
\* the prompt is posted.
WatchPeer(o) ==
    /\ stage[o] = "published"
    /\ IF o \in closed THEN Release(o) ELSE Reach(o, "posted")
    /\ UNCHANGED <<switches, evaluation, main, kind, usb, wifi, unwrap, ui, closed,
                   history>>

\* preparePhonePairingStream: the answer leaves on the connection.
PairingSend(o) ==
    /\ stage[o] = "prepared" /\ kind[o] \in {"usbPair", "wifiPair"}
    /\ o \notin closed
    /\ Reach(o, "answered")
    /\ UNCHANGED <<switches, evaluation, main, kind, usb, wifi, unwrap, ui, closed,
                   history>>

\* A pairing worker then drops its session field and posts the confirmation screen.
\* The USB worker does so without a look at its token, whoever owns the field.
PairingPost(o) ==
    /\ stage[o] = "answered"
    /\ IF kind[o] = "usbPair"
       THEN usbSession' = None /\ UNCHANGED wifiSession
       ELSE wifiToken = o /\ wifiSession' = None /\ UNCHANGED usbSession
    /\ Reach(o, "posted")
    /\ UNCHANGED <<switches, evaluation, main, kind, usbToken, wifiToken, listener,
                   unwrap, ui, closed, history>>

\* A worker fails: connection, timeout, refused request, closed socket or lost
\* token.  It clears what is its own; only the auto-listener that still owns
\* its token posts an evaluation, the Wi-Fi pairing worker always does, and the
\* pairing workers cancel the confirmation whoever owns it.
WorkerFails(o) ==
    /\ \/ stage[o] \in {"connect", "listen", "receive", "prepared"}
       \/ stage[o] = "answered" /\ kind[o] = "wifiPair" /\ wifiToken # o
    /\ usbToken' = Clear(usbToken, o)
    /\ usbSession' = Clear(usbSession, o)
    /\ wifiToken' = Clear(wifiToken, o)
    /\ IF kind[o] = "auto" /\ wifiToken # o
       THEN UNCHANGED <<listener, wifiSession>>
       ELSE /\ listener' = Clear(listener, o)
            /\ wifiSession' = Clear(wifiSession, o)
    /\ confirmation' = IF kind[o] \in {"usbPair", "wifiPair"} THEN None ELSE confirmation
    /\ evaluation' = IF kind[o] = "wifiPair" \/ (kind[o] = "auto" /\ wifiToken = o)
                         THEN Scheduled(evaluation) ELSE evaluation
    /\ Release(o)
    /\ UNCHANGED <<switches, main, kind, unwrap, screens, closed, history>>

-----------------------------------------------------------------------------
(* Runnables and callbacks on the main thread. *)

\* Mutant: the prompt appears though the operation is no longer pending.
ShowPromptLate(o) ==
    /\ main = "idle" /\ stage[o] = "posted" /\ kind[o] \in {"usb", "auto"}
    /\ prompts' = prompts \cup {o}
    /\ Reach(o, "prompt")
    /\ UNCHANGED <<switches, evaluation, main, kind, usb, wifi, pending, response, ui,
                   closed, history>>

\* showPhoneUnwrapPrompt.
ShowPrompt(o) ==
    /\ main = "idle" /\ stage[o] = "posted" /\ kind[o] \in {"usb", "auto"}
    /\ IF pending = o
       THEN prompts' = prompts \cup {o} /\ Reach(o, "prompt")
       ELSE Release(o) /\ UNCHANGED prompts
    /\ UNCHANGED <<switches, evaluation, main, kind, usb, wifi, pending, response, ui,
                   closed, history>>

\* Mutant: the confirmation appears whether or not the token is still held.
PairingReachesUiLate(o) ==
    /\ main = "idle" /\ stage[o] = "posted" /\ kind[o] \in {"usbPair", "wifiPair"}
    /\ IF kind[o] = "usbPair" THEN usbToken' = None /\ UNCHANGED wifiToken
                              ELSE wifiToken' = None /\ UNCHANGED usbToken
    /\ screens' = screens \cup {o}
    /\ Reach(o, "dialog")
    /\ UNCHANGED <<switches, evaluation, main, kind, usbSession, listener, wifiSession,
                   unwrap, confirmation, closed, history>>

\* The posted end of a pairing worker: the confirmation appears if the operation
\* still owns its token.  The token field is cleared whoever owns it.
PairingReachesUi(o) ==
    /\ main = "idle" /\ stage[o] = "posted" /\ kind[o] \in {"usbPair", "wifiPair"}
    /\ IF kind[o] = "usbPair" THEN usbToken' = None /\ UNCHANGED wifiToken
                              ELSE wifiToken' = None /\ UNCHANGED usbToken
    /\ IF o \in Just(usbToken) \cup Just(wifiToken)
       THEN /\ screens' = screens \cup {o}
            /\ Reach(o, "dialog")
            /\ UNCHANGED confirmation
       ELSE /\ confirmation' = None
            /\ Release(o)
            /\ UNCHANGED screens
    /\ UNCHANGED <<switches, evaluation, main, kind, usbSession, listener, wifiSession,
                   unwrap, closed, history>>

\* Mutant: the failure is reported but the operation is not taken or closed.
FinishReportsOnly(o) ==
    /\ main = "idle" /\ stage[o] \in {"posted", "prompt"} /\ pending = o
    /\ cancelled' = cancelled \cup {o}
    /\ UNCHANGED <<switches, evaluation, main, slots, usb, wifi, unwrap, ui, closed, sent>>

\* finishPhoneUnwrap: refusal, timeout, peer disconnect, expiry or failure.
Finish(o) ==
    /\ main = "idle" /\ stage[o] \in {"posted", "prompt"} /\ pending = o
    /\ pending' = None
    /\ prompts' = prompts \ {o}
    /\ closed' = closed \cup {o}
    /\ cancelled' = cancelled \cup {o}
    /\ evaluation' = IF kind[o] = "auto" THEN Scheduled(evaluation) ELSE evaluation
    /\ UNCHANGED <<switches, main, slots, usb, wifi, response, ui, sent>>

\* The callback of a prompt whose operation is no longer pending: ignored.
LateCallback(o) ==
    /\ main = "idle" /\ stage[o] = "prompt" /\ pending # o
    /\ Release(o)
    /\ UNCHANGED <<switches, evaluation, main, kind, usb, wifi, unwrap, ui, closed,
                   history>>

\* onAuthenticationSucceeded and performPhoneUnwrap up to the response: a stream
\* unwrap moves to the response field, a QR unwrap to its response screen.
Approve(o) ==
    /\ main = "idle" /\ stage[o] = "prompt" /\ pending = o
    /\ pending' = None
    /\ prompts' = prompts \ {o}
    /\ IF kind[o] = "qr"
       THEN /\ screens' = screens \cup {o}
            /\ Reach(o, "dialog")
            /\ UNCHANGED <<main, response>>
       ELSE /\ response = None
            /\ response' = o
            /\ Reach(o, "sending")
            /\ main' = "sending"
            /\ UNCHANGED screens
    /\ UNCHANGED <<switches, evaluation, kind, usb, wifi, confirmation, closed, history>>

\* sendResponse returned or threw, and takeStreamResponse.
Respond(o) ==
    /\ main = "sending" /\ stage[o] = "sending"
    /\ \/ o \notin closed /\ sent' = sent \cup {o}
       \/ UNCHANGED sent
    /\ closed' = closed \cup {o}
    /\ response' = Clear(response, o)
    /\ evaluation' = IF response = o /\ kind[o] = "auto"
                         THEN Scheduled(evaluation) ELSE evaluation
    /\ Release(o)
    /\ main' = "idle"
    /\ UNCHANGED <<switches, kind, usb, wifi, pending, prompts, ui, cancelled>>

\* The QR scanner read a complete message: the unwrap prompt or the pairing
\* confirmation appears at once.
Scanned(o) ==
    /\ main = "idle" /\ stage[o] = "scan"
    /\ IF kind[o] = "qr"
       THEN /\ screens' = screens \ {o}
            /\ pending' = o
            /\ prompts' = prompts \cup {o}
            /\ Reach(o, "prompt")
            /\ UNCHANGED confirmation
       ELSE /\ confirmation = None
            /\ confirmation' = o
            /\ Reach(o, "dialog")
            /\ UNCHANGED <<screens, pending, prompts>>
    /\ UNCHANGED <<switches, evaluation, main, kind, usb, wifi, response, closed, history>>

\* A screen goes away: done, refused, failed or timed out.  The end of a pairing
\* confirmation posts an evaluation.
ScreenEnds(o) ==
    /\ main = "idle" /\ o \in screens
    /\ screens' = screens \ {o}
    /\ confirmation' = IF kind[o] \in {"usbPair", "wifiPair", "qrPair"} THEN None
                                                                    ELSE confirmation
    /\ evaluation' = IF stage[o] = "dialog" /\ kind[o] # "qr" THEN Scheduled(evaluation)
                                                              ELSE evaluation
    /\ Release(o)
    /\ UNCHANGED <<switches, main, kind, usb, wifi, unwrap, closed, history>>

-----------------------------------------------------------------------------
Command(o) ==
    \/ \E k \in AllKinds : StartUsb(o, k) \/ StartScreen(o, k)
    \/ StartWifiPairing(o)

Worker(o) ==
    \/ UsbConnect(o) \/ Listen(o) \/ Accept(o) \/ Receive(o)
    \/ UsbPublish(o) \/ WifiPublish(o) \/ WatchPeer(o)
    \/ PairingSend(o) \/ PairingPost(o) \/ WorkerFails(o)

Posted(o) == ShowPrompt(o) \/ LateCallback(o) \/ PairingReachesUi(o)

User(o) == Finish(o) \/ Approve(o) \/ Scanned(o) \/ ScreenEnds(o)

Lifecycle == StopUsb \/ StopLast

Next ==
    \/ SetEnabled \/ NetworkChanged \/ Start \/ Stop \/ Lifecycle \/ StartRefused
    \/ \E o \in Ops : Command(o) \/ Evaluate(o) \/ Worker(o) \/ Posted(o)
                          \/ Respond(o) \/ User(o)

Spec == Init /\ [][Next]_vars

\* The main thread drains its queue, every blocking call of a worker but the
\* passive accept has a timeout.  Nothing is assumed of the user.
FairSpec ==
    /\ Spec
    /\ WF_vars(Lifecycle)
    /\ WF_vars(\E o \in Ops : Evaluate(o))
    /\ \A o \in Ops :
           /\ WF_vars(stage[o] # "listen" /\ Worker(o))
           /\ WF_vars(o \in closed /\ WorkerFails(o))
           /\ WF_vars(Posted(o))
           /\ WF_vars(Respond(o))

-----------------------------------------------------------------------------
(* Properties. *)

\* Every variable has its type.
TypeOK ==
    /\ {enabled, foreground, ready, evaluation} \subseteq BOOLEAN
    /\ main \in {"idle", "stopUsb", "stopWifi", "sending"}
    /\ kind \in [Ops -> AllKinds] /\ stage \in [Ops -> Stages]
    /\ Owners \cup prompts \cup Just(confirmation) \subseteq Ops
    /\ closed \cup cancelled \cup sent \subseteq Ops

\* At most one operation owns the phone: whatever the workers left over from
\* cancelled operations do, no two operations are ever active together.
SingleOwner == Cardinality(Owners) <= 1

\* A biometric prompt is on the screen only for the pending request: none is
\* left behind by an operation that was cancelled or overtaken.
PromptsOwned == prompts \subseteq Just(pending)

\* No response leaves the phone for an unwrap that was cancelled, timed out or
\* disconnected, however late its biometric callback arrives.
CancelledNeverSent == sent \cap cancelled = {}

\* When onStop returns, no Wi-Fi token, listener, session or authorization is left;
\* and while the activity is stopped, no worker, posted runnable or callback brings
\* one back: only a new pairing command does.
StopEndsWifi ==
    [][/\ StopLast => WifiOwners' = {}
       /\ ~foreground /\ main \notin {"stopUsb", "stopWifi"} =>
              \A o \in WifiOwners' \ WifiOwners : StartWifiPairing(o)]_vars

\* If auto-listen stays enabled with the network ready, the phone listens, or
\* is busy, again and again: it is never left deaf.
Rearms ==
    <>[](enabled /\ foreground /\ ready) => []<>(\E o \in Owners : stage[o] # "free")

\* The same in the behaviours without Wi-Fi pairings, whose late runnables are
\* what can leave it deaf.
NoWifiPairing == \A o \in Ops : "wifiPair" \notin may[o]
RearmsAfterUnwraps == []NoWifiPairing => Rearms
=============================================================================
