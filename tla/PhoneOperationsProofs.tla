------------------------- MODULE PhoneOperationsProofs -------------------------
(***************************************************************************)
(* One operation owns the phone, whatever leftover workers and callbacks   *)
(* do: for any number of slots and any kinds of operations.  What keeps    *)
(* them apart is that each field names an operation of its own kind, at a  *)
(* stage that goes with the field.                                         *)
(***************************************************************************)
EXTENDS PhoneOperations, FiniteSetTheorems, TLAPS

UsbKinds == {"usb", "usbPair"}
WifiKinds == {"auto", "wifiPair"}

\* TypeOK but for the switches.
Shapes ==
    /\ main \in {"idle", "stopUsb", "stopWifi", "sending"}
    /\ kind \in [Ops -> AllKinds] /\ stage \in [Ops -> Stages]
    /\ Owners \cup prompts \cup Just(confirmation) \subseteq Ops
    /\ closed \cup cancelled \cup sent \subseteq Ops

\* Each field names an operation of its kind, at a stage that goes with it.  An
\* auto-listener that lost its token may leave its socket behind, and a request
\* whose connection was closed may still be pending when its worker is gone.
Fields ==
    \A o \in Ops :
        /\ usbToken = o =>
               \/ kind[o] \in UsbKinds /\ stage[o] \in {"connect", "receive", "prepared"}
               \/ kind[o] = "usbPair" /\ stage[o] \in {"answered", "posted"}
        /\ usbSession = o =>
               kind[o] \in UsbKinds /\ stage[o] \in {"receive", "prepared", "answered"}
        /\ wifiToken = o =>
               \/ /\ kind[o] \in WifiKinds
                  /\ stage[o] \in {"connect", "listen", "receive", "prepared"}
               \/ kind[o] = "wifiPair" /\ stage[o] \in {"answered", "posted"}
        /\ listener = o => kind[o] \in WifiKinds /\ stage[o] \in {"listen", "free"}
        /\ wifiSession = o =>
               /\ kind[o] \in WifiKinds
               /\ stage[o] \in {"receive", "prepared", "answered", "free"}
        /\ pending = o =>
               /\ kind[o] \in {"usb", "auto", "qr"}
               /\ stage[o] \in {"published", "posted", "prompt", "free"}
               /\ listener # o /\ wifiSession # o
        /\ response = o => stage[o] = "sending"
        /\ o \in screens => stage[o] \in {"scan", "dialog", "local"}
        /\ stage[o] = "scan" => o \in screens
        /\ stage[o] = "published" => kind[o] \in {"usb", "auto"}

\* All fields that name an operation name the same one.
Alone == \A o, p \in Owners : o = p

\* What was cancelled is closed, and what was answered is gone.
Settled ==
    /\ cancelled \subseteq closed
    /\ \A o \in sent : stage[o] = "free" /\ o \notin Owners \cup cancelled

\* An evaluation is posted only while the activity is on the screen.
Visible == evaluation => foreground

IInv == TypeOK /\ Fields /\ Alone /\ PromptsOwned /\ Settled /\ Visible

-----------------------------------------------------------------------------
LEMMA InitInv == Init => IInv
  BY OperationsAssumption
     DEF Init, IInv, TypeOK, Fields, Alone, PromptsOwned, Settled, Visible, Owners, Just, AllKinds, Stages

\* The switches stay Boolean.
LEMMA SwitchesInv == IInv /\ [Next]_vars => {enabled, foreground, ready, evaluation}' \subseteq BOOLEAN
  <1> SUFFICES ASSUME IInv, [Next]_vars
               PROVE  {enabled', foreground', ready', evaluation'} \subseteq BOOLEAN
      OBVIOUS
  <1>1. /\ enabled \in BOOLEAN /\ foreground \in BOOLEAN
        /\ ready \in BOOLEAN /\ evaluation \in BOOLEAN
      BY DEF IInv, TypeOK
  <1>2. ASSUME NEW b \in BOOLEAN PROVE Scheduled(b) \in BOOLEAN
      BY DEF Scheduled
  <1>3. CASE SetEnabled \/ NetworkChanged \/ Start \/ Stop
      BY <1>1, <1>3, Zenon DEF SetEnabled, NetworkChanged, Start, Stop
  <1>4. ASSUME NEW kept, Preempt(kept), UNCHANGED switches PROVE {enabled', foreground', ready', evaluation'} \subseteq BOOLEAN
      BY <1>1, <1>2, <1>4, Zenon DEF Preempt, switches
  <1>5. ASSUME NEW o \in Ops, Command(o)
        PROVE {enabled', foreground', ready', evaluation'} \subseteq BOOLEAN
      BY <1>4, <1>5, Zenon DEF Command, StartUsb, StartScreen, StartWifiPairing
  <1>6. ASSUME NEW o \in Ops, Evaluate(o) \/ WorkerFails(o) PROVE {enabled', foreground', ready', evaluation'} \subseteq BOOLEAN
      BY <1>1, <1>2, <1>6, Zenon DEF Evaluate, WorkerFails, switches
  <1>7. ASSUME NEW o \in Ops, Finish(o) \/ Respond(o) \/ ScreenEnds(o) PROVE {enabled', foreground', ready', evaluation'} \subseteq BOOLEAN
      BY <1>1, <1>2, <1>7, Zenon DEF Finish, Respond, ScreenEnds, switches
  <1>8. ASSUME NEW o \in Ops,
               \/ UsbConnect(o) \/ Listen(o) \/ Accept(o) \/ Receive(o) \/ UsbPublish(o)
               \/ WifiPublish(o) \/ WatchPeer(o) \/ PairingSend(o)
               \/ PairingPost(o) \/ Posted(o)
               \/ Approve(o) \/ Scanned(o)
        PROVE  {enabled', foreground', ready', evaluation'} \subseteq BOOLEAN
      BY <1>1, <1>8, Zenon
         DEF UsbConnect, Listen, Accept, Receive, UsbPublish, WifiPublish, WatchPeer,
             PairingSend, PairingPost, Posted, ShowPrompt, LateCallback, PairingReachesUi, Approve,
             Scanned, switches
  <1>9. CASE Lifecycle \/ StartRefused \/ UNCHANGED vars
      BY <1>1, <1>4, <1>9, Zenon DEF Lifecycle, StopUsb, StopLast, StartRefused, vars, switches
  <1> QED
      BY <1>3, <1>5, <1>6, <1>7, <1>8, <1>9, Zenon DEF Next, Worker, User

LEMMA ShapesInv == IInv /\ [Next]_vars => Shapes'
  <1> USE OperationsAssumption DEF IInv, TypeOK, Shapes, Owners, Just, Stages,
          AllKinds, UsbKinds, WifiKinds, switches, slots, usb, wifi, unwrap, ui,
          history
  <1> SUFFICES ASSUME IInv, [Next]_vars PROVE Shapes'
      OBVIOUS
  <1>1. CASE SetEnabled
      BY <1>1 DEF SetEnabled, StopWifi, PendingWifi, Clear
  <1>2. CASE NetworkChanged
      BY <1>2 DEF NetworkChanged, StopWifi, PendingWifi, Clear
  <1>3. CASE Start
      BY <1>3 DEF Start, StopWifi, PendingWifi, Clear
  <1>4. CASE Stop
      BY <1>4 DEF Stop
  <1>5. CASE StopUsb
      BY <1>5 DEF StopUsb
  <1>6. CASE StopLast
      BY <1>6 DEF StopLast, StopWifi, PendingWifi, Clear
  <1>7. CASE StartRefused
      BY <1>7 DEF StartRefused, Preempt
  <1>8. ASSUME NEW o \in Ops, NEW k \in AllKinds, StartUsb(o, k) PROVE Shapes'
      BY <1>8 DEF StartUsb, Preempt, Allocate, Free, NonWifiBusy, PendingWifi
  <1>9. ASSUME NEW o \in Ops, NEW k \in AllKinds, StartScreen(o, k) PROVE Shapes'
      BY <1>9 DEF StartScreen, Preempt, Allocate, Free, NonWifiBusy, PendingWifi
  <1>10. ASSUME NEW o \in Ops, StartWifiPairing(o) PROVE Shapes'
      BY <1>10 DEF StartWifiPairing, Preempt, Allocate, Free, NonWifiBusy, PendingWifi
  <1>11. ASSUME NEW o \in Ops, Evaluate(o) PROVE Shapes'
      BY <1>11 DEF Evaluate, WifiBusy, Allocate, Free, NonWifiBusy, PendingWifi
  <1>12. ASSUME NEW o \in Ops, UsbConnect(o) PROVE Shapes'
      BY <1>12 DEF UsbConnect, Reach
  <1>13. ASSUME NEW o \in Ops, Listen(o) PROVE Shapes'
      BY <1>13 DEF Listen, Reach
  <1>14. ASSUME NEW o \in Ops, Accept(o) PROVE Shapes'
      BY <1>14 DEF Accept, Reach
  <1>15. ASSUME NEW o \in Ops, Receive(o) PROVE Shapes'
      BY <1>15 DEF Receive, Reach
  <1>16. ASSUME NEW o \in Ops, UsbPublish(o) PROVE Shapes'
      BY <1>16 DEF UsbPublish, Reach
  <1>17. ASSUME NEW o \in Ops, WifiPublish(o) PROVE Shapes'
      BY <1>17 DEF WifiPublish, Reach
  <1>18. ASSUME NEW o \in Ops, WatchPeer(o) PROVE Shapes'
      BY <1>18 DEF WatchPeer, Reach, Release
  <1>19. ASSUME NEW o \in Ops, PairingPost(o) PROVE Shapes'
      BY <1>19 DEF PairingPost, Reach
  <1>30. ASSUME NEW o \in Ops, PairingSend(o) PROVE Shapes'
      BY <1>30 DEF PairingSend, Reach
  <1>20. ASSUME NEW o \in Ops, WorkerFails(o) PROVE Shapes'
      BY <1>20 DEF WorkerFails, Release, Clear
  <1>21. ASSUME NEW o \in Ops, ShowPrompt(o) PROVE Shapes'
      BY <1>21 DEF ShowPrompt, Reach, Release
  <1>22. ASSUME NEW o \in Ops, LateCallback(o) PROVE Shapes'
      BY <1>22 DEF LateCallback, Release
  <1>23. ASSUME NEW o \in Ops, PairingReachesUi(o) PROVE Shapes'
      BY <1>23 DEF PairingReachesUi, Reach, Release
  <1>24. ASSUME NEW o \in Ops, Respond(o) PROVE Shapes'
      BY <1>24 DEF Respond, Release, Clear
  <1>25. ASSUME NEW o \in Ops, Finish(o) PROVE Shapes'
      BY <1>25 DEF Finish
  <1>26. ASSUME NEW o \in Ops, Approve(o) PROVE Shapes'
      BY <1>26 DEF Approve, Reach
  <1>27. ASSUME NEW o \in Ops, Scanned(o) PROVE Shapes'
      BY <1>27 DEF Scanned, Reach
  <1>28. ASSUME NEW o \in Ops, ScreenEnds(o) PROVE Shapes'
      BY <1>28 DEF ScreenEnds, Release
  <1>29. CASE UNCHANGED vars
      BY <1>29 DEF vars
  <1> QED
      BY <1>1, <1>2, <1>3, <1>4, <1>5, <1>6, <1>7, <1>8, <1>9, <1>10, <1>11, <1>12,
         <1>13, <1>14, <1>15, <1>16, <1>17, <1>18, <1>19, <1>20, <1>21, <1>22,
         <1>23, <1>24, <1>25, <1>26, <1>27, <1>28, <1>29, <1>30
      DEF Next, Command, Worker, Posted, User, Lifecycle

LEMMA FieldsInv == IInv /\ [Next]_vars => Fields'
  <1> USE OperationsAssumption DEF IInv, TypeOK, Fields, Owners, Just, UsbKinds,
          WifiKinds, switches, slots, usb, wifi, unwrap, ui, history
  <1> SUFFICES ASSUME IInv, [Next]_vars PROVE Fields'
      OBVIOUS
  <1>1. CASE SetEnabled
      BY <1>1 DEF SetEnabled, StopWifi, PendingWifi, Clear
  <1>2. CASE NetworkChanged
      BY <1>2 DEF NetworkChanged, StopWifi, PendingWifi, Clear
  <1>3. CASE Start
      BY <1>3 DEF Start, StopWifi, PendingWifi, Clear
  <1>4. CASE Stop
      BY <1>4 DEF Stop
  <1>5. CASE StopUsb
      BY <1>5 DEF StopUsb
  <1>6. CASE StopLast
      BY <1>6 DEF StopLast, StopWifi, PendingWifi, Clear
  <1>7. CASE StartRefused
      BY <1>7 DEF StartRefused, Preempt
  <1>8. ASSUME NEW o \in Ops, NEW k \in AllKinds, StartUsb(o, k) PROVE Fields'
      BY <1>8 DEF StartUsb, Preempt, Allocate, Free, NonWifiBusy, PendingWifi
  <1>9. ASSUME NEW o \in Ops, NEW k \in AllKinds, StartScreen(o, k) PROVE Fields'
      BY <1>9 DEF StartScreen, Preempt, Allocate, Free, NonWifiBusy, PendingWifi
  <1>10. ASSUME NEW o \in Ops, StartWifiPairing(o) PROVE Fields'
      BY <1>10 DEF StartWifiPairing, Preempt, Allocate, Free, NonWifiBusy, PendingWifi
  <1>11. ASSUME NEW o \in Ops, Evaluate(o) PROVE Fields'
      BY <1>11 DEF Evaluate, WifiBusy, Allocate, Free, NonWifiBusy, PendingWifi
  <1>12. ASSUME NEW o \in Ops, UsbConnect(o) PROVE Fields'
      BY <1>12 DEF UsbConnect, Reach
  <1>13. ASSUME NEW o \in Ops, Listen(o) PROVE Fields'
      BY <1>13 DEF Listen, Reach
  <1>14. ASSUME NEW o \in Ops, Accept(o) PROVE Fields'
      BY <1>14 DEF Accept, Reach
  <1>15. ASSUME NEW o \in Ops, Receive(o) PROVE Fields'
      BY <1>15 DEF Receive, Reach
  <1>16. ASSUME NEW o \in Ops, UsbPublish(o) PROVE Fields'
      BY <1>16 DEF UsbPublish, Reach
  <1>17. ASSUME NEW o \in Ops, WifiPublish(o) PROVE Fields'
      BY <1>17 DEF WifiPublish, Reach
  <1>18. ASSUME NEW o \in Ops, WatchPeer(o) PROVE Fields'
      BY <1>18 DEF WatchPeer, Reach, Release
  <1>19. ASSUME NEW o \in Ops, PairingPost(o) PROVE Fields'
      BY <1>19 DEF PairingPost, Reach
  <1>30. ASSUME NEW o \in Ops, PairingSend(o) PROVE Fields'
      BY <1>30 DEF PairingSend, Reach
  <1>20. ASSUME NEW o \in Ops, WorkerFails(o) PROVE Fields'
      BY <1>20 DEF WorkerFails, Release, Clear
  <1>21. ASSUME NEW o \in Ops, ShowPrompt(o) PROVE Fields'
      BY <1>21 DEF ShowPrompt, Reach, Release
  <1>22. ASSUME NEW o \in Ops, LateCallback(o) PROVE Fields'
      BY <1>22 DEF LateCallback, Release
  <1>23. ASSUME NEW o \in Ops, PairingReachesUi(o) PROVE Fields'
      BY <1>23 DEF PairingReachesUi, Reach, Release
  <1>24. ASSUME NEW o \in Ops, Respond(o) PROVE Fields'
      BY <1>24 DEF Respond, Release, Clear
  <1>25. ASSUME NEW o \in Ops, Finish(o) PROVE Fields'
      BY <1>25 DEF Finish
  <1>26. ASSUME NEW o \in Ops, Approve(o) PROVE Fields'
      BY <1>26 DEF Approve, Reach
  <1>27. ASSUME NEW o \in Ops, Scanned(o) PROVE Fields'
      BY <1>27 DEF Scanned, Reach
  <1>28. ASSUME NEW o \in Ops, ScreenEnds(o) PROVE Fields'
      BY <1>28 DEF ScreenEnds, Release
  <1>29. CASE UNCHANGED vars
      BY <1>29 DEF vars
  <1> QED
      BY <1>1, <1>2, <1>3, <1>4, <1>5, <1>6, <1>7, <1>8, <1>9, <1>10, <1>11, <1>12,
         <1>13, <1>14, <1>15, <1>16, <1>17, <1>18, <1>19, <1>20, <1>21, <1>22,
         <1>23, <1>24, <1>25, <1>26, <1>27, <1>28, <1>29, <1>30
      DEF Next, Command, Worker, Posted, User, Lifecycle

LEMMA AloneInv == IInv /\ [Next]_vars => Alone'
  <1> USE OperationsAssumption DEF IInv, TypeOK, Fields, Alone, Owners, Just,
          UsbKinds, WifiKinds, switches, slots, usb, wifi, unwrap, ui, history
  <1> SUFFICES ASSUME IInv, [Next]_vars PROVE Alone'
      OBVIOUS
  <1>1. CASE SetEnabled
      BY <1>1 DEF SetEnabled, StopWifi, PendingWifi, Clear
  <1>2. CASE NetworkChanged
      BY <1>2 DEF NetworkChanged, StopWifi, PendingWifi, Clear
  <1>3. CASE Start
      BY <1>3 DEF Start, StopWifi, PendingWifi, Clear
  <1>4. CASE Stop
      BY <1>4 DEF Stop
  <1>5. CASE StopUsb
      BY <1>5 DEF StopUsb
  <1>6. CASE StopLast
      BY <1>6 DEF StopLast, StopWifi, PendingWifi, Clear
  <1>7. CASE StartRefused
      BY <1>7 DEF StartRefused, Preempt
  <1>8. ASSUME NEW o \in Ops, NEW k \in AllKinds, StartUsb(o, k) PROVE Alone'
      BY <1>8 DEF StartUsb, Preempt, Allocate, Free, NonWifiBusy, PendingWifi
  <1>9. ASSUME NEW o \in Ops, NEW k \in AllKinds, StartScreen(o, k) PROVE Alone'
      BY <1>9 DEF StartScreen, Preempt, Allocate, Free, NonWifiBusy, PendingWifi
  <1>10. ASSUME NEW o \in Ops, StartWifiPairing(o) PROVE Alone'
      BY <1>10 DEF StartWifiPairing, Preempt, Allocate, Free, NonWifiBusy, PendingWifi
  <1>11. ASSUME NEW o \in Ops, Evaluate(o) PROVE Alone'
      BY <1>11 DEF Evaluate, WifiBusy, Allocate, Free, NonWifiBusy, PendingWifi
  <1>12. ASSUME NEW o \in Ops, UsbConnect(o) PROVE Alone'
      BY <1>12 DEF UsbConnect, Reach
  <1>13. ASSUME NEW o \in Ops, Listen(o) PROVE Alone'
      BY <1>13 DEF Listen, Reach
  <1>14. ASSUME NEW o \in Ops, Accept(o) PROVE Alone'
      BY <1>14 DEF Accept, Reach
  <1>15. ASSUME NEW o \in Ops, Receive(o) PROVE Alone'
      BY <1>15 DEF Receive, Reach
  <1>16. ASSUME NEW o \in Ops, UsbPublish(o) PROVE Alone'
      BY <1>16 DEF UsbPublish, Reach
  <1>17. ASSUME NEW o \in Ops, WifiPublish(o) PROVE Alone'
      BY <1>17 DEF WifiPublish, Reach
  <1>18. ASSUME NEW o \in Ops, WatchPeer(o) PROVE Alone'
      BY <1>18 DEF WatchPeer, Reach, Release
  <1>19. ASSUME NEW o \in Ops, PairingPost(o) PROVE Alone'
      BY <1>19 DEF PairingPost, Reach
  <1>30. ASSUME NEW o \in Ops, PairingSend(o) PROVE Alone'
      BY <1>30 DEF PairingSend, Reach
  <1>20. ASSUME NEW o \in Ops, WorkerFails(o) PROVE Alone'
      BY <1>20 DEF WorkerFails, Release, Clear
  <1>21. ASSUME NEW o \in Ops, ShowPrompt(o) PROVE Alone'
      BY <1>21 DEF ShowPrompt, Reach, Release
  <1>22. ASSUME NEW o \in Ops, LateCallback(o) PROVE Alone'
      BY <1>22 DEF LateCallback, Release
  <1>23. ASSUME NEW o \in Ops, PairingReachesUi(o) PROVE Alone'
      BY <1>23 DEF PairingReachesUi, Reach, Release
  <1>24. ASSUME NEW o \in Ops, Respond(o) PROVE Alone'
      BY <1>24 DEF Respond, Release, Clear
  <1>25. ASSUME NEW o \in Ops, Finish(o) PROVE Alone'
      BY <1>25 DEF Finish
  <1>26. ASSUME NEW o \in Ops, Approve(o) PROVE Alone'
      BY <1>26 DEF Approve, Reach
  <1>27. ASSUME NEW o \in Ops, Scanned(o) PROVE Alone'
      BY <1>27 DEF Scanned, Reach
  <1>28. ASSUME NEW o \in Ops, ScreenEnds(o) PROVE Alone'
      BY <1>28 DEF ScreenEnds, Release
  <1>29. CASE UNCHANGED vars
      BY <1>29 DEF vars
  <1> QED
      BY <1>1, <1>2, <1>3, <1>4, <1>5, <1>6, <1>7, <1>8, <1>9, <1>10, <1>11, <1>12,
         <1>13, <1>14, <1>15, <1>16, <1>17, <1>18, <1>19, <1>20, <1>21, <1>22,
         <1>23, <1>24, <1>25, <1>26, <1>27, <1>28, <1>29, <1>30
      DEF Next, Command, Worker, Posted, User, Lifecycle

LEMMA PromptsInv == IInv /\ [Next]_vars => PromptsOwned'
  <1> USE OperationsAssumption DEF IInv, TypeOK, Fields, Alone, PromptsOwned, Owners,
          Just, UsbKinds, WifiKinds, switches, slots, usb, wifi, unwrap, ui, history
  <1> SUFFICES ASSUME IInv, [Next]_vars PROVE PromptsOwned'
      OBVIOUS
  <1>1. CASE SetEnabled
      BY <1>1 DEF SetEnabled, StopWifi, PendingWifi, Clear
  <1>2. CASE NetworkChanged
      BY <1>2 DEF NetworkChanged, StopWifi, PendingWifi, Clear
  <1>3. CASE Start
      BY <1>3 DEF Start, StopWifi, PendingWifi, Clear
  <1>4. CASE Stop
      BY <1>4 DEF Stop
  <1>5. CASE StopUsb
      BY <1>5 DEF StopUsb
  <1>6. CASE StopLast
      BY <1>6 DEF StopLast, StopWifi, PendingWifi, Clear
  <1>7. CASE StartRefused
      BY <1>7 DEF StartRefused, Preempt
  <1>8. ASSUME NEW o \in Ops, NEW k \in AllKinds, StartUsb(o, k) PROVE PromptsOwned'
      BY <1>8 DEF StartUsb, Preempt, Allocate, Free, NonWifiBusy, PendingWifi
  <1>9. ASSUME NEW o \in Ops, NEW k \in AllKinds, StartScreen(o, k) PROVE PromptsOwned'
      BY <1>9 DEF StartScreen, Preempt, Allocate, Free, NonWifiBusy, PendingWifi
  <1>10. ASSUME NEW o \in Ops, StartWifiPairing(o) PROVE PromptsOwned'
      BY <1>10 DEF StartWifiPairing, Preempt, Allocate, Free, NonWifiBusy, PendingWifi
  <1>11. ASSUME NEW o \in Ops, Evaluate(o) PROVE PromptsOwned'
      BY <1>11 DEF Evaluate, WifiBusy, Allocate, Free, NonWifiBusy, PendingWifi
  <1>12. ASSUME NEW o \in Ops, UsbConnect(o) PROVE PromptsOwned'
      BY <1>12 DEF UsbConnect, Reach
  <1>13. ASSUME NEW o \in Ops, Listen(o) PROVE PromptsOwned'
      BY <1>13 DEF Listen, Reach
  <1>14. ASSUME NEW o \in Ops, Accept(o) PROVE PromptsOwned'
      BY <1>14 DEF Accept, Reach
  <1>15. ASSUME NEW o \in Ops, Receive(o) PROVE PromptsOwned'
      BY <1>15 DEF Receive, Reach
  <1>16. ASSUME NEW o \in Ops, UsbPublish(o) PROVE PromptsOwned'
      BY <1>16 DEF UsbPublish, Reach
  <1>17. ASSUME NEW o \in Ops, WifiPublish(o) PROVE PromptsOwned'
      BY <1>17 DEF WifiPublish, Reach
  <1>18. ASSUME NEW o \in Ops, WatchPeer(o) PROVE PromptsOwned'
      BY <1>18 DEF WatchPeer, Reach, Release
  <1>19. ASSUME NEW o \in Ops, PairingPost(o) PROVE PromptsOwned'
      BY <1>19 DEF PairingPost, Reach
  <1>30. ASSUME NEW o \in Ops, PairingSend(o) PROVE PromptsOwned'
      BY <1>30 DEF PairingSend, Reach
  <1>20. ASSUME NEW o \in Ops, WorkerFails(o) PROVE PromptsOwned'
      BY <1>20 DEF WorkerFails, Release, Clear
  <1>21. ASSUME NEW o \in Ops, ShowPrompt(o) PROVE PromptsOwned'
      BY <1>21 DEF ShowPrompt, Reach, Release
  <1>22. ASSUME NEW o \in Ops, LateCallback(o) PROVE PromptsOwned'
      BY <1>22 DEF LateCallback, Release
  <1>23. ASSUME NEW o \in Ops, PairingReachesUi(o) PROVE PromptsOwned'
      BY <1>23 DEF PairingReachesUi, Reach, Release
  <1>24. ASSUME NEW o \in Ops, Respond(o) PROVE PromptsOwned'
      BY <1>24 DEF Respond, Release, Clear
  <1>25. ASSUME NEW o \in Ops, Finish(o) PROVE PromptsOwned'
      BY <1>25 DEF Finish
  <1>26. ASSUME NEW o \in Ops, Approve(o) PROVE PromptsOwned'
      BY <1>26 DEF Approve, Reach
  <1>27. ASSUME NEW o \in Ops, Scanned(o) PROVE PromptsOwned'
      BY <1>27 DEF Scanned, Reach
  <1>28. ASSUME NEW o \in Ops, ScreenEnds(o) PROVE PromptsOwned'
      BY <1>28 DEF ScreenEnds, Release
  <1>29. CASE UNCHANGED vars
      BY <1>29 DEF vars
  <1> QED
      BY <1>1, <1>2, <1>3, <1>4, <1>5, <1>6, <1>7, <1>8, <1>9, <1>10, <1>11, <1>12,
         <1>13, <1>14, <1>15, <1>16, <1>17, <1>18, <1>19, <1>20, <1>21, <1>22,
         <1>23, <1>24, <1>25, <1>26, <1>27, <1>28, <1>29, <1>30
      DEF Next, Command, Worker, Posted, User, Lifecycle

LEMMA SettledInv == IInv /\ [Next]_vars => Settled'
  <1> USE OperationsAssumption DEF IInv, TypeOK, Fields, Settled, Owners, Just,
          UsbKinds, WifiKinds, switches, slots, usb, wifi, unwrap, ui, history
  <1> SUFFICES ASSUME IInv, [Next]_vars PROVE Settled'
      OBVIOUS
  <1>1. CASE SetEnabled
      BY <1>1 DEF SetEnabled, StopWifi, PendingWifi, Clear
  <1>2. CASE NetworkChanged
      BY <1>2 DEF NetworkChanged, StopWifi, PendingWifi, Clear
  <1>3. CASE Start
      BY <1>3 DEF Start, StopWifi, PendingWifi, Clear
  <1>4. CASE Stop
      BY <1>4 DEF Stop
  <1>5. CASE StopUsb
      BY <1>5 DEF StopUsb
  <1>6. CASE StopLast
      BY <1>6 DEF StopLast, StopWifi, PendingWifi, Clear
  <1>7. CASE StartRefused
      BY <1>7 DEF StartRefused, Preempt
  <1>8. ASSUME NEW o \in Ops, NEW k \in AllKinds, StartUsb(o, k) PROVE Settled'
      BY <1>8 DEF StartUsb, Preempt, Allocate, Free, NonWifiBusy, PendingWifi
  <1>9. ASSUME NEW o \in Ops, NEW k \in AllKinds, StartScreen(o, k) PROVE Settled'
      BY <1>9 DEF StartScreen, Preempt, Allocate, Free, NonWifiBusy, PendingWifi
  <1>10. ASSUME NEW o \in Ops, StartWifiPairing(o) PROVE Settled'
      BY <1>10 DEF StartWifiPairing, Preempt, Allocate, Free, NonWifiBusy, PendingWifi
  <1>11. ASSUME NEW o \in Ops, Evaluate(o) PROVE Settled'
      BY <1>11 DEF Evaluate, WifiBusy, Allocate, Free, NonWifiBusy, PendingWifi
  <1>12. ASSUME NEW o \in Ops, UsbConnect(o) PROVE Settled'
      BY <1>12 DEF UsbConnect, Reach
  <1>13. ASSUME NEW o \in Ops, Listen(o) PROVE Settled'
      BY <1>13 DEF Listen, Reach
  <1>14. ASSUME NEW o \in Ops, Accept(o) PROVE Settled'
      BY <1>14 DEF Accept, Reach
  <1>15. ASSUME NEW o \in Ops, Receive(o) PROVE Settled'
      BY <1>15 DEF Receive, Reach
  <1>16. ASSUME NEW o \in Ops, UsbPublish(o) PROVE Settled'
      BY <1>16 DEF UsbPublish, Reach
  <1>17. ASSUME NEW o \in Ops, WifiPublish(o) PROVE Settled'
      BY <1>17 DEF WifiPublish, Reach
  <1>18. ASSUME NEW o \in Ops, WatchPeer(o) PROVE Settled'
      BY <1>18 DEF WatchPeer, Reach, Release
  <1>19. ASSUME NEW o \in Ops, PairingPost(o) PROVE Settled'
      BY <1>19 DEF PairingPost, Reach
  <1>30. ASSUME NEW o \in Ops, PairingSend(o) PROVE Settled'
      BY <1>30 DEF PairingSend, Reach
  <1>20. ASSUME NEW o \in Ops, WorkerFails(o) PROVE Settled'
      BY <1>20 DEF WorkerFails, Release, Clear
  <1>21. ASSUME NEW o \in Ops, ShowPrompt(o) PROVE Settled'
      BY <1>21 DEF ShowPrompt, Reach, Release
  <1>22. ASSUME NEW o \in Ops, LateCallback(o) PROVE Settled'
      BY <1>22 DEF LateCallback, Release
  <1>23. ASSUME NEW o \in Ops, PairingReachesUi(o) PROVE Settled'
      BY <1>23 DEF PairingReachesUi, Reach, Release
  <1>24. ASSUME NEW o \in Ops, Respond(o) PROVE Settled'
      BY <1>24 DEF Respond, Release, Clear
  <1>25. ASSUME NEW o \in Ops, Finish(o) PROVE Settled'
      BY <1>25 DEF Finish
  <1>26. ASSUME NEW o \in Ops, Approve(o) PROVE Settled'
      BY <1>26 DEF Approve, Reach
  <1>27. ASSUME NEW o \in Ops, Scanned(o) PROVE Settled'
      BY <1>27 DEF Scanned, Reach
  <1>28. ASSUME NEW o \in Ops, ScreenEnds(o) PROVE Settled'
      BY <1>28 DEF ScreenEnds, Release
  <1>29. CASE UNCHANGED vars
      BY <1>29 DEF vars
  <1> QED
      BY <1>1, <1>2, <1>3, <1>4, <1>5, <1>6, <1>7, <1>8, <1>9, <1>10, <1>11, <1>12,
         <1>13, <1>14, <1>15, <1>16, <1>17, <1>18, <1>19, <1>20, <1>21, <1>22,
         <1>23, <1>24, <1>25, <1>26, <1>27, <1>28, <1>29, <1>30
      DEF Next, Command, Worker, Posted, User, Lifecycle

\* What Scheduled posts, it posts only for a visible activity.
LEMMA VisibleInv == IInv /\ [Next]_vars => Visible'
  <1> SUFFICES ASSUME IInv, [Next]_vars PROVE Visible'
      OBVIOUS
  <1>0. evaluation => foreground
      BY DEF IInv, Visible
  <1>1. ASSUME NEW b, b => foreground PROVE Scheduled(b) => foreground
      BY <1>1, Zenon DEF Scheduled
  <1>2. CASE SetEnabled \/ NetworkChanged \/ Start \/ Stop
      BY <1>0, <1>2, Zenon DEF Visible, SetEnabled, NetworkChanged, Start, Stop
  <1>3. ASSUME NEW kept, Preempt(kept), UNCHANGED switches PROVE Visible'
    <2>1. evaluation' = Scheduled(IF wifiToken # None \/ listener # None
                                      THEN FALSE ELSE evaluation)
        BY <1>3 DEF Preempt
    <2>2. foreground' = foreground
        BY <1>3 DEF switches
    <2> QED
        BY <1>0, <1>1, <2>1, <2>2 DEF Visible
  <1>4. ASSUME NEW o \in Ops, Command(o) PROVE Visible'
      BY <1>3, <1>4, Zenon DEF Command, StartUsb, StartScreen, StartWifiPairing
  <1>5. ASSUME NEW o \in Ops,
               Evaluate(o) \/ WorkerFails(o) \/ Finish(o) \/ Respond(o) \/ ScreenEnds(o)
        PROVE  Visible'
      BY <1>0, <1>1, <1>5, Zenon
         DEF Visible, Evaluate, WorkerFails, Finish, Respond, ScreenEnds, switches
  <1>6. ASSUME NEW o \in Ops,
               \/ UsbConnect(o) \/ Listen(o) \/ Accept(o) \/ Receive(o) \/ UsbPublish(o)
               \/ WifiPublish(o) \/ WatchPeer(o) \/ PairingSend(o) \/ PairingPost(o)
               \/ Posted(o) \/ Approve(o) \/ Scanned(o)
        PROVE  Visible'
      BY <1>0, <1>6, Zenon
         DEF Visible, UsbConnect, Listen, Accept, Receive, UsbPublish, WifiPublish, WatchPeer,
             PairingSend, PairingPost, Posted, ShowPrompt, LateCallback, PairingReachesUi,
             Approve, Scanned, switches
  <1>7. CASE Lifecycle
      BY <1>0, <1>7, Zenon DEF Visible, Lifecycle, StopUsb, StopLast, switches
  <1>8. CASE StartRefused
      BY <1>3, <1>8, Zenon DEF StartRefused, switches
  <1>9. CASE UNCHANGED vars
      BY <1>0, <1>9, Zenon DEF Visible, vars, switches
  <1> QED
      BY <1>2, <1>4, <1>5, <1>6, <1>7, <1>8, <1>9, Zenon DEF Next, Worker, User

LEMMA NextInv == IInv /\ [Next]_vars => IInv'
  <1> SUFFICES ASSUME IInv, [Next]_vars PROVE IInv'
      OBVIOUS
  <1>1. TypeOK'
      BY SwitchesInv, ShapesInv DEF TypeOK, Shapes
  <1> QED
      BY <1>1, FieldsInv, AloneInv, PromptsInv, SettledInv, VisibleInv DEF IInv

-----------------------------------------------------------------------------
\* Every variable keeps its type.
THEOREM TypeCorrect == Spec => []TypeOK
  <1>1. IInv => TypeOK
      BY DEF IInv
  <1> QED
      BY InitInv, NextInv, <1>1, PTL DEF Spec

\* However late the workers and callbacks of earlier operations run, no two
\* operations are active together (nativeOperationActive and its callers).
THEOREM OneOwner == Spec => []SingleOwner
  <1>1. IInv => SingleOwner
      <2> SUFFICES ASSUME IInv PROVE Cardinality(Owners) <= 1
          BY DEF SingleOwner
      <2>1. CASE Owners = {}
          BY <2>1, FS_EmptySet
      <2>2. CASE Owners # {}
          <3>1. PICK o : o \in Owners
              BY <2>2
          <3>2. Owners = {o}
              BY <3>1 DEF IInv, Alone
          <3>3. Cardinality(Owners) = 1
              BY <3>2, FS_Singleton
          <3> QED
              BY <3>3
      <2> QED
          BY <2>1, <2>2
  <1> QED
      BY InitInv, NextInv, <1>1, PTL DEF Spec

\* No biometric prompt outlives its request, and none appears for a request that
\* was cancelled or overtaken (showPhoneUnwrapPrompt, takePhoneUnwrap).
THEOREM PromptsAreOwned == Spec => []PromptsOwned
  <1>1. IInv => PromptsOwned
      BY DEF IInv
  <1> QED
      BY InitInv, NextInv, <1>1, PTL DEF Spec

\* No response is sent for an unwrap that was cancelled, however late its biometric
\* callback arrives (performPhoneUnwrap, takeStreamResponse).
THEOREM CancelledStaysUnsent == Spec => []CancelledNeverSent
  <1>1. IInv => CancelledNeverSent
      BY DEF IInv, Settled, CancelledNeverSent
  <1> QED
      BY InitInv, NextInv, <1>1, PTL DEF Spec

\* Between the end of onStop and the next onStart, only a pairing command gives Wi-Fi
\* an owner.
LEMMA StoppedStep ==
    ASSUME IInv, [Next]_vars, ~foreground, main \notin {"stopUsb", "stopWifi"},
           NEW w \in WifiOwners' \ WifiOwners
    PROVE  StartWifiPairing(w)
  <1> USE OperationsAssumption DEF IInv, TypeOK, Fields, Owners, Just, WifiOwners, PendingWifi,
          UsbKinds, WifiKinds, switches, slots, usb, wifi, unwrap, ui, history
  <1>0. ~evaluation
      BY DEF Visible
  <1>1. CASE SetEnabled
      BY <1>1 DEF SetEnabled, StopWifi, Clear
  <1>2. CASE NetworkChanged
      BY <1>2 DEF NetworkChanged
  <1>3. CASE Start
      BY <1>3 DEF Start, StopWifi, Clear
  <1>4. CASE Stop
      BY <1>4 DEF Stop
  <1>5. CASE Lifecycle
      BY <1>5 DEF Lifecycle, StopUsb, StopLast
  <1>6. CASE StartRefused
      BY <1>6 DEF StartRefused, Preempt
  <1>7. ASSUME NEW o \in Ops, NEW k \in AllKinds, StartUsb(o, k) PROVE FALSE
      BY <1>7 DEF StartUsb, Preempt, Allocate, Free
  <1>8. ASSUME NEW o \in Ops, NEW k \in AllKinds, StartScreen(o, k) PROVE FALSE
      BY <1>8 DEF StartScreen, Preempt, Allocate, Free
  <1>9. ASSUME NEW o \in Ops, StartWifiPairing(o) PROVE o = w
      BY <1>9 DEF StartWifiPairing, Preempt, Allocate, Free
  <1>10. ASSUME NEW o \in Ops, Evaluate(o) PROVE FALSE
      BY <1>0, <1>10 DEF Evaluate
  <1>11. ASSUME NEW o \in Ops, UsbConnect(o) \/ Listen(o) \/ Accept(o) \/ Receive(o) PROVE FALSE
      BY <1>11 DEF UsbConnect, Listen, Accept, Receive
  <1>12. ASSUME NEW o \in Ops, UsbPublish(o) \/ WifiPublish(o) PROVE FALSE
      BY <1>12 DEF UsbPublish, WifiPublish
  <1>13. ASSUME NEW o \in Ops, WatchPeer(o) \/ PairingSend(o) \/ PairingPost(o) PROVE FALSE
      BY <1>13 DEF WatchPeer, PairingSend, PairingPost
  <1>14. ASSUME NEW o \in Ops, WorkerFails(o) PROVE FALSE
      BY <1>14 DEF WorkerFails, Clear
  <1>15. ASSUME NEW o \in Ops, Posted(o) PROVE FALSE
      BY <1>15 DEF Posted, ShowPrompt, LateCallback, PairingReachesUi
  <1>16. ASSUME NEW o \in Ops, Respond(o) \/ Finish(o) PROVE FALSE
      BY <1>16 DEF Respond, Finish, Clear
  <1>17. ASSUME NEW o \in Ops, Approve(o) PROVE FALSE
      BY <1>17 DEF Approve
  <1>18. ASSUME NEW o \in Ops, Scanned(o) \/ ScreenEnds(o) PROVE FALSE
      BY <1>18 DEF Scanned, ScreenEnds
  <1>19. CASE UNCHANGED vars
      BY <1>19 DEF vars
  <1> HIDE DEF IInv, WifiOwners
  <1> QED
      BY <1>1, <1>2, <1>3, <1>4, <1>5, <1>6, <1>7, <1>8, <1>9, <1>10, <1>11, <1>12,
         <1>13, <1>14, <1>15, <1>16, <1>17, <1>18, <1>19, Zenon
      DEF Next, Command, Worker, User

\* When onStop returns, nothing of Wi-Fi is left; if an authorization was pending,
\* taking it leaves no listener or session of another operation behind.
LEMMA StopLastStep == IInv /\ StopLast => WifiOwners' = {}
  <1> SUFFICES ASSUME IInv, StopLast PROVE WifiOwners' = {}
      OBVIOUS
  <1> USE OperationsAssumption
  <1>1. CASE PendingWifi # {}
      BY <1>1 DEF IInv, TypeOK, Fields, Alone, Owners, Just, StopLast, StopWifi, Clear,
                  PendingWifi, WifiOwners, UsbKinds, WifiKinds, slots, wifi
  <1>2. CASE PendingWifi = {}
      BY <1>2 DEF StopLast, StopWifi, PendingWifi, WifiOwners, Just, unwrap, slots
  <1> QED
      BY <1>1, <1>2

\* When onStop returns, no Wi-Fi listener, session or authorization is left, and no
\* leftover worker, posted runnable or callback brings one back while the activity is
\* stopped (onStop, runWifiAutoUnwrap, runWifiPairing, publishWifi).
THEOREM StopLeavesNoWifi == Spec => StopEndsWifi
  <1> DEFINE Step ==
        /\ StopLast => WifiOwners' = {}
        /\ ~foreground /\ main \notin {"stopUsb", "stopWifi"} =>
               \A o \in WifiOwners' \ WifiOwners : StartWifiPairing(o)
  <1>1. IInv /\ [Next]_vars => Step
      BY StoppedStep, StopLastStep
  <1>2. IInv /\ [Next]_vars => [Step]_vars
      BY <1>1
  <1> HIDE DEF Step
  <1>3. Spec => [][Step]_vars
      BY InitInv, NextInv, <1>2, PTL DEF Spec
  <1> QED
      BY <1>3 DEF StopEndsWifi, Step
=============================================================================
