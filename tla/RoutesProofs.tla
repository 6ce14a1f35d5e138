----------------------------- MODULE RoutesProofs -----------------------------
(***************************************************************************)
(* Whatever adb fails to do, whoever dies and whichever answers arrive: an *)
(* operation stays on its route, and its reverse rule is never left to     *)
(* nobody.  For any number of operations, devices and addresses.  All but  *)
(* the types is said of one operation at a time: what others do can only   *)
(* take its rule away.  The QR transfer comes last: what a scan delivers   *)
(* is whole and fresh, for any number of frames, transfers and ticks.      *)
(***************************************************************************)
EXTENDS Routes, QrTransfer, FiniteSetTheorems, TLAPS

UsbPcs == {"list", "arm", "create", "launch", "accept", "confirm", "recheck", "remove",
           "cleanup"}

\* Before anything is made.
EarlyPcs == {"idle", "discover", "connect", "preflight", "prelist", "select", "list", "arm"}

\* Where an operation may have a rule to take down.
RulePcs == {"launch", "accept", "confirm", "recheck", "remove", "cleanup"}

Pcs == Ended \cup EarlyPcs \cup UsbPcs \cup {"exchange"}

Op == [pc : Pcs, purpose : Purposes \cup {None}, choice : Choices \cup {None},
       serial : Serials, hint : Endpoints, address : Endpoints,
       kind : Implemented \cup {None}, answers : SUBSET Answers, heard : SUBSET Addresses,
       device : Serials, got : Ops \cup {None}]

OpsTyped == ops \in [Ops -> Op]
RestTyped ==
    /\ platform \in Platforms
    /\ dev \in [Devices -> {"device", "offline", None}]
    /\ rule \in [Devices -> Ops \cup {None}]
    /\ guard \in [Ops -> {"none", "armed", "retrying", "done", "gave up"}]
    /\ late \subseteq Ops /\ crossed \subseteq Ops
    /\ faults \in 0..MaxFaults /\ plugs \in 0..MaxPlugs

\* An operation over Developer USB has its device, and its guardian before its rule.
Placed(o) == LET r == ops[o] IN
    /\ r.pc \in UsbPcs \cup {"preflight", "prelist", "select"} => r.kind = "adb"
    /\ r.pc = "connect" => r.kind = "wifi"
    /\ r.pc \in UsbPcs \cup {"prelist"} => r.device \in Devices
    /\ r.pc = "exchange" /\ r.kind = "adb" => r.device \in Devices /\ guard[o] = "armed"
    /\ r.pc \in RulePcs \cup {"create"} => guard[o] = "armed"
    /\ r.pc \in EarlyPcs => guard[o] = "none"
    /\ guard[o] # "none" \/ o \in late => r.device \in Devices
    /\ o \in late => r.pc = "killed"

\* A rule is that of its operation's own device, and the operation is past the
\* command that made it.
Made(o) == LET r == ops[o] IN
    \A d \in Devices : rule[d] = o =>
        /\ d = r.device /\ o \notin late
        /\ \/ r.pc \in RulePcs \cup {"failed", "killed"}
           \/ r.pc = "exchange" /\ r.kind = "adb"

\* While no one took another's rule, an operation that has a rule, or may still
\* get one, has a guardian that was not disarmed.
Guarded(o) ==
    crossed = {} /\ (o \in late \/ \E d \in Devices : rule[d] = o) =>
        guard[o] \in {"armed", "retrying", "gave up"}

\* The frame an operation holds is that of its own session.
Got(o) == LET r == ops[o] IN
    /\ r.pc \in {"recheck", "remove"} => r.got \in {None, o}
    /\ r.pc = "answered" => r.got = o

\* The answers to a query are its own; none is signed before the phone signed one.
SentBy(o) == LET r == ops[o] IN
    r.pc \in {"discover", "connect"} => \A m \in r.answers :
        /\ m.nonce = o
        /\ m.signed => \E n \in r.answers : n.by = "phone"

\* A discovery has heard at most one address, from which a valid answer came.
Looked(o) == LET r == ops[o] IN
    r.pc = "discover" =>
        /\ r.kind = None /\ r.serial = None /\ r.hint = None /\ r.device = None
        /\ r.choice \in {"auto", "wifi"} /\ r.purpose \in Purposes
        /\ \A a, b \in r.heard : a = b
        /\ \A a \in r.heard : \E m \in r.answers :
               m.from = a /\ (r.purpose = "unwrap" => m.signed)

\* RouteIsChosen and OwnPhoneAnswered of one operation.
Chosen(o) == LET r == ops[o] IN
    r.kind # None /\ r.choice # None =>
        /\ r.choice \in {"auto", r.kind}
        /\ r.serial # None => r.kind = "adb" /\ r.device \in {None, r.serial}
        /\ r.hint # None => r.kind = "wifi" /\ r.address = r.hint
        /\ r.heard # {} => r.kind = "wifi" /\ r.heard = {r.address}
Reaches(o) == LET r == ops[o] IN
    r.kind = "wifi" /\ r.hint = None /\ r.purpose = "unwrap" /\ r.pc = "connect" =>
        \E m \in r.answers : m.signed /\ m.from = r.address

RuleInv(o) == Placed(o) /\ Made(o) /\ Guarded(o) /\ Got(o)
RouteInv(o) == SentBy(o) /\ Looked(o) /\ Chosen(o) /\ Reaches(o)

IInv == OpsTyped /\ RestTyped /\ \A o \in Ops : RuleInv(o) /\ RouteInv(o)

-----------------------------------------------------------------------------
LEMMA Named == None \notin Ops \cup Devices \cup Addresses /\ Bad \notin Devices \cup Addresses
  BY RoutesAssumption

LEMMA InitInv == Init => IInv
  <1> SUFFICES ASSUME Init PROVE IInv
      OBVIOUS
  <1>1. NewOp \in Op
      BY DEF NewOp, Op, Pcs, EarlyPcs, Serials, Endpoints
  <1>2. OpsTyped /\ RestTyped
      BY <1>1, RoutesAssumption DEF Init, OpsTyped, RestTyped
  <1>3. ASSUME NEW o \in Ops PROVE RuleInv(o) /\ RouteInv(o)
    <2>1. /\ ops[o].pc = "idle" /\ ops[o].kind = None
          /\ guard[o] = "none" /\ o \notin late /\ \A d \in Devices : rule[d] # o
        BY <1>3, Named DEF Init, NewOp
    <2>2. RuleInv(o)
        BY <2>1 DEF RuleInv, Placed, Made, Guarded, Got, UsbPcs, RulePcs
    <2>3. RouteInv(o)
        BY <2>1 DEF RouteInv, SentBy, Looked, Chosen, Reaches
    <2> QED
        BY <2>2, <2>3
  <1> QED
      BY <1>2, <1>3 DEF IInv

-----------------------------------------------------------------------------
(* What a step does to the record of its operation. *)

\* One operation gets to s, the others stay as they are.
Moves(o, s) ==
    /\ OpsTyped' /\ ops'[o].pc = s
    /\ \A p \in Ops \ {o} : ops'[p] = ops[p]

\* All that was asked for and found so far is kept.
Keeps(o) ==
    /\ ops'[o].purpose = ops[o].purpose /\ ops'[o].choice = ops[o].choice
    /\ ops'[o].serial = ops[o].serial /\ ops'[o].hint = ops[o].hint
    /\ ops'[o].address = ops[o].address /\ ops'[o].kind = ops[o].kind
    /\ ops'[o].answers = ops[o].answers /\ ops'[o].heard = ops[o].heard
    /\ ops'[o].device = ops[o].device

\* What the user asked for is dropped.
Forgets(o) == ops'[o].choice = None /\ ops'[o].device = ops[o].device

LEMMA GotoMoves ==
    ASSUME OpsTyped, NEW o \in Ops, NEW s \in Pcs, Goto(o, s)
    PROVE  Moves(o, s) /\ Keeps(o) /\ ops'[o].got = ops[o].got
  BY DEF OpsTyped, Op, Goto, Moves, Keeps

LEMMA GotMoves ==
    ASSUME OpsTyped, NEW o \in Ops, NEW s \in Pcs, NEW reply \in Ops \cup {None},
           ops' = [ops EXCEPT ![o].pc = s, ![o].got = reply]
    PROVE  Moves(o, s) /\ Keeps(o) /\ ops'[o].got = reply
  BY DEF OpsTyped, Op, Moves, Keeps

\* A record of Op put in the place of an operation's own.
LEMMA SetMoves ==
    ASSUME OpsTyped, NEW o \in Ops, NEW r \in Op, ops' = [ops EXCEPT ![o] = r]
    PROVE  Moves(o, r.pc) /\ ops'[o] = r
  <1>1. ops' \in [Ops -> Op] /\ ops'[o] = r /\ \A p \in Ops \ {o} : ops'[p] = ops[p]
      BY DEF OpsTyped
  <1> QED
      BY <1>1 DEF Moves, OpsTyped

\* An operation that is over has only its device and its answer.
LEMMA OverIsOp ==
    ASSUME OpsTyped, NEW o \in Ops, NEW s \in Pcs
    PROVE  LET r == Over(o, s) IN
           /\ r \in Op /\ r.pc = s /\ r.choice = None /\ r.kind = None
           /\ r.device = ops[o].device /\ r.got = ops[o].got
  <1>1. ops[o].device \in Serials /\ ops[o].got \in Ops \cup {None}
      BY DEF OpsTyped, Op
  <1> QED
      BY <1>1 DEF Over, NewOp, Op, Serials, Endpoints

LEMMA OverMoves ==
    ASSUME OpsTyped, NEW o \in Ops, NEW s \in Pcs, ops' = [ops EXCEPT ![o] = Over(o, s)]
    PROVE  Moves(o, s) /\ Forgets(o) /\ ops'[o].kind = None /\ ops'[o].got = ops[o].got
  <1> DEFINE r == Over(o, s)
  <1>1. /\ r \in Op /\ r.pc = s /\ r.choice = None /\ r.kind = None
        /\ r.device = ops[o].device /\ r.got = ops[o].got
      BY OverIsOp
  <1> QED
      BY <1>1, SetMoves DEF Forgets

LEMMA OverGotMoves ==
    ASSUME OpsTyped, NEW o \in Ops, NEW s \in Pcs, NEW reply \in Ops \cup {None},
           ops' = [ops EXCEPT ![o] = [Over(o, s) EXCEPT !.got = reply]]
    PROVE  Moves(o, s) /\ Forgets(o) /\ ops'[o].kind = None /\ ops'[o].got = reply
  <1> DEFINE r == [Over(o, s) EXCEPT !.got = reply]
  <1>1. ops[o].device \in Serials
      BY DEF OpsTyped, Op
  <1>2. /\ r \in Op /\ r.pc = s /\ r.choice = None /\ r.kind = None
        /\ r.device = ops[o].device /\ r.got = reply
      BY <1>1 DEF Over, NewOp, Op, Serials, Endpoints
  <1> QED
      BY <1>2, SetMoves DEF Forgets

LEMMA GoingMoves ==
    ASSUME OpsTyped, NEW o \in Ops, NEW s \in Pcs, ops' = [ops EXCEPT ![o] = Going(o, s)]
    PROVE  /\ Moves(o, s) /\ ops'[o].choice = None /\ ops'[o].kind = ops[o].kind
           /\ ops'[o].device = None
  <1>1. ops[o].purpose \in Purposes \cup {None} /\ ops[o].kind \in Implemented \cup {None}
      BY DEF OpsTyped, Op
  <1>2. LET r == Going(o, s) IN
        r \in Op /\ r.pc = s /\ r.choice = None /\ r.kind = ops[o].kind /\ r.device = None
      BY <1>1 DEF Going, NewOp, Op, Serials, Endpoints
  <1> QED
      BY <1>2, SetMoves

LEMMA SelectedMoves ==
    ASSUME OpsTyped, NEW o \in Ops, NEW d \in Devices,
           ops' = [ops EXCEPT ![o] = [Going(o, "list") EXCEPT !.device = d]]
    PROVE  /\ Moves(o, "list") /\ ops'[o].choice = None /\ ops'[o].kind = ops[o].kind
           /\ ops'[o].device = d
  <1>1. ops[o].purpose \in Purposes \cup {None} /\ ops[o].kind \in Implemented \cup {None}
      BY DEF OpsTyped, Op
  <1>2. LET r == [Going(o, "list") EXCEPT !.device = d] IN
        r \in Op /\ r.pc = "list" /\ r.choice = None /\ r.kind = ops[o].kind /\ r.device = d
      BY <1>1 DEF Going, NewOp, Op, Pcs, EarlyPcs, Serials, Endpoints
  <1> QED
      BY <1>2, SetMoves

LEMMA PreflightMoves ==
    ASSUME OpsTyped, NEW o \in Ops, NEW d \in Devices,
           ops' = [ops EXCEPT ![o].pc = "prelist", ![o].device = d]
    PROVE  /\ Moves(o, "prelist") /\ ops'[o].device = d
           /\ ops'[o].purpose = ops[o].purpose /\ ops'[o].choice = ops[o].choice
           /\ ops'[o].hint = ops[o].hint /\ ops'[o].address = ops[o].address
           /\ ops'[o].kind = ops[o].kind /\ ops'[o].heard = ops[o].heard
           /\ ops'[o].answers = ops[o].answers /\ ops'[o].serial = ops[o].serial
  <1>1. d \in Serials /\ "prelist" \in Pcs
      BY DEF Serials, Pcs, EarlyPcs
  <1> QED
      BY <1>1 DEF OpsTyped, Op, Moves

LEMMA PinMoves ==
    ASSUME OpsTyped, NEW o \in Ops, NEW d \in Devices,
           ops' = [ops EXCEPT ![o].pc = "select", ![o].serial = d]
    PROVE  /\ Moves(o, "select") /\ ops'[o].serial = d
           /\ ops'[o].purpose = ops[o].purpose /\ ops'[o].choice = ops[o].choice
           /\ ops'[o].hint = ops[o].hint /\ ops'[o].address = ops[o].address
           /\ ops'[o].kind = ops[o].kind /\ ops'[o].heard = ops[o].heard
           /\ ops'[o].answers = ops[o].answers /\ ops'[o].device = ops[o].device
  <1>1. d \in Serials /\ "select" \in Pcs
      BY DEF Serials, Pcs, EarlyPcs
  <1> QED
      BY <1>1 DEF OpsTyped, Op, Moves

-----------------------------------------------------------------------------
(* What a step leaves of the invariant. *)

\* A step that does not touch an operation may take its rule and cross others.
LEMMA Untouched ==
    ASSUME NEW p \in Ops, RuleInv(p), RouteInv(p), ops'[p] = ops[p], guard'[p] = guard[p],
           p \in late' <=> p \in late, crossed \subseteq crossed',
           \A d \in Devices : rule'[d] = p => rule[d] = p
    PROVE  RuleInv(p)' /\ RouteInv(p)'
  <1>1. RuleInv(p)'
      BY DEF RuleInv, Placed, Made, Guarded, Got
  <1>2. RouteInv(p)'
      BY DEF RouteInv, SentBy, Looked, Chosen, Reaches
  <1> QED
      BY <1>1, <1>2

\* Of one operation, when the others are untouched.
LEMMA OneSuffices ==
    ASSUME IInv, NEW o \in Ops, NEW s, Moves(o, s), RestTyped',
           \A p \in Ops \ {o} : guard'[p] = guard[p] /\ (p \in late' <=> p \in late),
           crossed \subseteq crossed',
           \A d \in Devices : rule'[d] \in {rule[d], None, o},
           RuleInv(o)', RouteInv(o)'
    PROVE  IInv'
  <1>1. ASSUME NEW p \in Ops \ {o} PROVE RuleInv(p)' /\ RouteInv(p)'
      BY Untouched, Named DEF IInv, Moves
  <1> QED
      BY <1>1 DEF IInv, Moves

\* Past the choice of a route nothing is left to say of it.
LEMMA RoutePast ==
    ASSUME NEW o \in Ops, NEW s \in Pcs \ {"discover", "connect"}, Moves(o, s), RouteInv(o),
           Keeps(o) \/ ops'[o].choice = None
    PROVE  RouteInv(o)'
  BY DEF Moves, Keeps, RouteInv, SentBy, Looked, Chosen, Reaches

\* What stands of one operation before a step.
LEMMA Before ==
    ASSUME IInv, NEW o \in Ops
    PROVE  /\ OpsTyped /\ RestTyped /\ ops[o] \in Op
           /\ Placed(o) /\ Made(o) /\ Guarded(o) /\ Got(o) /\ RouteInv(o)
  BY DEF IInv, RuleInv, OpsTyped

\* Nobody's rule changes hands.
RulesStay == rule' = rule /\ late' = late /\ crossed' = crossed

\* An operation that ends without an answer, its guardian told or not.
LEMMA FailsInv ==
    ASSUME IInv, NEW o \in Ops, ops' = [ops EXCEPT ![o] = Over(o, "failed")],
           Drop(o) \/ guard' = guard, RulesStay, RestTyped', ops[o].pc # "killed"
    PROVE  IInv'
  <1>1. Moves(o, "failed") /\ Forgets(o) /\ ops'[o].kind = None
      BY OverMoves, Before DEF Pcs, Ended
  <1>2. RouteInv(o)'
      BY <1>1, RoutePast, Before DEF Forgets, Pcs, Ended
  <1>3. /\ \A p \in Ops \ {o} : guard'[p] = guard[p]
        /\ guard[o] \in {"armed", "retrying", "gave up"} => guard'[o] \in {"armed", "retrying", "gave up"}
        /\ guard[o] = "none" => guard'[o] = "none"
      BY Before DEF Drop, RestTyped
  <1>4. Placed(o) /\ Made(o) /\ Guarded(o) /\ Got(o)
      BY Before
  <1>5. RuleInv(o)'
    <2>1. o \notin late /\ ops'[o].device = ops[o].device /\ ops'[o].pc = "failed"
        BY <1>1, <1>4 DEF Moves, Forgets, Placed
    <2>2. Placed(o)'
        BY <1>1, <1>3, <1>4, <2>1 DEF Placed, RulesStay, UsbPcs, EarlyPcs, RulePcs
    <2>3. Made(o)' /\ Guarded(o)' /\ Got(o)'
        BY <1>3, <1>4, <2>1 DEF Made, Guarded, Got, RulesStay
    <2> QED
        BY <2>2, <2>3 DEF RuleInv
  <1> QED
      BY <1>1, <1>2, <1>3, <1>5, OneSuffices DEF RulesStay

\* An operation that goes on, with nothing made yet.
LEMMA EarlyInv ==
    ASSUME IInv, NEW o \in Ops, NEW s \in EarlyPcs \cup {"exchange"}, Moves(o, s),
           ops[o].pc \in EarlyPcs,
           s \in UsbPcs \cup {"preflight", "prelist", "select"} => ops'[o].kind = "adb",
           s = "connect" => ops'[o].kind = "wifi",
           s \in UsbPcs \cup {"prelist"} => ops'[o].device \in Devices,
           s = "exchange" => ops'[o].kind # "adb",
           RouteInv(o)', guard' = guard, RulesStay, RestTyped'
    PROVE  IInv'
  <1>1. Placed(o) /\ Made(o)
      BY Before
  <1>2. guard[o] = "none" /\ o \notin late /\ \A d \in Devices : rule[d] # o
      BY <1>1 DEF Placed, Made, EarlyPcs, RulePcs
  <1>3. RuleInv(o)'
    <2>1. Placed(o)'
        BY <1>2 DEF Moves, Placed, RulesStay, EarlyPcs, RulePcs
    <2>2. Made(o)' /\ Guarded(o)' /\ Got(o)'
        BY <1>2 DEF Moves, Made, Guarded, Got, RulesStay, EarlyPcs
    <2> QED
        BY <2>1, <2>2 DEF RuleInv
  <1> QED
      BY <1>3, OneSuffices DEF RulesStay

\* An operation whose rule may be there goes on, its guardian armed.
LEMMA ArmedInv ==
    ASSUME IInv, NEW o \in Ops, NEW s \in RulePcs \cup {"create", "exchange"}, Moves(o, s), Keeps(o),
           ops[o].kind = "adb", ops[o].device \in Devices, o \notin late, guard[o] \in {"none", "armed"},
           \A d \in Devices : rule'[d] \in {rule[d], None, o},
           \A d \in Devices : rule'[d] = o => d = ops[o].device,
           s = "create" => \A d \in Devices : rule'[d] # o,
           s \in {"recheck", "remove"} => ops'[o].got \in {None, o},
           guard' = [guard EXCEPT ![o] = "armed"], late' = late, crossed \subseteq crossed', RestTyped'
    PROVE  IInv'
  <1>1. guard'[o] = "armed" /\ \A p \in Ops \ {o} : guard'[p] = guard[p]
      BY Before DEF RestTyped
  <1>2. RouteInv(o)'
      BY RoutePast, Before DEF Pcs, UsbPcs, RulePcs
  <1>3. Placed(o)'
      BY <1>1 DEF Placed, Moves, Keeps, UsbPcs, RulePcs, EarlyPcs
  <1>4. Made(o)'
      BY DEF Made, Moves, Keeps, RulePcs
  <1>5. Guarded(o)' /\ Got(o)'
      BY <1>1 DEF Guarded, Got, Moves, RulePcs
  <1> QED
      BY <1>1, <1>2, <1>3, <1>4, <1>5, OneSuffices DEF RuleInv

-----------------------------------------------------------------------------
(* The choice of the route. *)

\* A route that resolves takes its operation to its first step.
LEMMA FirstPcs ==
    ASSUME NEW o \in Ops, NEW kind \in Implemented, NEW purpose
    PROVE  /\ First(o, kind, purpose) \in EarlyPcs \cup {"exchange"}
           /\ First(o, kind, purpose) \in UsbPcs \cup {"preflight", "prelist", "select"} => kind = "adb"
           /\ First(o, kind, purpose) = "connect" => kind = "wifi"
           /\ First(o, kind, purpose) \notin UsbPcs \cup {"prelist", "discover"}
           /\ First(o, kind, purpose) = "exchange" => kind # "adb"
  BY DEF First, Implemented, UsbPcs, EarlyPcs

LEMMA StartInv == ASSUME IInv, NEW o \in Ops, Start(o) PROVE IInv'
  <1>1. PICK purpose \in Purposes, choice \in Choices, h \in Hints :
            ops' = [ops EXCEPT ![o] = Begun(o, purpose, choice, h)]
      BY DEF Start
  <1>2. RulesStay /\ guard' = guard /\ RestTyped' /\ ops[o].pc = "idle"
      BY Before DEF Start, At, usb, RulesStay, RestTyped
  <1> DEFINE new == [NewOp EXCEPT !.purpose = purpose, !.choice = choice,
                                  !.serial = h.serial, !.hint = h.address]
  <1>3. CASE Discovers(choice, h)
    <2> DEFINE r == [new EXCEPT !.pc = "discover"]
    <2>1. ops' = [ops EXCEPT ![o] = r]
        BY <1>1, <1>3 DEF Begun
    <2>2. /\ r \in Op /\ r.pc = "discover" /\ r.kind = None /\ r.serial = None /\ r.hint = None
          /\ r.device = None /\ r.choice \in {"auto", "wifi"} /\ r.purpose \in Purposes
          /\ r.heard = {} /\ r.answers = {}
        BY <1>3 DEF NewOp, Discovers, Op, Pcs, EarlyPcs, Serials, Endpoints
    <2> HIDE DEF r
    <2>3. Moves(o, "discover") /\ ops'[o] = r
        BY <2>1, <2>2, SetMoves, Before
    <2>4. RouteInv(o)'
        BY <2>2, <2>3 DEF RouteInv, SentBy, Looked, Chosen, Reaches
    <2> QED
        BY <1>2, <2>3, <2>4, EarlyInv DEF EarlyPcs, UsbPcs
  <1>4. CASE ~Discovers(choice, h) /\ Resolves(choice, h)
    <2> DEFINE kind == KindOf(choice, h)
               r == [new EXCEPT !.pc = First(o, kind, purpose), !.kind = kind, !.address = h.address]
    <2>1. ops' = [ops EXCEPT ![o] = r]
        BY <1>1, <1>4 DEF Begun
    <2>2. /\ kind \in Implemented /\ h.serial \in Serials /\ h.address \in Endpoints
          /\ h.serial # None => kind = "adb"
          /\ h.address # None => kind = "wifi"
          /\ kind = "wifi" => h.address # None
          /\ choice # "auto" => choice = kind
        BY <1>4 DEF Resolves, KindOf, Hints
    <2>3. /\ r.pc = First(o, kind, purpose) /\ r.kind = kind /\ r.serial = h.serial
          /\ r.hint = h.address /\ r.address = h.address /\ r.device = None
          /\ r.choice = choice /\ r.heard = {} /\ r.answers = {}
        BY DEF NewOp
    <2>4. r \in Op
        BY <2>2, FirstPcs DEF NewOp, Op, Pcs, Serials, Endpoints
    <2>5. Moves(o, First(o, kind, purpose)) /\ ops'[o] = r
        BY <2>1, <2>3, <2>4, SetMoves, Before
    <2>6. RouteInv(o)'
        BY <2>2, <2>3, <2>5, FirstPcs DEF RouteInv, SentBy, Looked, Chosen, Reaches
    <2> HIDE DEF r, kind
    <2> QED
        BY <1>2, <2>2, <2>3, <2>5, <2>6, FirstPcs, EarlyInv DEF EarlyPcs, UsbPcs
  <1>5. CASE ~Discovers(choice, h) /\ ~Resolves(choice, h)
    <2> DEFINE r == [NewOp EXCEPT !.pc = "failed"]
    <2>1. ops' = [ops EXCEPT ![o] = r]
        BY <1>1, <1>5 DEF Begun
    <2>2. r \in Op /\ r.pc = "failed" /\ r.kind = None /\ r.choice = None
        BY DEF NewOp, Op, Pcs, Ended, Serials, Endpoints
    <2>3. Moves(o, "failed") /\ ops'[o] = r
        BY <2>1, <2>2, SetMoves, Before
    <2>4. guard[o] = "none" /\ o \notin late /\ \A d \in Devices : rule[d] # o
        BY <1>2, Before DEF Placed, Made, EarlyPcs, RulePcs
    <2>5. RuleInv(o)'
        BY <1>2, <2>2, <2>3, <2>4
           DEF RuleInv, Placed, Made, Guarded, Got, RulesStay, UsbPcs, EarlyPcs, RulePcs
    <2>6. RouteInv(o)'
        BY <2>2, <2>3 DEF RouteInv, SentBy, Looked, Chosen, Reaches
    <2> QED
        BY <1>2, <2>3, <2>5, <2>6, OneSuffices DEF RulesStay
  <1> QED
      BY <1>3, <1>4, <1>5

LEMMA AnswerInv ==
    ASSUME IInv, NEW o \in Ops, NEW m \in Answers, Answer(o, m)
    PROVE  IInv'
  <1> DEFINE r == [ops[o] EXCEPT !.answers = @ \cup {m}]
  <1>1. RulesStay /\ guard' = guard /\ RestTyped' /\ ops[o].pc = "discover"
      BY Before DEF Answer, At, usb, RulesStay, RestTyped
  <1>2. r \in Op /\ r.pc = "discover" /\ ops' = [ops EXCEPT ![o] = r]
      BY <1>1, Before DEF Answer, Op, OpsTyped
  <1>3. /\ r.purpose = ops[o].purpose /\ r.choice = ops[o].choice /\ r.serial = ops[o].serial
        /\ r.hint = ops[o].hint /\ r.kind = ops[o].kind /\ r.heard = ops[o].heard
        /\ r.device = ops[o].device /\ r.answers = ops[o].answers \cup {m}
      BY Before DEF Op
  <1> HIDE DEF r
  <1>4. Moves(o, "discover") /\ ops'[o] = r
      BY <1>2, SetMoves, Before
  <1>5. SentBy(o) /\ Looked(o) /\ Chosen(o) /\ Reaches(o)
      BY Before DEF RouteInv
  <1>7. /\ m.nonce = o
        /\ m.signed => \E n \in ops[o].answers \cup {m} : n.by = "phone"
      BY DEF Answer
  <1>8. SentBy(o)'
      BY <1>1, <1>3, <1>4, <1>5, <1>7 DEF SentBy
  <1>6. RouteInv(o)'
      BY <1>1, <1>2, <1>3, <1>4, <1>5, <1>8 DEF RouteInv, Looked, Chosen, Reaches
  <1> QED
      BY <1>1, <1>4, <1>6, EarlyInv DEF EarlyPcs, UsbPcs

\* Two addresses are more than one.
LEMMA OneAddress ==
    ASSUME NEW S, \A a, b \in S : a = b, NEW x, ~(Cardinality(S \cup {x}) > 1)
    PROVE  \A a, b \in S \cup {x} : a = b
  <1>1. SUFFICES ASSUME NEW a \in S, a # x PROVE FALSE
      OBVIOUS
  <1>2. S \cup {x} = {a} \cup {x}
      OBVIOUS
  <1>3. IsFiniteSet({a}) /\ Cardinality({a}) = 1
      BY FS_Singleton
  <1>4. Cardinality({a} \cup {x}) = 2
      BY <1>1, <1>3, FS_AddElement
  <1> QED
      BY <1>2, <1>4

LEMMA HearInv == ASSUME IInv, NEW o \in Ops, Hear(o) PROVE IInv'
  <1>1. RulesStay /\ guard' = guard /\ RestTyped' /\ ops[o].pc = "discover"
      BY Before DEF Hear, At, usb, RulesStay, RestTyped
  <1>2. PICK m \in ops[o].answers \cup {n \in Answers : n.nonce # o} :
            LET heard == ops[o].heard \cup {m.from} IN
            /\ Valid(o, m)
            /\ IF Cardinality(heard) > 1
               THEN ops' = [ops EXCEPT ![o] = Over(o, "failed")]
               ELSE ops' = [ops EXCEPT ![o].heard = heard]
      BY DEF Hear
  <1> DEFINE heard == ops[o].heard \cup {m.from}
  <1>3. CASE Cardinality(heard) > 1
      BY <1>1, <1>2, <1>3, FailsInv
  <1>4. CASE ~(Cardinality(heard) > 1)
    <2> DEFINE r == [ops[o] EXCEPT !.heard = heard]
    <2>1. /\ m \in Answers /\ m \in ops[o].answers /\ m.nonce = o
          /\ ops[o].purpose = "unwrap" => m.signed
        BY <1>2, Before DEF Valid, Op
    <2>2. m.from \in Addresses
        BY <2>1 DEF Answers
    <2>3. r \in Op /\ r.pc = "discover" /\ ops' = [ops EXCEPT ![o] = r]
        BY <1>1, <1>2, <1>4, <2>2, Before DEF Op, OpsTyped
    <2>4. /\ r.purpose = ops[o].purpose /\ r.choice = ops[o].choice /\ r.serial = ops[o].serial
          /\ r.hint = ops[o].hint /\ r.kind = ops[o].kind /\ r.heard = heard
          /\ r.device = ops[o].device /\ r.answers = ops[o].answers
        BY Before DEF Op
    <2> HIDE DEF r
    <2>5. Moves(o, "discover") /\ ops'[o] = r
        BY <2>3, SetMoves, Before
    <2>6. SentBy(o) /\ Looked(o) /\ Chosen(o) /\ Reaches(o)
        BY Before DEF RouteInv
    <2>7. \A a, b \in heard : a = b
        BY <1>1, <1>4, <2>6, OneAddress DEF Looked
    <2>8. \A a \in heard : \E n \in r.answers :
              n.from = a /\ (r.purpose = "unwrap" => n.signed)
        BY <1>1, <2>1, <2>4, <2>6 DEF Looked
    <2>9. RouteInv(o)'
        BY <1>1, <2>3, <2>4, <2>5, <2>6, <2>7, <2>8 DEF RouteInv, SentBy, Looked, Chosen, Reaches
    <2> QED
        BY <1>1, <2>5, <2>9, EarlyInv DEF EarlyPcs, UsbPcs
  <1> QED
      BY <1>3, <1>4

LEMMA DiscoveryEndsInv == ASSUME IInv, NEW o \in Ops, DiscoveryEnds(o) PROVE IInv'
  <1>1. RulesStay /\ guard' = guard /\ RestTyped' /\ ops[o].pc = "discover"
      BY Before DEF DiscoveryEnds, At, usb, RulesStay, RestTyped
  <1> DEFINE x == IF ops[o].heard = {} THEN None ELSE CHOOSE a \in ops[o].heard : TRUE
             h == [serial |-> None, address |-> x]
             kind == KindOf(ops[o].choice, h)
             r == [ops[o] EXCEPT !.pc = First(o, kind, ops[o].purpose), !.kind = kind, !.address = x]
  <1>2. ops' = IF Resolves(ops[o].choice, h)
               THEN [ops EXCEPT ![o].pc = First(o, kind, ops[o].purpose), ![o].kind = kind,
                                ![o].address = h.address]
               ELSE [ops EXCEPT ![o] = Over(o, "failed")]
      BY DEF DiscoveryEnds
  <1>3. CASE ~Resolves(ops[o].choice, h)
      BY <1>1, <1>2, <1>3, FailsInv
  <1>4. CASE Resolves(ops[o].choice, h)
    <2>1. ops[o].heard \subseteq Addresses
        BY Before DEF Op
    <2>2. /\ ops[o].heard = {} => x = None
          /\ ops[o].heard # {} => x \in ops[o].heard
        OBVIOUS
    <2>3. x \in Endpoints /\ (x = None <=> ops[o].heard = {})
        BY <2>1, <2>2, Named DEF Endpoints
    <2>4. SentBy(o) /\ Looked(o)
        BY Before DEF RouteInv
    <2>5. /\ ops[o].kind = None /\ ops[o].serial = None /\ ops[o].hint = None
          /\ ops[o].device = None /\ ops[o].choice \in {"auto", "wifi"}
          /\ ops[o].heard # {} => ops[o].heard = {x}
          /\ ops[o].heard # {} /\ ops[o].purpose = "unwrap" =>
                \E m \in ops[o].answers : m.signed /\ m.from = x
        BY <1>1, <2>2, <2>4 DEF Looked
    <2>6. /\ kind \in Implemented
          /\ ops[o].choice \in {"auto", kind}
          /\ kind = "wifi" <=> ops[o].heard # {}
        BY <1>4, <2>3, <2>5 DEF Resolves, KindOf
    <2> HIDE DEF x, kind
    <2>7. /\ r.pc = First(o, kind, ops[o].purpose) /\ r.kind = kind /\ r.address = x
          /\ r.purpose = ops[o].purpose /\ r.choice = ops[o].choice /\ r.serial = ops[o].serial
          /\ r.hint = ops[o].hint /\ r.heard = ops[o].heard
          /\ r.device = ops[o].device /\ r.answers = ops[o].answers
        BY Before DEF Op
    <2>8. First(o, kind, ops[o].purpose) \in EarlyPcs \cup {"exchange"}
        BY <2>6, FirstPcs
    <2>9. r \in Op
        BY <2>3, <2>6, <2>8, Before DEF Op, Pcs
    <2>10. ops' = [ops EXCEPT ![o] = r]
        BY <1>2, <1>4, Before DEF OpsTyped, Op
    <2> HIDE DEF r
    <2>11. Moves(o, First(o, kind, ops[o].purpose)) /\ ops'[o] = r
        BY <2>7, <2>9, <2>10, SetMoves, Before
    <2>13. SentBy(o)'
        BY <1>1, <2>4, <2>7, <2>11 DEF SentBy
    <2>12. RouteInv(o)'
        BY <2>5, <2>6, <2>7, <2>11, <2>13, FirstPcs DEF RouteInv, Looked, Chosen, Reaches
    <2> QED
        BY <1>1, <2>6, <2>7, <2>8, <2>11, <2>12, FirstPcs, EarlyInv DEF EarlyPcs, UsbPcs
  <1> QED
      BY <1>3, <1>4

LEMMA DiscoveryFailsInv == ASSUME IInv, NEW o \in Ops, DiscoveryFails(o) PROVE IInv'
  <1>1. RulesStay /\ guard' = guard /\ RestTyped' /\ ops[o].pc = "discover"
      BY Before DEF DiscoveryFails, At, usb, RulesStay, RestTyped
  <1> QED
      BY <1>1, FailsInv DEF DiscoveryFails

LEMMA ConnectInv == ASSUME IInv, NEW o \in Ops, Connect(o) PROVE IInv'
  <1>1. RulesStay /\ guard' = guard /\ RestTyped' /\ ops[o].pc = "connect"
      BY Before DEF Connect, At, usb, RulesStay, RestTyped
  <1>2. CASE ops' = [ops EXCEPT ![o] = Over(o, "failed")]
      BY <1>1, <1>2, FailsInv
  <1>3. CASE ops' = [ops EXCEPT ![o] = Going(o, "exchange")]
    <2>1. /\ Moves(o, "exchange") /\ ops'[o].choice = None /\ ops'[o].kind = ops[o].kind
        BY <1>3, GoingMoves, Before DEF Pcs
    <2>2. ops[o].kind = "wifi"
        BY <1>1, Before DEF Placed
    <2>3. RouteInv(o)'
        BY <2>1, RoutePast, Before DEF Pcs
    <2> QED
        BY <1>1, <2>1, <2>2, <2>3, EarlyInv DEF EarlyPcs, UsbPcs
  <1> QED
      BY <1>2, <1>3 DEF Connect

-----------------------------------------------------------------------------
(* The session over Developer USB. *)

LEMMA FaultsCount ==
    ASSUME RestTyped, Fault \/ faults' = faults
    PROVE  faults' \in 0..MaxFaults
  <1>1. MaxFaults \in Nat
      BY RoutesAssumption
  <1>2. faults \in 0..MaxFaults
      BY DEF RestTyped
  <1> QED
      BY <1>1, <1>2 DEF Fault

\* A failing command counts, and a guardian may be dropped.
LEMMA RestFault ==
    ASSUME RestTyped, NEW o \in Ops, platform' = platform, dev' = dev, plugs' = plugs, RulesStay,
           Drop(o) \/ guard' = guard \/ guard' = [guard EXCEPT ![o] = "armed"],
           Fault \/ faults' = faults
    PROVE  RestTyped'
  <1>1. guard' \in [Ops -> {"none", "armed", "retrying", "done", "gave up"}]
      BY DEF RestTyped, Drop
  <1>2. faults' \in 0..MaxFaults
      BY FaultsCount
  <1> QED
      BY <1>1, <1>2 DEF RestTyped, RulesStay

LEMMA SelectInv == ASSUME IInv, NEW o \in Ops, Select(o) PROVE IInv'
  <1>1. /\ RulesStay /\ ops[o].pc \in {"preflight", "select"}
        /\ platform' = platform /\ dev' = dev /\ plugs' = plugs
      BY DEF Select, RulesStay
  <1>2. CASE Fail(o) /\ (UNCHANGED faults \/ Fault)
    <2>1. RestTyped'
        BY <1>1, <1>2, RestFault, Before DEF Fail
    <2> QED
        BY <1>1, <1>2, <2>1, FailsInv DEF Fail
  <1>3. ASSUME NEW d \in Selected(o), UNCHANGED <<guard, faults>>,
               ops' = IF At(o, "select")
                      THEN [ops EXCEPT ![o] = [Going(o, "list") EXCEPT !.device = d]]
                      ELSE [ops EXCEPT ![o].pc = "prelist", ![o].device = d]
        PROVE  IInv'
    <2>1. RestTyped'
        BY <1>1, <1>3, RestFault, Before
    <2>2. d \in Devices /\ ops[o].serial \in {None, d}
        BY DEF Selected
    <2>3. ops[o].kind = "adb"
        BY <1>1, Before DEF Placed
    <2>4. CASE At(o, "select")
      <3>1. /\ Moves(o, "list") /\ ops'[o].choice = None /\ ops'[o].kind = ops[o].kind
            /\ ops'[o].device = d
          BY <1>3, <2>2, <2>4, SelectedMoves, Before
      <3>2. RouteInv(o)'
          BY <3>1, RoutePast, Before DEF Pcs, EarlyPcs
      <3> QED
          BY <1>1, <1>3, <2>1, <2>2, <2>3, <3>1, <3>2, EarlyInv DEF EarlyPcs, UsbPcs
    <2>5. CASE ~At(o, "select")
      <3>1. /\ Moves(o, "prelist") /\ ops'[o].device = d
            /\ ops'[o].choice = ops[o].choice /\ ops'[o].serial = ops[o].serial
            /\ ops'[o].hint = ops[o].hint /\ ops'[o].address = ops[o].address
            /\ ops'[o].kind = ops[o].kind /\ ops'[o].heard = ops[o].heard
          BY <1>3, <2>2, <2>5, PreflightMoves, Before
      <3>2. Chosen(o)
          BY Before DEF RouteInv
      <3>3. RouteInv(o)'
          BY <2>2, <3>1, <3>2 DEF Moves, RouteInv, SentBy, Looked, Chosen, Reaches
      <3> QED
          BY <1>1, <1>3, <2>1, <2>2, <2>3, <3>1, <3>3, EarlyInv DEF EarlyPcs, UsbPcs
    <2> QED
        BY <2>4, <2>5
  <1> QED
      BY <1>2, <1>3 DEF Select

LEMMA PreflightInv == ASSUME IInv, NEW o \in Ops, Preflight(o) PROVE IInv'
  <1>1. /\ RulesStay /\ ops[o].pc = "prelist"
        /\ platform' = platform /\ dev' = dev /\ plugs' = plugs
      BY DEF Preflight, RulesStay, At
  <1>2. CASE Fail(o) /\ (UNCHANGED faults \/ Fault)
    <2>1. RestTyped'
        BY <1>1, <1>2, RestFault, Before DEF Fail
    <2> QED
        BY <1>1, <1>2, <2>1, FailsInv DEF Fail
  <1>3. CASE /\ ops' = [ops EXCEPT ![o].pc = "select", ![o].serial = Device(o)]
             /\ UNCHANGED <<guard, faults>>
    <2>1. RestTyped'
        BY <1>1, <1>3, RestFault, Before
    <2>2. ops[o].kind = "adb" /\ Device(o) \in Devices
        BY <1>1, Before DEF Placed, Device
    <2>3. /\ Moves(o, "select") /\ ops'[o].serial = ops[o].device
          /\ ops'[o].choice = ops[o].choice /\ ops'[o].device = ops[o].device
          /\ ops'[o].hint = ops[o].hint /\ ops'[o].address = ops[o].address
          /\ ops'[o].kind = ops[o].kind /\ ops'[o].heard = ops[o].heard
        BY <1>3, <2>2, PinMoves, Before DEF Device
    <2>4. Chosen(o)
        BY Before DEF RouteInv
    <2>5. RouteInv(o)'
        BY <2>2, <2>3, <2>4 DEF Moves, RouteInv, SentBy, Looked, Chosen, Reaches
    <2> QED
        BY <1>1, <1>3, <2>1, <2>2, <2>3, <2>5, EarlyInv DEF EarlyPcs, UsbPcs
  <1> QED
      BY <1>2, <1>3 DEF Preflight

LEMMA ListRulesInv == ASSUME IInv, NEW o \in Ops, ListRules(o) PROVE IInv'
  <1>1. /\ RulesStay /\ ops[o].pc = "list"
        /\ platform' = platform /\ dev' = dev /\ plugs' = plugs
      BY DEF ListRules, RulesStay, At
  <1>2. CASE Fail(o) /\ (UNCHANGED faults \/ Fault)
    <2>1. RestTyped'
        BY <1>1, <1>2, RestFault, Before DEF Fail
    <2> QED
        BY <1>1, <1>2, <2>1, FailsInv DEF Fail
  <1>3. CASE Goto(o, "arm") /\ UNCHANGED <<guard, faults>>
    <2>1. RestTyped'
        BY <1>1, <1>3, RestFault, Before
    <2>2. ops[o].kind = "adb" /\ ops[o].device \in Devices
        BY <1>1, Before DEF Placed, UsbPcs
    <2>3. Moves(o, "arm") /\ Keeps(o)
        BY <1>3, GotoMoves, Before DEF Pcs, EarlyPcs
    <2>4. RouteInv(o)'
        BY <2>3, RoutePast, Before DEF Pcs, EarlyPcs
    <2> QED
        BY <1>1, <1>3, <2>1, <2>2, <2>3, <2>4, EarlyInv DEF Keeps, EarlyPcs, UsbPcs
  <1> QED
      BY <1>2, <1>3 DEF ListRules, Asks

\* What the session of an operation with a device may count on.
LEMMA InSession ==
    ASSUME IInv, NEW o \in Ops, ops[o].pc \in {"arm", "create"} \cup RulePcs
    PROVE  /\ ops[o].kind = "adb" /\ ops[o].device \in Devices /\ o \notin late
           /\ ops[o].pc = "arm" => guard[o] = "none"
           /\ ops[o].pc # "arm" => guard[o] = "armed"
           /\ ops[o].pc \in {"arm", "create"} => \A d \in Devices : rule[d] # o
           /\ \A d \in Devices : rule[d] = o => d = ops[o].device
  BY Before DEF Placed, Made, UsbPcs, EarlyPcs, RulePcs

\* Its guardian armed already, or armed by this step.
LEMMA StaysArmed ==
    ASSUME IInv, NEW o \in Ops, guard[o] = "armed", guard' = guard
    PROVE  guard' = [guard EXCEPT ![o] = "armed"]
  BY Before DEF RestTyped

LEMMA ArmInv == ASSUME IInv, NEW o \in Ops, Arm(o) PROVE IInv'
  <1>1. RulesStay /\ ops[o].pc = "arm" /\ platform' = platform /\ dev' = dev /\ plugs' = plugs
        /\ faults' = faults
      BY DEF Arm, RulesStay, At
  <1>2. CASE Fail(o)
    <2>1. RestTyped'
        BY <1>1, <1>2, RestFault, Before DEF Fail
    <2> QED
        BY <1>1, <1>2, <2>1, FailsInv DEF Fail
  <1>3. CASE guard' = [guard EXCEPT ![o] = "armed"] /\ Goto(o, "create")
    <2>1. RestTyped'
        BY <1>1, <1>3, RestFault, Before
    <2>2. Moves(o, "create") /\ Keeps(o)
        BY <1>3, GotoMoves, Before DEF Pcs, UsbPcs
    <2>3. /\ ops[o].kind = "adb" /\ ops[o].device \in Devices /\ o \notin late
          /\ guard[o] = "none" /\ \A d \in Devices : rule[d] # o
        BY <1>1, InSession
    <2> QED
        BY <1>1, <1>3, <2>1, <2>2, <2>3, ArmedInv DEF RulesStay
  <1> QED
      BY <1>2, <1>3 DEF Arm

\* A command of a session that makes and removes no rule.
LEMMA SessionInv ==
    ASSUME IInv, NEW o \in Ops, NEW s \in RulePcs \cup {"exchange"}, ops[o].pc \in RulePcs \cup {"create"},
           Moves(o, s), Keeps(o), s \in {"recheck", "remove"} => ops'[o].got \in {None, o},
           RulesStay, guard' = guard, platform' = platform, dev' = dev, plugs' = plugs,
           Fault \/ faults' = faults
    PROVE  IInv'
  <1>1. RestTyped'
      BY RestFault, Before
  <1>2. guard' = [guard EXCEPT ![o] = "armed"] /\ guard[o] = "armed"
      BY InSession, StaysArmed DEF RulePcs
  <1>3. s # "create"
      BY DEF RulePcs
  <1>4. /\ ops[o].kind = "adb" /\ ops[o].device \in Devices /\ o \notin late
        /\ \A d \in Devices : rule[d] = o => d = ops[o].device
      BY InSession
  <1> QED
      BY <1>1, <1>2, <1>3, <1>4, ArmedInv DEF RulesStay

LEMMA CreateInv == ASSUME IInv, NEW o \in Ops, Create(o) PROVE IInv'
  <1> DEFINE made == [rule EXCEPT ![Device(o)] = o]
  <1>1. /\ ops[o].pc = "create" /\ late' = late /\ crossed' = crossed /\ guard' = guard
        /\ platform' = platform /\ dev' = dev /\ plugs' = plugs
      BY DEF Create, At
  <1>2. PICK s \in RulePcs : Goto(o, s)
      BY DEF Create, RulePcs
  <1>3. rule' \in {rule, made} /\ (Fault \/ faults' = faults)
      BY DEF Create
  <1>4. Moves(o, s) /\ Keeps(o) /\ s # "create"
      BY <1>2, GotoMoves, Before DEF Pcs, UsbPcs, RulePcs
  <1>5. s \notin {"recheck", "remove"}
      BY <1>2, <1>4 DEF Create, Goto, Moves, OpsTyped, Op
  <1>6. Device(o) \in Devices /\ rule \in [Devices -> Ops \cup {None}]
      BY <1>1, InSession, Before DEF Device, RestTyped
  <1>7. /\ rule' \in [Devices -> Ops \cup {None}]
        /\ \A d \in Devices : rule'[d] = rule[d] \/ (rule'[d] = o /\ d = Device(o))
      BY <1>3, <1>6
  <1>8. RestTyped'
      BY <1>1, <1>3, <1>7, Before, FaultsCount DEF RestTyped
  <1>9. guard' = [guard EXCEPT ![o] = "armed"] /\ guard[o] = "armed"
      BY <1>1, InSession, StaysArmed
  <1>10. /\ ops[o].kind = "adb" /\ ops[o].device \in Devices /\ o \notin late
         /\ \A d \in Devices : rule[d] # o
      BY <1>1, InSession
  <1>11. \A d \in Devices : rule'[d] \in {rule[d], None, o} /\ (rule'[d] = o => d = ops[o].device)
      BY <1>7, <1>10 DEF Device
  <1> QED
      BY <1>1, <1>4, <1>5, <1>8, <1>9, <1>10, <1>11, ArmedInv

LEMMA LaunchInv == ASSUME IInv, NEW o \in Ops, Launch(o) PROVE IInv'
  <1>1. PICK s \in {"accept", "cleanup"} : Goto(o, s)
      BY DEF Launch, Asks
  <1>2. Moves(o, s) /\ Keeps(o)
      BY <1>1, GotoMoves, Before DEF Pcs, UsbPcs
  <1>3. /\ RulesStay /\ guard' = guard /\ platform' = platform /\ dev' = dev /\ plugs' = plugs
        /\ Fault \/ faults' = faults
        /\ ops[o].pc = "launch"
      BY DEF Launch, Asks, RulesStay, At
  <1> QED
      BY <1>2, <1>3, SessionInv DEF RulePcs

LEMMA AcceptInv == ASSUME IInv, NEW o \in Ops, Accept(o) PROVE IInv'
  <1>1. PICK s \in {"confirm", "cleanup"} : Goto(o, s)
      BY DEF Accept
  <1>2. Moves(o, s) /\ Keeps(o)
      BY <1>1, GotoMoves, Before DEF Pcs, UsbPcs
  <1>3. /\ RulesStay /\ guard' = guard /\ platform' = platform /\ dev' = dev /\ plugs' = plugs
        /\ faults' = faults /\ ops[o].pc = "accept" /\ ops'[o].got = ops[o].got
      BY <1>1, GotoMoves, Before DEF Accept, usb, RulesStay, At, Pcs, UsbPcs
  <1> QED
      BY <1>2, <1>3, SessionInv DEF RulePcs

LEMMA ConfirmInv == ASSUME IInv, NEW o \in Ops, Confirm(o) PROVE IInv'
  <1>1. PICK s \in {"exchange", "cleanup"} : Goto(o, s)
      BY DEF Confirm, Asks
  <1>2. Moves(o, s) /\ Keeps(o)
      BY <1>1, GotoMoves, Before DEF Pcs, UsbPcs
  <1>3. /\ RulesStay /\ guard' = guard /\ platform' = platform /\ dev' = dev /\ plugs' = plugs
        /\ Fault \/ faults' = faults
        /\ ops[o].pc = "confirm"
      BY DEF Confirm, Asks, RulesStay, At
  <1> QED
      BY <1>2, <1>3, SessionInv DEF RulePcs

LEMMA ExchangeInv == ASSUME IInv, NEW o \in Ops, Exchange(o) PROVE IInv'
  <1>1. /\ RulesStay /\ guard' = guard /\ RestTyped' /\ ops[o].pc = "exchange"
      BY Before DEF Exchange, At, usb, RulesStay, RestTyped
  <1>2. PICK reply \in {f.session : f \in {g \in Frames : Reads(o, g)}} \cup {None} :
            IF ops[o].kind = "adb"
            THEN ops' = [ops EXCEPT ![o].pc = "recheck", ![o].got = reply]
            ELSE ops' = [ops EXCEPT ![o] = [Over(o, IF reply = None THEN "failed" ELSE "answered")
                                                EXCEPT !.got = reply]]
      BY DEF Exchange
  <1>3. reply \in {None, o}
      BY <1>2 DEF Reads
  <1>4. Placed(o) /\ Made(o)
      BY Before
  <1>5. CASE ops[o].kind = "adb"
    <2>1. Moves(o, "recheck") /\ Keeps(o) /\ ops'[o].got = reply
        BY <1>2, <1>3, <1>5, GotMoves, Before DEF Pcs, UsbPcs
    <2>2. /\ ops[o].device \in Devices /\ o \notin late /\ guard[o] = "armed"
          /\ \A d \in Devices : rule[d] = o => d = ops[o].device
        BY <1>1, <1>4, <1>5 DEF Placed, Made
    <2>3. guard' = [guard EXCEPT ![o] = "armed"]
        BY <1>1, <2>2, StaysArmed
    <2>4. "recheck" \in RulePcs
        BY DEF RulePcs
    <2> QED
        BY <1>1, <1>3, <1>5, <2>1, <2>2, <2>3, <2>4, ArmedInv DEF RulesStay
  <1>6. CASE ops[o].kind # "adb"
    <2> DEFINE s == IF reply = None THEN "failed" ELSE "answered"
    <2>1. s \in Pcs /\ s \in {"failed", "answered"} /\ (s = "answered" => reply = o)
        BY <1>3 DEF Pcs, Ended
    <2>2. ops' = [ops EXCEPT ![o] = [Over(o, s) EXCEPT !.got = reply]]
        BY <1>2, <1>6
    <2> HIDE DEF s
    <2>3. Moves(o, s) /\ Forgets(o) /\ ops'[o].kind = None /\ ops'[o].got = reply
        BY <1>3, <2>1, <2>2, OverGotMoves, Before
    <2>4. /\ o \notin late /\ \A d \in Devices : rule[d] # o
          /\ guard[o] # "none" => ops[o].device \in Devices
        BY <1>1, <1>4, <1>6 DEF Placed, Made, RulePcs
    <2>5. RuleInv(o)'
        BY <1>1, <2>1, <2>3, <2>4 DEF RuleInv, Placed, Made, Guarded, Got, Moves, Forgets,
                                      RulesStay, UsbPcs, EarlyPcs, RulePcs
    <2>6. RouteInv(o)'
        BY <2>1, <2>3, RoutePast, Before DEF Forgets
    <2> QED
        BY <1>1, <2>3, <2>5, <2>6, OneSuffices DEF RulesStay
  <1> QED
      BY <1>5, <1>6

LEMMA RecheckInv == ASSUME IInv, NEW o \in Ops, Recheck(o) PROVE IInv'
  <1>1. /\ RulesStay /\ guard' = guard /\ platform' = platform /\ dev' = dev /\ plugs' = plugs
        /\ Fault \/ faults' = faults
        /\ ops[o].pc = "recheck"
      BY DEF Recheck, RulesStay, At
  <1>2. ops[o].got \in {None, o}
      BY <1>1, Before DEF Got
  <1>3. Moves(o, "remove") /\ Keeps(o) /\ ops'[o].got \in {None, o}
    <2>1. CASE Goto(o, "remove")
        BY <1>2, <2>1, GotoMoves, Before DEF Pcs, UsbPcs
    <2>2. CASE ops' = [ops EXCEPT ![o].pc = "remove", ![o].got = None]
        BY <2>2, GotMoves, Before DEF Pcs, UsbPcs
    <2> QED
        BY <2>1, <2>2 DEF Recheck
  <1> QED
      BY <1>1, <1>3, SessionInv DEF RulePcs

\* What taking down the rule of an operation's device may have done: either the
\* operation is left without a rule, or the removal failed.
LEMMA Removal ==
    ASSUME IInv, NEW o \in Ops, Device(o) \in Devices, Removes(o) \/ RemovalFails(o)
    PROVE  /\ rule' \in [Devices -> Ops \cup {None}] /\ crossed' \subseteq Ops
           /\ \A d \in Devices : rule'[d] \in {rule[d], None}
           /\ crossed \subseteq crossed' /\ (Fault \/ faults' = faults)
           /\ Removes(o) => /\ \A d \in Devices : rule'[d] # o
                            /\ rule[Device(o)] # o => crossed' # {}
  <1>1. /\ rule \in [Devices -> Ops \cup {None}] /\ crossed \subseteq Ops
        /\ \A d \in Devices : rule[d] = o => d = Device(o)
      BY Before DEF RestTyped, Made, Device
  <1>2. CASE TakeRule(o)
    <2>1. /\ rule' = [rule EXCEPT ![Device(o)] = None]
          /\ crossed' = IF rule[Device(o)] = o THEN crossed ELSE crossed \cup {o}
        BY <1>2 DEF TakeRule
    <2>2. /\ rule' \in [Devices -> Ops \cup {None}]
          /\ \A d \in Devices : rule'[d] \in {rule[d], None} /\ rule'[d] # o
        BY <1>1, <2>1, Named
    <2> QED
        BY <1>1, <2>1, <2>2 DEF Removes, RemovalFails
  <1>3. CASE ~TakeRule(o)
      BY <1>1, <1>3 DEF Removes, RemovalFails
  <1> QED
      BY <1>2, <1>3

\* An operation that ends with its rule taken down, or still watched.
LEMMA ClosesInv ==
    ASSUME IInv, NEW o \in Ops, ops[o].pc \in RulePcs, Removes(o) \/ RemovalFails(o),
           NEW s \in {"failed", "answered"}, ops' = [ops EXCEPT ![o] = Over(o, s)],
           s = "answered" => Removes(o) /\ ops[o].got = o,
           \/ Removes(o) /\ guard' = [guard EXCEPT ![o] = "done"]
           \/ Drop(o),
           platform' = platform, dev' = dev, late' = late, plugs' = plugs
    PROVE  IInv'
  <1>1. Moves(o, s) /\ Forgets(o) /\ ops'[o].kind = None /\ ops'[o].got = ops[o].got
      BY OverMoves, Before DEF Pcs, Ended
  <1>2. /\ ops[o].device \in Devices /\ Device(o) = ops[o].device
        /\ o \notin late /\ guard[o] = "armed"
        /\ \A d \in Devices : rule[d] = o => d = ops[o].device
      BY InSession DEF Device, RulePcs
  <1>3. /\ \A p \in Ops \ {o} : guard'[p] = guard[p]
        /\ guard' \in [Ops -> {"none", "armed", "retrying", "done", "gave up"}]
        /\ \/ Removes(o)
           \/ guard'[o] = "retrying"
      BY <1>2, Before DEF RestTyped, Drop
  <1>4. /\ rule' \in [Devices -> Ops \cup {None}] /\ crossed' \subseteq Ops
        /\ \A d \in Devices : rule'[d] \in {rule[d], None}
        /\ crossed \subseteq crossed' /\ (Fault \/ faults' = faults)
        /\ Removes(o) => \A d \in Devices : rule'[d] # o
      BY <1>2, Removal
  <1>5. faults' \in 0..MaxFaults
      BY <1>4, FaultsCount, Before
  <1>6. RestTyped'
      BY <1>3, <1>4, <1>5, Before DEF RestTyped
  <1>7. RouteInv(o)'
      BY <1>1, RoutePast, Before DEF Forgets, Pcs, Ended
  <1>8. Placed(o)'
      BY <1>1, <1>2 DEF Placed, Moves, Forgets, UsbPcs, EarlyPcs, RulePcs
  <1>9. Made(o)' /\ Guarded(o)' /\ Got(o)'
    <2>1. \A d \in Devices : rule'[d] = o => d = ops[o].device /\ ~Removes(o)
        BY <1>2, <1>4, Named
    <2>2. s = "answered" => Removes(o) /\ ops[o].got = o
        OBVIOUS
    <2>3. Made(o)'
        BY <1>1, <1>2, <2>1, <2>2 DEF Made, Moves, Forgets
    <2>4. Guarded(o)'
        BY <1>2, <1>3, <2>1 DEF Guarded
    <2>5. Got(o)'
        BY <1>1, <2>2 DEF Got, Moves
    <2> QED
        BY <2>3, <2>4, <2>5
  <1> QED
      BY <1>1, <1>3, <1>4, <1>6, <1>7, <1>8, <1>9, OneSuffices DEF RuleInv

LEMMA RemoveRuleInv == ASSUME IInv, NEW o \in Ops, RemoveRule(o) PROVE IInv'
  <1>1. /\ ops[o].pc = "remove" /\ platform' = platform /\ dev' = dev /\ late' = late
        /\ plugs' = plugs
      BY DEF RemoveRule, At
  <1>2. CASE /\ Removes(o) /\ guard' = [guard EXCEPT ![o] = "done"]
             /\ \/ ops' = [ops EXCEPT ![o] = Over(o, IF ops[o].got = None THEN "failed" ELSE "answered")]
                \/ ops' = [ops EXCEPT ![o] = Over(o, "failed")]
    <2>1. PICK s \in {"failed", "answered"} :
              /\ ops' = [ops EXCEPT ![o] = Over(o, s)]
              /\ s = "answered" => ops[o].got # None
        BY <1>2
    <2>2. ops[o].got \in {None, o}
        BY <1>1, Before DEF Got
    <2> QED
        BY <1>1, <1>2, <2>1, <2>2, ClosesInv DEF RulePcs
  <1>3. CASE RemovalFails(o) /\ Goto(o, "cleanup") /\ UNCHANGED guard
    <2>1. Moves(o, "cleanup") /\ Keeps(o)
        BY <1>3, GotoMoves, Before DEF Pcs, UsbPcs
    <2>2. /\ ops[o].kind = "adb" /\ ops[o].device \in Devices /\ o \notin late
          /\ guard[o] = "armed" /\ Device(o) = ops[o].device
          /\ \A d \in Devices : rule[d] = o => d = ops[o].device
        BY <1>1, InSession DEF Device, RulePcs
    <2>3. /\ rule' \in [Devices -> Ops \cup {None}] /\ crossed' \subseteq Ops
          /\ \A d \in Devices : rule'[d] \in {rule[d], None}
          /\ crossed \subseteq crossed' /\ (Fault \/ faults' = faults)
        BY <1>3, <2>2, Removal
    <2>4. RestTyped'
        BY <1>1, <1>3, <2>3, FaultsCount, Before DEF RestTyped
    <2>5. \A d \in Devices : rule'[d] \in {rule[d], None, o} /\ (rule'[d] = o => d = ops[o].device)
        BY <2>2, <2>3, Named
    <2>6. guard' = [guard EXCEPT ![o] = "armed"]
        BY <1>3, <2>2, StaysArmed
    <2>7. "cleanup" \in RulePcs
        BY DEF RulePcs
    <2> QED
        BY <1>1, <2>1, <2>2, <2>3, <2>4, <2>5, <2>6, <2>7, ArmedInv
  <1> QED
      BY <1>2, <1>3 DEF RemoveRule

LEMMA CleanupInv == ASSUME IInv, NEW o \in Ops, Cleanup(o) PROVE IInv'
  <1>1. ops[o].pc \in RulePcs
      BY DEF Cleanup, At, RulePcs
  <1> QED
      BY <1>1, ClosesInv DEF Cleanup

-----------------------------------------------------------------------------
(* Deaths, guardians and cables. *)

LEMMA DieInv == ASSUME IInv, NEW o \in Ops, Die(o) PROVE IInv'
  <1>1. /\ platform' = platform /\ dev' = dev /\ rule' = rule /\ crossed' = crossed
        /\ faults' = faults /\ plugs' = plugs /\ ops[o].pc # "killed"
        /\ late' = IF At(o, "create") THEN late \cup {o} ELSE late
      BY DEF Die, Ended
  <1>2. Moves(o, "killed") /\ Forgets(o) /\ ops'[o].kind = None
      BY OverMoves, Before DEF Die, Pcs, Ended
  <1>3. /\ guard' \in [Ops -> {"none", "armed", "retrying", "done", "gave up"}]
        /\ \A p \in Ops \ {o} : guard'[p] = guard[p]
        /\ guard[o] \in {"armed", "retrying", "gave up"} => guard'[o] \in {"armed", "retrying", "gave up"}
        /\ guard[o] = "none" => guard'[o] = "none"
      BY Before DEF Die, Drop, RestTyped
  <1>4. RestTyped'
      BY <1>1, <1>3, Before DEF RestTyped
  <1>5. Placed(o) /\ Made(o) /\ Guarded(o)
      BY Before
  <1>6. /\ o \notin late
        /\ o \in late' => /\ guard[o] = "armed" /\ ops[o].device \in Devices
                          /\ \A d \in Devices : rule[d] # o
      BY <1>1, <1>5 DEF Placed, Made, At, UsbPcs, RulePcs
  <1>7. Placed(o)'
      BY <1>2, <1>3, <1>5, <1>6 DEF Placed, Moves, Forgets, UsbPcs, EarlyPcs, RulePcs
  <1>8. Made(o)'
      BY <1>1, <1>2, <1>5, <1>6 DEF Made, Moves, Forgets
  <1>9. Guarded(o)' /\ Got(o)'
      BY <1>1, <1>2, <1>3, <1>5, <1>6 DEF Guarded, Got, Moves
  <1>10. RouteInv(o)'
      BY <1>2, RoutePast, Before DEF Forgets, Pcs, Ended
  <1>11. \A p \in Ops \ {o} : p \in late' <=> p \in late
      BY <1>1
  <1> QED
      BY <1>1, <1>2, <1>3, <1>4, <1>7, <1>8, <1>9, <1>10, <1>11, OneSuffices DEF RuleInv

LEMMA LateCreateInv == ASSUME IInv, NEW o \in Ops, LateCreate(o) PROVE IInv'
  <1>1. /\ o \in late /\ late' = late \ {o} /\ ops' = ops /\ guard' = guard
        /\ crossed' = crossed /\ platform' = platform /\ dev' = dev
        /\ faults' = faults /\ plugs' = plugs
        /\ rule' = IF Online(o) THEN [rule EXCEPT ![Device(o)] = o] ELSE rule
      BY DEF LateCreate
  <1>2. /\ ops[o].pc = "killed" /\ Device(o) \in Devices /\ Device(o) = ops[o].device
        /\ \A d \in Devices : rule[d] # o
      BY <1>1, Before DEF Placed, Made, Device
  <1>3. /\ rule' \in [Devices -> Ops \cup {None}]
        /\ \A d \in Devices : rule'[d] = rule[d] \/ (rule'[d] = o /\ d = ops[o].device)
      BY <1>1, <1>2, Before DEF RestTyped
  <1>4. RestTyped' /\ Moves(o, "killed")
      BY <1>1, <1>2, <1>3, Before DEF RestTyped, Moves, OpsTyped
  <1>5. RouteInv(o)'
      BY <1>1, Before DEF RouteInv, SentBy, Looked, Chosen, Reaches
  <1>6. Placed(o)' /\ Got(o)'
      BY <1>1, <1>2, Before DEF Placed, Got, UsbPcs, EarlyPcs, RulePcs
  <1>7. Made(o)'
      BY <1>1, <1>2, <1>3 DEF Made
  <1>8. Guarded(o)'
      BY <1>1, Before DEF Guarded
  <1> QED
      BY <1>1, <1>3, <1>4, <1>5, <1>6, <1>7, <1>8, OneSuffices DEF RuleInv

LEMMA GuardianInv == ASSUME IInv, NEW o \in Ops, Guardian(o) PROVE IInv'
  <1>1. /\ ops' = ops /\ late' = late /\ platform' = platform /\ dev' = dev /\ plugs' = plugs
        /\ guard[o] = "retrying"
        /\ \/ Removes(o) /\ guard' = [guard EXCEPT ![o] = "done"]
           \/ RemovalFails(o) /\ guard' \in {guard, [guard EXCEPT ![o] = "gave up"]}
      BY DEF Guardian, GuardRemoves, GuardFails
  <1>2. Placed(o) /\ Made(o) /\ Guarded(o) /\ Got(o)
      BY Before
  <1>3. Device(o) \in Devices /\ (o \in late => \A d \in Devices : rule[d] # o)
      BY <1>1, <1>2 DEF Placed, Made, Device
  <1>4. /\ rule' \in [Devices -> Ops \cup {None}] /\ crossed' \subseteq Ops
        /\ \A d \in Devices : rule'[d] \in {rule[d], None}
        /\ crossed \subseteq crossed' /\ (Fault \/ faults' = faults)
        /\ Removes(o) => /\ \A d \in Devices : rule'[d] # o
                         /\ rule[Device(o)] # o => crossed' # {}
      BY <1>1, <1>3, Removal
  <1>5. /\ guard' \in [Ops -> {"none", "armed", "retrying", "done", "gave up"}]
        /\ \A p \in Ops \ {o} : guard'[p] = guard[p]
        /\ guard'[o] # "none" /\ guard'[o] # "armed"
        /\ Removes(o) \/ guard'[o] \in {"retrying", "gave up"}
      BY <1>1, Before DEF RestTyped
  <1>6. RestTyped'
      BY <1>1, <1>4, <1>5, FaultsCount, Before DEF RestTyped
  <1>7. RouteInv(o)'
    <2>1. RouteInv(o)
        BY Before
    <2> QED
        BY <1>1, <2>1 DEF RouteInv, SentBy, Looked, Chosen, Reaches
  <1>8. Placed(o)' /\ Got(o)'
      BY <1>1, <1>2, <1>5 DEF Placed, Got, UsbPcs, EarlyPcs, RulePcs
  <1>9. Made(o)'
      BY <1>1, <1>2, <1>4, Named DEF Made
  <1>10. Guarded(o)'
      BY <1>1, <1>3, <1>4, <1>5, Named DEF Guarded
  <1>11. Moves(o, ops[o].pc)
      BY <1>1, Before DEF Moves, OpsTyped
  <1> QED
      BY <1>1, <1>4, <1>5, <1>6, <1>7, <1>8, <1>9, <1>10, <1>11, OneSuffices DEF RuleInv

LEMMA PlugInv == ASSUME IInv, NEW d \in Devices, Plug(d) PROVE IInv'
  <1>1. PICK s \in {"device", "offline", None} :
            /\ dev' = [dev EXCEPT ![d] = s]
            /\ rule' = IF s = None THEN [rule EXCEPT ![d] = None] ELSE rule
      BY DEF Plug
  <1>2. /\ ops' = ops /\ late' = late /\ crossed' = crossed /\ guard' = guard
        /\ platform' = platform /\ faults' = faults /\ plugs < MaxPlugs /\ plugs' = plugs + 1
      BY DEF Plug
  <1>3. OpsTyped /\ RestTyped
      BY DEF IInv
  <1>4. /\ rule' \in [Devices -> Ops \cup {None}]
        /\ \A e \in Devices : rule'[e] \in {rule[e], None}
        /\ dev' \in [Devices -> {"device", "offline", None}]
      BY <1>1, <1>3 DEF RestTyped
  <1>5. plugs' \in 0..MaxPlugs
    <2>1. MaxPlugs \in Nat
        BY RoutesAssumption
    <2>2. plugs \in 0..MaxPlugs
        BY <1>3 DEF RestTyped
    <2> QED
        BY <1>2, <2>1, <2>2
  <1>6. RestTyped' /\ OpsTyped'
      BY <1>2, <1>3, <1>4, <1>5 DEF RestTyped, OpsTyped
  <1>7. ASSUME NEW p \in Ops PROVE RuleInv(p)' /\ RouteInv(p)'
      BY <1>2, <1>4, Untouched, Named DEF IInv
  <1> QED
      BY <1>6, <1>7 DEF IInv

LEMMA StutterInv == IInv /\ UNCHANGED vars => IInv'
  <1> SUFFICES ASSUME IInv, UNCHANGED vars PROVE IInv'
      OBVIOUS
  <1>1. /\ ops' = ops /\ late' = late /\ crossed' = crossed /\ guard' = guard /\ rule' = rule
        /\ platform' = platform /\ dev' = dev /\ faults' = faults /\ plugs' = plugs
      BY DEF vars
  <1>2. RestTyped' /\ OpsTyped'
      BY <1>1 DEF IInv, RestTyped, OpsTyped
  <1>3. ASSUME NEW p \in Ops PROVE RuleInv(p)' /\ RouteInv(p)'
      BY <1>1, Untouched DEF IInv
  <1> QED
      BY <1>2, <1>3 DEF IInv

LEMMA StepInv == IInv /\ [Next]_vars => IInv'
  <1> SUFFICES ASSUME IInv, [Next]_vars PROVE IInv'
      OBVIOUS
  <1>1. ASSUME NEW o \in Ops, Start(o) \/ Discovery(o) PROVE IInv'
      BY <1>1, StartInv, HearInv, DiscoveryEndsInv, DiscoveryFailsInv DEF Discovery
  <1>2. ASSUME NEW o \in Ops, Session(o) PROVE IInv'
      BY <1>2, ConnectInv, SelectInv, PreflightInv, ListRulesInv, ArmInv, CreateInv, LaunchInv,
         AcceptInv, ConfirmInv, ExchangeInv, RecheckInv, RemoveRuleInv, CleanupInv DEF Session
  <1>3. ASSUME NEW o \in Ops, Die(o) \/ LateCreate(o) \/ Guardian(o) PROVE IInv'
      BY <1>3, DieInv, LateCreateInv, GuardianInv
  <1>4. ASSUME NEW o \in Ops, NEW m \in Answers, Answer(o, m) PROVE IInv'
      BY <1>4, AnswerInv
  <1>5. ASSUME NEW d \in Devices, Plug(d) PROVE IInv'
      BY <1>5, PlugInv
  <1>6. CASE UNCHANGED vars
      BY <1>6, StutterInv
  <1> QED
      BY <1>1, <1>2, <1>3, <1>4, <1>5, <1>6 DEF Next

LEMMA AlwaysInv == Spec => []IInv
  BY InitInv, StepInv, PTL DEF Spec

-----------------------------------------------------------------------------
\* Operations, devices, rules and guardians keep their types.
THEOREM TypeCorrect == Spec => []TypeOK
  <1>1. IInv => TypeOK
      BY DEF IInv, OpsTyped, RestTyped, TypeOK, Op, Pcs, EarlyPcs, UsbPcs
  <1> QED
      BY <1>1, AlwaysInv, PTL

\* An operation never leaves the route its user named (resolve_transport,
\* identity_route_options).
THEOREM RouteStays == Spec => []RouteIsChosen
  <1>1. IInv => RouteIsChosen
      BY DEF IInv, RouteInv, Chosen, RouteIsChosen
  <1> QED
      BY <1>1, AlwaysInv, PTL

\* An unwrap that looked for its phone connects only if that phone answered this
\* query, and to an address that sent its signature (discover_with_io).
THEOREM OnlyIfPhoneAnswered == Spec => []OwnPhoneAnswered
  <1>1. IInv => OwnPhoneAnswered
      BY DEF IInv, RouteInv, SentBy, Reaches, OwnPhoneAnswered, At
  <1> QED
      BY <1>1, AlwaysInv, PTL

\* A reverse rule is never left to nobody (connect, cleanup_created_rule, Drop).
THEOREM RulesAreGuarded == Spec => []RuleGuarded
  <1>1. ASSUME IInv PROVE RuleGuarded
    <2>1. ASSUME NEW d \in Devices, rule[d] # None, crossed = {}
          PROVE  guard[rule[d]] \in {"armed", "retrying", "gave up"}
      <3>1. rule[d] \in Ops
          BY <1>1, <2>1 DEF IInv, RestTyped
      <3> QED
          BY <1>1, <2>1, <3>1 DEF IInv, RuleInv, Guarded
    <2> QED
        BY <2>1 DEF RuleGuarded
  <1> QED
      BY <1>1, AlwaysInv, PTL

\* An answered operation has its own frame and no rule any more (exchange).
THEOREM AnswersAreClean == Spec => []AnsweredClean
  <1>1. ASSUME IInv PROVE AnsweredClean
    <2>1. ASSUME NEW o \in Ops, At(o, "answered")
          PROVE  ops[o].got = o /\ \A d \in Devices : rule[d] # o
        BY <1>1, <2>1 DEF IInv, RuleInv, Made, Got, At, RulePcs
    <2> QED
        BY <2>1 DEF AnsweredClean
  <1> QED
      BY <1>1, AlwaysInv, PTL

-----------------------------------------------------------------------------
(* The QR transfer: another way to the phone and a system of its own, with *)
(* its own constants and variables.  Whatever a scan delivers is whole and  *)
(* fresh: the invariant says that the chunks of an assembly were all        *)
(* caught within its age limit from its start.                              *)

\* No chunk is older than the assembly, or younger than it may become.
Fresh ==
    \A i \in Indices :
        got[i] # Nothing => since <= caught[i] /\ caught[i] <= since + MaxAge

\* An assembly that has not begun has no chunks.
Started == from = Nothing => got = NoChunks

\* Neither began, nor was watched, before time did.
Past == since <= clock /\ steady <= clock

ScanInv == ScanTypeOK /\ Fresh /\ Started /\ Past /\ DeliveredWhole

LEMMA ScanInitInv == ASSUME ScanInit PROVE ScanInv
  <1> USE QrAssumption
  <1>1. 0 \in Indices /\ 0 \in 0 .. MaxTime
      BY DEF Indices
  <1>2. ScanTypeOK
      BY <1>1 DEF ScanInit, ScanTypeOK, NoChunks, Indices
  <1> QED
      BY <1>2 DEF ScanInit, ScanInv, Fresh, Started, Past, DeliveredWhole, NoChunks, Indices

\* A chunk stored into an assembly that is not too old keeps the invariant.
LEMMA ScanStoreInv ==
    ASSUME ScanInv, phase = "scanning",
           NEW chunks \in [Indices -> Chunks \cup {Nothing}], NEW c \in Chunks,
           showing \in Transfers,
           since' \in 0 .. MaxTime, since' <= clock, clock <= since' + MaxAge,
           \A i \in Indices : chunks[i] # Nothing =>
               since' <= caught[i] /\ caught[i] <= since' + MaxAge,
           Store(chunks, c), seen' \in BOOLEAN,
           UNCHANGED <<receiver, sender, clock, poisoned, steady>>
    PROVE  ScanInv'
  <1> USE QrAssumption
  <1> DEFINE stored == [chunks EXCEPT ![index] = c]
  <1>1. index \in Indices /\ clock \in 0 .. MaxTime /\ Indices' = Indices
      BY DEF ScanInv, ScanTypeOK, Indices
  <1>2. stored \in [Indices -> Chunks \cup {Nothing}]
      BY <1>1
  <1>3. got' = stored /\ caught' = [caught EXCEPT ![index] = clock] /\ from' = showing
      BY DEF Store
  <1>4. caught' \in [Indices -> 0 .. MaxTime]
      BY <1>1, <1>3 DEF ScanInv, ScanTypeOK
  <1>5. Fresh'
      <2> SUFFICES ASSUME NEW i \in Indices, got'[i] # Nothing
                   PROVE  since' <= caught'[i] /\ caught'[i] <= since' + MaxAge
          BY <1>1 DEF Fresh
      <2>1. CASE i = index
          BY <2>1, <1>1, <1>3 DEF ScanInv, ScanTypeOK
      <2>2. CASE i # index
          BY <2>2, <1>1, <1>3 DEF ScanInv, ScanTypeOK
      <2> QED
          BY <2>1, <2>2
  <1>6. CASE \E i \in Indices : stored[i] = Nothing
      <2>1. UNCHANGED scan
          BY <1>6 DEF Store
      <2> QED
          BY <2>1, <1>1, <1>2, <1>3, <1>4, <1>5
             DEF ScanInv, ScanTypeOK, Started, Past, DeliveredWhole, scan, sender
  <1>7. CASE ~(\E i \in Indices : stored[i] = Nothing) /\ ~DigestMatches(stored)
      <2>1. FailScan("invalid")
          BY <1>7 DEF Store
      <2> QED
          BY <2>1, <1>1, <1>2, <1>3, <1>4, <1>5
             DEF ScanInv, ScanTypeOK, Started, Past, DeliveredWhole, FailScan, sender
  <1>8. CASE ~(\E i \in Indices : stored[i] = Nothing) /\ DigestMatches(stored)
      <2>1. phase' = "done" /\ result' = stored /\ UNCHANGED reason
          BY <1>8 DEF Store
      <2>2. \A i, j \in Indices : caught'[i] - caught'[j] <= MaxAge
          <3> TAKE i, j \in Indices
          <3>1. got'[i] # Nothing /\ got'[j] # Nothing
              BY <1>3, <1>8
          <3>2. caught'[i] <= since' + MaxAge /\ since' <= caught'[j]
              BY <3>1, <1>1, <1>5 DEF Fresh
          <3>3. caught'[i] \in Nat /\ caught'[j] \in Nat /\ since' \in Nat
              BY <1>4
          <3> QED
              BY <3>2, <3>3
      <2>3. DeliveredWhole'
          BY <2>1, <2>2, <1>1, <1>8 DEF DeliveredWhole, DigestMatches
      <2> QED
          BY <2>1, <2>3, <1>1, <1>2, <1>3, <1>4, <1>5
             DEF ScanInv, ScanTypeOK, Started, Past, sender
  <1> QED
      BY <1>6, <1>7, <1>8

\* Steps that leave the assembly and the result as they are.
LEMMA ScanQuietInv ==
    ASSUME ScanInv, UNCHANGED <<assembly, result>>, ScanTypeOK', Past', phase' = phase \/ phase' = "failed"
    PROVE  ScanInv'
  <1>1. Indices' = Indices
      BY DEF Indices
  <1> QED
      BY <1>1 DEF ScanInv, Fresh, Started, DeliveredWhole, assembly

\* Every action keeps the invariant; Fragment and Outdated store a chunk.
LEMMA ScanNextInv == ScanInv /\ [ScanNext]_scanVars => ScanInv'
  <1> USE QrAssumption
  <1> SUFFICES ASSUME ScanInv, [ScanNext]_scanVars
               PROVE  ScanInv'
      OBVIOUS
  <1>0. 0 \in Indices /\ 0 \in 0 .. MaxTime
      BY DEF Indices
  <1>1. CASE Tick
      <2>1. (index + 1) % Count \in Indices
          BY DEF Indices, ScanInv, ScanTypeOK
      <2>2. clock' \in 0 .. MaxTime /\ clock' = clock + 1
          BY <1>1 DEF Tick, ScanInv, ScanTypeOK
      <2>3. steady' \in 0 .. MaxTime /\ Past'
          BY <1>1, <2>2 DEF Tick, ScanInv, ScanTypeOK, Past, assembly
      <2>4. ScanTypeOK'
          BY <1>1, <2>1, <2>2, <2>3 DEF Tick, ScanInv, ScanTypeOK, Indices, assembly, scan
      <2> QED
          BY <1>1, <2>3, <2>4, ScanQuietInv DEF Tick, assembly, scan
  <1>2. ASSUME NEW t \in Transfers, Restart(t)
        PROVE  ScanInv'
      <2>1. ScanTypeOK'
          BY <1>0, <1>2 DEF Restart, ScanInv, ScanTypeOK, Indices, assembly, scan
      <2> QED
          BY <1>2, <2>1, ScanQuietInv DEF Restart, ScanInv, ScanTypeOK, Past, assembly, scan
  <1>3. CASE Hide
      <2>1. ScanTypeOK'
          BY <1>0, <1>3 DEF Hide, ScanInv, ScanTypeOK, Indices, assembly, scan
      <2> QED
          BY <1>3, <2>1, ScanQuietInv DEF Hide, ScanInv, ScanTypeOK, Past, assembly, scan
  <1>4. ASSUME NEW c \in Chunks, Fragment(c)
        PROVE  ScanInv'
      <2>1. showing \in Transfers /\ phase = "scanning" /\ seen' \in BOOLEAN
          BY <1>4 DEF Fragment, Catches, ScanInv, ScanTypeOK
      <2>2. /\ since' \in 0 .. MaxTime /\ since' <= clock
            /\ clock <= since' + MaxAge
          BY <1>4 DEF Fragment, Collects, TooOld, ScanInv, ScanTypeOK, Past
      <2>3. \A i \in Indices : got[i] # Nothing =>
                since' <= caught[i] /\ caught[i] <= since' + MaxAge
          BY <1>4 DEF Fragment, ScanInv, Fresh, Started, NoChunks
      <2> QED
          BY <1>4, <2>1, <2>2, <2>3, ScanStoreInv DEF Fragment, ScanInv, ScanTypeOK
  <1>5. ASSUME NEW c \in Chunks, Outdated(c)
        PROVE  ScanInv'
      <2>1. showing \in Transfers /\ phase = "scanning" /\ seen' \in BOOLEAN
          BY <1>5 DEF Outdated, Catches, ScanInv, ScanTypeOK
      <2>2. CASE receiver = "desktop"
          <3>1. since' = clock /\ Store(NoChunks, c)
              BY <1>5, <2>2 DEF Outdated
          <3>2. NoChunks \in [Indices -> Chunks \cup {Nothing}] /\ \A i \in Indices : NoChunks[i] = Nothing
              BY DEF NoChunks
          <3> QED
              BY <1>5, <2>1, <3>1, <3>2, ScanStoreInv DEF Outdated, ScanInv, ScanTypeOK
      <2>3. CASE receiver # "desktop"
          <3>1. FailScan("timeout") /\ UNCHANGED assembly
              BY <1>5, <2>3 DEF Outdated, assembly
          <3>2. ScanTypeOK'
              BY <1>5, <2>1, <3>1 DEF Outdated, FailScan, ScanInv, ScanTypeOK, Indices, assembly, sender
          <3> QED
              BY <1>5, <3>1, <3>2, ScanQuietInv DEF Outdated, FailScan, ScanInv, Past, assembly
      <2> QED
          BY <2>2, <2>3
  <1>6. ASSUME NEW c \in Chunks, Overflow(c)
        PROVE  ScanInv'
      <2>1. from' = Nothing /\ got' = NoChunks /\ caught' = caught /\ since' = since
          BY <1>6 DEF Overflow
      <2>2. phase = "scanning" /\ phase' \in {"scanning", "failed"} /\ result' = result
          BY <1>6 DEF Overflow, Catches, FailScan, scan
      <2>3. ScanTypeOK'
          BY <1>6, <2>1, <2>2
             DEF Overflow, Catches, FailScan, ScanInv, ScanTypeOK, Indices, NoChunks, sender, scan
      <2> QED
          BY <1>6, <2>1, <2>2, <2>3
             DEF Overflow, ScanInv, Fresh, Started, Past, DeliveredWhole, NoChunks, Indices
  <1>7. ASSUME NEW c \in Chunks, Again(c) \/ Foreign(c)
        PROVE  ScanInv'
      <2>1. ScanTypeOK'
          BY <1>7 DEF Again, Foreign, Catches, FailScan, ScanInv, ScanTypeOK, Indices, assembly, sender, scan
      <2> QED
          BY <1>7, <2>1, ScanQuietInv
             DEF Again, Foreign, Catches, FailScan, ScanInv, Past, assembly, scan
  <1>8. CASE Poisoned \/ Expires \/ Ends \/ CameraFails
      <2>1. /\ UNCHANGED <<receiver, sender, clock, assembly, seen, steady, result>>
            /\ phase' = "failed"
            /\ reason' \in {"invalid", "timeout", "cancelled", "deadline", "camera"}
          BY <1>8 DEF Poisoned, Expires, Ends, CameraFails, FailScan
      <2>2. ScanTypeOK'
          BY <2>1 DEF ScanInv, ScanTypeOK, Indices, assembly, sender
      <2> QED
          BY <2>1, <2>2, ScanQuietInv DEF ScanInv, Past, assembly
  <1>9. CASE UNCHANGED scanVars
      <2>1. ScanTypeOK'
          BY <1>9 DEF scanVars, ScanInv, ScanTypeOK, Indices, assembly, sender, scan
      <2> QED
          BY <1>9, <2>1, ScanQuietInv DEF scanVars, ScanInv, Past, assembly, scan
  <1> QED
      BY <1>1, <1>2, <1>3, <1>4, <1>5, <1>6, <1>7, <1>8, <1>9 DEF ScanNext

-----------------------------------------------------------------------------
\* A delivered message is what an honest sender showed, caught within the age limit,
\* whatever was shown, missed, repeated or begun anew meanwhile (QrReassembler::push,
\* ScanSession::push and their Kotlin and Swift twins).
THEOREM WholeAndFresh == ScanSpec => []DeliveredWhole
  <1>1. ScanInv => DeliveredWhole
      BY DEF ScanInv
  <1> QED
      BY ScanInitInv, ScanNextInv, <1>1, PTL DEF ScanSpec

\* The scan and its assembly keep their types.
THEOREM ScanTypeCorrect == ScanSpec => []ScanTypeOK
  <1>1. ScanInv => ScanTypeOK
      BY DEF ScanInv
  <1> QED
      BY ScanInitInv, ScanNextInv, <1>1, PTL DEF ScanSpec

-----------------------------------------------------------------------------
(* A steady camera is served. *)

\* Ticks since a frame was last shown.
Ago(i) == IF i <= index THEN index - i ELSE index - i + Count

\* The tick at which the camera began to see every frame, and how many it has.
StreakStart == clock - steady
LastSeen == IF seen THEN 0 ELSE 1
InStreak == seen \/ steady > 0

\* What is caught of an honest transfer is right.
Honest ==
    from \notin Faulty => \A i \in Indices : got[i] \in {"right", Nothing}

\* While the assembly is of the transfer that is shown: it has every frame of the
\* streak, it was begun soon in it or before it, and it is not whole.
Catching ==
    /\ \A i \in Indices :
         LastSeen <= Ago(i) /\ Ago(i) <= steady /\ since <= clock - Ago(i)
             => got[i] # Nothing
    /\ since - StreakStart <= MaxAge + 1
    /\ clock - since + 1 - LastSeen < Count \/ steady + 1 - LastSeen < Count

\* While it is of another: it is as old as the streak, and will be given up.
Awaiting ==
    /\ since <= StreakStart
    /\ clock - since <= MaxAge + LastSeen

Whole == \A i \in Indices : got[i] # Nothing

Streak ==
    receiver = "desktop" /\ phase = "scanning" /\ showing \notin Faulty /\ InStreak =>
        /\ ~poisoned /\ from # Nothing
        /\ from = showing => Catching
        /\ from # showing => Awaiting

SteadyInv == ScanInv /\ Honest /\ Streak /\ (phase = "scanning" => ~Whole)

LEMMA Rolls ==
    ASSUME ScanTypeOK
    PROVE  (index + 1) % Count = IF index + 1 = Count THEN 0 ELSE index + 1
  <1>1. Count \in Nat /\ Count > 0 /\ index \in Nat /\ index < Count
      BY QrAssumption DEF ScanTypeOK, Indices
  <1>2. CASE index + 1 = Count
    <2>1. Count % Count = 0
        BY <1>1
    <2> QED
        BY <1>2, <2>1
  <1>3. CASE index + 1 < Count
    <2>1. ASSUME NEW k \in Nat, k < Count PROVE k % Count = k
        BY <1>1, <2>1
    <2>2. index + 1 \in Nat
        BY <1>1
    <2> QED
        BY <1>3, <2>1, <2>2
  <1> QED
      BY <1>1, <1>2, <1>3

\* How long ago frames were shown, as time goes on.
LEMMA AgoTicks ==
    ASSUME ScanTypeOK, NEW i \in Indices
    PROVE  /\ Ago(i) \in 0 .. Count - 1
           /\ Ago(i) = 0 <=> i = index
           /\ index' = (index + 1) % Count =>
                  Ago(i)' = IF i = index' THEN 0 ELSE Ago(i) + 1
  <1>1. Count \in Nat /\ Count > 0 /\ index \in 0 .. Count - 1 /\ i \in 0 .. Count - 1
      BY QrAssumption DEF ScanTypeOK, Indices
  <1>2. Ago(i) \in 0 .. Count - 1 /\ (Ago(i) = 0 <=> i = index)
      BY <1>1 DEF Ago
  <1>3. ASSUME index' = (index + 1) % Count
        PROVE  Ago(i)' = IF i = index' THEN 0 ELSE Ago(i) + 1
    <2>1. index' = IF index + 1 = Count THEN 0 ELSE index + 1
        BY <1>3, Rolls
    <2> QED
        BY <1>1, <2>1 DEF Ago
  <1> QED
      BY <1>2, <1>3

\* A round of frames seen one after another leaves none out.
LEMMA Covered ==
    ASSUME SteadyInv, Catching, seen,
           steady + 1 >= Count, clock - since + 1 >= Count
    PROVE  Whole
  <1> SUFFICES ASSUME NEW i \in Indices PROVE got[i] # Nothing
      BY DEF Whole
  <1>1. /\ clock \in Nat /\ since \in Nat /\ steady \in Nat /\ Count \in Nat
        /\ Ago(i) \in 0 .. Count - 1
      BY QrAssumption, AgoTicks DEF SteadyInv, ScanInv, ScanTypeOK
  <1> QED
      BY <1>1 DEF Catching, LastSeen

\* A chunk that does not belong to an honest animation cannot be in it.
LEMMA NoOverflow ==
    ASSUME SteadyInv, showing \notin Faulty, from \in {Nothing, showing}, index \in Indices
    PROVE  Bytes([got EXCEPT ![index] = "right"]) <= Count
  <1> DEFINE stored == [got EXCEPT ![index] = "right"]
             short == {i \in Indices : stored[i] \in {"right", "wrong"}}
  <1>1. \A i \in Indices : stored[i] \in {"right", Nothing}
    <2>1. \A i \in Indices : got[i] \in {"right", Nothing}
        BY DEF SteadyInv, Honest, ScanInv, Started, NoChunks
    <2> QED
        BY <2>1 DEF SteadyInv, ScanInv, ScanTypeOK
  <1>2. "long" \notin {"right", Nothing}
      BY QrAssumption DEF Chunks
  <1>3. {i \in Indices : stored[i] = "long"} = {}
      BY <1>1, <1>2
  <1>4. IsFiniteSet(Indices) /\ Cardinality(Indices) = Count
      BY QrAssumption, FS_Interval DEF Indices
  <1>5. Cardinality(short) \in Nat /\ Cardinality(short) <= Count
      BY <1>4, FS_Subset, FS_CardinalityType
  <1>6. Cardinality({i \in Indices : stored[i] = "long"}) = 0
      BY <1>3, FS_EmptySet
  <1> HIDE DEF stored
  <1>7. Bytes(stored) = Cardinality(short) + Count * 0
      BY <1>6 DEF Bytes
  <1> QED
      BY <1>5, <1>7, QrAssumption DEF stored

LEMMA SteadyIsServedNow == ASSUME Count <= MaxAge + 1, SteadyInv PROVE SteadyDelivers
  <1> SUFFICES ASSUME receiver = "desktop", phase = "scanning", showing \notin Faulty
               PROVE  steady <= MaxAge + Count
      BY DEF SteadyDelivers
  <1>1. /\ clock \in Nat /\ since \in Nat /\ steady \in Nat /\ since <= clock
        /\ Count \in Nat \ {0} /\ MaxAge \in Nat
      BY QrAssumption DEF SteadyInv, ScanInv, ScanTypeOK, Past
  <1>2. CASE ~InStreak
      BY <1>1, <1>2 DEF InStreak
  <1>3. CASE InStreak /\ from = showing
      BY <1>1, <1>3 DEF SteadyInv, Streak, Catching, LastSeen, StreakStart
  <1>4. CASE InStreak /\ from # showing
      BY <1>1, <1>4 DEF SteadyInv, Streak, Awaiting, LastSeen, StreakStart
  <1> QED
      BY <1>2, <1>3, <1>4

LEMMA SteadyInit == ScanInit => SteadyInv
  <1> SUFFICES ASSUME ScanInit PROVE SteadyInv
      OBVIOUS
  <1>1. ScanInv
      BY ScanInitInv
  <1>2. 0 \in Indices
      BY QrAssumption DEF Indices
  <1> QED
      BY <1>1, <1>2 DEF ScanInit, SteadyInv, Honest, Streak, InStreak, Whole, NoChunks

\* The camera sees the frame that is shown, and the assembly has it.
LEMMA Sees ==
    ASSUME SteadyInv, ScanTypeOK', UNCHANGED <<clock, index, steady>>, seen', ~Whole',
           \A i \in Indices :
               Ago(i) <= steady /\ since' <= clock - Ago(i) => got'[i] # Nothing,
           since' <= clock, since' - StreakStart <= MaxAge + 1
    PROVE  Catching'
  <1>0. \A i \in Indices : Ago(i) \in 0 .. Count - 1
      BY AgoTicks DEF SteadyInv, ScanInv
  <1>1. clock \in Nat /\ since' \in Nat /\ steady \in Nat /\ Count \in Nat
      BY QrAssumption DEF SteadyInv, ScanInv, ScanTypeOK
  <1>2. /\ LastSeen' = 0 /\ StreakStart' = StreakStart /\ Indices' = Indices
        /\ \A i \in Indices : Ago(i)' = Ago(i)
      BY DEF LastSeen, StreakStart, Ago, Indices
  <1>3. PICK i \in Indices : got'[i] = Nothing
      BY <1>2 DEF Whole
  <1>4. Ago(i) \in 0 .. Count - 1 /\ (~(Ago(i) <= steady) \/ ~(since' <= clock - Ago(i)))
      BY <1>0, <1>3
  <1>5. clock - since' + 1 - 0 < Count \/ steady + 1 - 0 < Count
    <2>1. ASSUME NEW start \in Nat, NEW ago \in 0 .. Count - 1,
                 ~(ago <= steady) \/ ~(start <= clock - ago)
          PROVE  clock - start + 1 - 0 < Count \/ steady + 1 - 0 < Count
        BY <1>1, <2>1
    <2> QED
        BY <1>1, <1>4, <2>1
  <1>6. /\ \A k \in Indices' : LastSeen' <= Ago(k)' /\ Ago(k)' <= steady' /\ since' <= clock' - Ago(k)'
                => got'[k] # Nothing
        /\ since' - StreakStart' <= MaxAge + 1
      BY <1>2
  <1>7. clock' - since' + 1 - LastSeen' < Count \/ steady' + 1 - LastSeen' < Count
      BY <1>2, <1>5
  <1> QED
      BY <1>6, <1>7 DEF Catching

\* A chunk is stored in an assembly of the transfer that is shown.
LEMMA StoreSteady ==
    ASSUME SteadyInv, ScanInv', NEW chunks \in [Indices -> Chunks \cup {Nothing}],
           NEW c \in Chunks, Store(chunks, c), seen', poisoned' = poisoned, ~poisoned,
           showing # Nothing, showing \notin Faulty => c = "right",
           UNCHANGED <<receiver, showing, clock, index, steady>>,
           showing \notin Faulty => \A i \in Indices : chunks[i] \in {"right", Nothing},
           receiver = "desktop" /\ showing \notin Faulty =>
               /\ \A i \in Indices \ {index} :
                      Ago(i) <= steady /\ since' <= clock - Ago(i) => chunks[i] # Nothing
               /\ since' <= clock /\ since' - StreakStart <= MaxAge + 1
    PROVE  SteadyInv'
  <1>1. Indices' = Indices /\ index \in Indices
      BY DEF Indices, SteadyInv, ScanInv, ScanTypeOK
  <1>2. /\ got' = [chunks EXCEPT ![index] = c] /\ from' = showing
        /\ phase' = "scanning" => \E i \in Indices : got'[i] = Nothing
      BY DEF Store, FailScan
  <1>3. phase' = "scanning" => ~Whole'
      BY <1>1, <1>2 DEF Whole
  <1>4. Honest'
      BY <1>1, <1>2 DEF Honest
  <1>5. ASSUME receiver' = "desktop", phase' = "scanning", showing' \notin Faulty
        PROVE  Catching'
    <2>1. c # Nothing
        BY QrAssumption
    <2>2. \A i \in Indices : Ago(i) <= steady /\ since' <= clock - Ago(i) => got'[i] # Nothing
        BY <1>1, <1>2, <1>5, <2>1
    <2> QED
        BY <1>3, <1>5, <2>2, Sees DEF ScanInv
  <1>6. Streak'
      BY <1>2, <1>5 DEF Streak
  <1> QED
      BY <1>3, <1>4, <1>6 DEF SteadyInv

\* Without a streak, or a scan, there is nothing to keep.
LEMMA NoStreak ==
    ASSUME SteadyInv, ScanInv', got' = got, from' = from,
           phase' \in {phase, "failed"}, phase' = "failed" \/ ~InStreak'
    PROVE  SteadyInv'
  <1>1. Indices' = Indices
      BY DEF Indices
  <1> QED
      BY <1>1 DEF SteadyInv, Honest, Streak, Whole

LEMMA TickSteady == ASSUME SteadyInv, ScanInv', Tick PROVE SteadyInv'
  <1>1. CASE ~seen
      BY <1>1, NoStreak DEF Tick, InStreak, assembly, scan
  <1>2. CASE seen
    <2>1. /\ clock' = clock + 1 /\ steady' = steady + 1 /\ seen' = FALSE
          /\ index' = (index + 1) % Count
          /\ UNCHANGED <<receiver, showing, from, since, got, poisoned, phase>>
        BY <1>2 DEF Tick, assembly, scan
    <2>2. /\ clock \in Nat /\ since \in Nat /\ steady \in Nat /\ Count \in Nat \ {0}
          /\ MaxAge \in Nat
        BY QrAssumption DEF SteadyInv, ScanInv, ScanTypeOK
    <2>7. Indices' = Indices
        BY DEF Indices
    <2>8. \A i \in Indices : /\ Ago(i) \in 0 .. Count - 1
                             /\ Ago(i)' = IF i = index' THEN 0 ELSE Ago(i) + 1
        BY <2>1, AgoTicks DEF SteadyInv, ScanInv
    <2>3. LastSeen = 0 /\ LastSeen' = 1 /\ StreakStart' = StreakStart
        BY <1>2, <2>1, <2>2 DEF LastSeen, StreakStart
    <2>4. Catching => Catching'
        BY <2>1, <2>2, <2>3, <2>7, <2>8 DEF Catching, StreakStart
    <2>5. Awaiting => Awaiting'
        BY <2>1, <2>2, <2>3 DEF Awaiting, StreakStart
    <2>6. Streak'
        BY <1>2, <2>1, <2>4, <2>5 DEF SteadyInv, Streak, InStreak
    <2> QED
        BY <2>1, <2>6, <2>7 DEF SteadyInv, Honest, Whole
  <1> QED
      BY <1>1, <1>2

LEMMA FragmentSteady == ASSUME SteadyInv, ScanInv', NEW c \in Chunks, Fragment(c) PROVE SteadyInv'
  <1>1. /\ Store(got, c) /\ seen' /\ ~poisoned /\ showing # Nothing
        /\ showing \notin Faulty => c = "right"
        /\ UNCHANGED <<receiver, showing, clock, index, steady, poisoned>>
        /\ since' = IF from = Nothing THEN clock ELSE since
        /\ phase = "scanning" /\ Collects
      BY DEF Fragment, Catches, sender
  <1>2. /\ clock \in Nat /\ since \in Nat /\ steady \in Nat /\ MaxAge \in Nat /\ steady <= clock
        /\ since <= clock /\ index \in Indices
        /\ \A i \in Indices : Ago(i) \in Nat /\ (Ago(i) = 0 <=> i = index)
        /\ got \in [Indices -> Chunks \cup {Nothing}]
      BY QrAssumption, AgoTicks DEF SteadyInv, ScanInv, ScanTypeOK, Past
  <1>3. showing \notin Faulty => \A i \in Indices : got[i] \in {"right", Nothing}
      BY <1>1 DEF Collects, SteadyInv, Honest, ScanInv, Started, NoChunks
  <1>4. ASSUME receiver = "desktop", showing \notin Faulty
        PROVE  /\ \A i \in Indices \ {index} :
                      Ago(i) <= steady /\ since' <= clock - Ago(i) => got[i] # Nothing
               /\ since' <= clock /\ since' - StreakStart <= MaxAge + 1
    <2>1. CASE from = Nothing
      <3>1. ~InStreak
          BY <1>1, <1>4, <2>1 DEF SteadyInv, Streak
      <3>2. steady = 0
          BY <1>2, <3>1 DEF InStreak
      <3> QED
          BY <1>1, <1>2, <2>1, <3>2 DEF StreakStart
    <2>2. CASE from # Nothing /\ InStreak
      <3>1. Catching /\ since' = since /\ LastSeen <= 1 /\ LastSeen \in Nat
          BY <1>1, <1>4, <2>2 DEF Collects, SteadyInv, Streak, LastSeen
      <3> QED
          BY <1>2, <3>1 DEF Catching
    <2>3. CASE from # Nothing /\ ~InStreak
      <3>1. steady = 0 /\ since' = since
          BY <1>1, <1>2, <2>3 DEF InStreak
      <3> QED
          BY <1>2, <3>1 DEF StreakStart
    <2> QED
        BY <2>1, <2>2, <2>3
  <1> QED
      BY <1>1, <1>2, <1>3, <1>4, StoreSteady

\* The frame was caught before.
LEMMA AgainSteady == ASSUME SteadyInv, ScanInv', NEW c \in Chunks, Again(c) PROVE SteadyInv'
  <1>1. /\ seen' /\ ~poisoned /\ showing # Nothing /\ phase = "scanning" /\ Collects
        /\ got[index] # Nothing /\ phase' \in {phase, "failed"}
        /\ UNCHANGED <<receiver, showing, clock, index, steady, from, since, got, poisoned>>
      BY DEF Again, Catches, FailScan, scan, sender, assembly
  <1>2. CASE phase' = "failed"
      BY <1>1, <1>2, NoStreak
  <1>3. CASE phase' # "failed" /\ receiver = "desktop" /\ showing \notin Faulty
    <2>1. /\ clock \in Nat /\ since \in Nat /\ steady \in Nat /\ MaxAge \in Nat
          /\ steady <= clock /\ since <= clock /\ index \in Indices
        BY QrAssumption DEF SteadyInv, ScanInv, ScanTypeOK, Past
    <2>7. Indices' = Indices
        BY DEF Indices
    <2>8. \A i \in Indices : Ago(i) \in Nat /\ (Ago(i) = 0 <=> i = index)
        BY AgoTicks DEF SteadyInv, ScanInv
    <2>2. from = showing
        BY <1>1, <2>1 DEF Collects, SteadyInv, ScanInv, Started, NoChunks
    <2>3. ~Whole'
        BY <1>1, <2>7 DEF SteadyInv, Whole
    <2>4. /\ \A i \in Indices :
                 Ago(i) <= steady /\ since' <= clock - Ago(i) => got'[i] # Nothing
          /\ since' - StreakStart <= MaxAge + 1
      <3>1. CASE InStreak
        <4>1. Catching /\ LastSeen <= 1 /\ LastSeen \in Nat
            BY <1>3, <1>1, <2>2, <3>1 DEF SteadyInv, Streak, LastSeen
        <4> QED
            BY <1>1, <2>1, <2>8, <4>1 DEF Catching
      <3>2. CASE ~InStreak
        <4>1. steady = 0
            BY <2>1, <3>2 DEF InStreak
        <4> QED
            BY <1>1, <2>1, <2>8, <4>1 DEF StreakStart
      <3> QED
          BY <3>1, <3>2
    <2>5. Catching'
        BY <1>1, <2>1, <2>3, <2>4, Sees DEF ScanInv
    <2>6. Streak'
        BY <1>1, <2>2, <2>5 DEF Streak
    <2> QED
        BY <1>1, <2>3, <2>6, <2>7 DEF SteadyInv, Honest
  <1>4. CASE phase' # "failed" /\ ~(receiver = "desktop" /\ showing \notin Faulty)
    <2>1. Streak'
        BY <1>1, <1>4 DEF Streak
    <2>2. Indices' = Indices
        BY DEF Indices
    <2> QED
        BY <1>1, <2>1, <2>2 DEF SteadyInv, Honest, Whole
  <1> QED
      BY <1>2, <1>3, <1>4

\* The frame of another transfer than that of the assembly, which is not too old.
LEMMA ForeignSteady == ASSUME SteadyInv, ScanInv', NEW c \in Chunks, Foreign(c) PROVE SteadyInv'
  <1>1. /\ seen' /\ ~poisoned /\ phase = "scanning" /\ ~Collects /\ ~TooOld
        /\ UNCHANGED <<receiver, showing, clock, index, steady, from, since, got, poisoned, phase>>
      BY DEF Foreign, Catches, TimesOut, scan, sender, assembly
  <1>2. from # Nothing /\ from # showing /\ ~(clock - since > MaxAge)
      BY <1>1 DEF Collects, TooOld
  <1>3. /\ clock \in Nat /\ since \in Nat /\ steady \in Nat /\ MaxAge \in Nat
        /\ since <= clock /\ Indices' = Indices
      BY QrAssumption DEF SteadyInv, ScanInv, ScanTypeOK, Past, Indices
  <1>4. receiver = "desktop" /\ showing \notin Faulty => since <= StreakStart
    <2>1. CASE InStreak
        BY <1>1, <1>2, <2>1 DEF SteadyInv, Streak, Awaiting
    <2>2. CASE ~InStreak
        BY <1>3, <2>2 DEF InStreak, StreakStart
    <2> QED
        BY <2>1, <2>2
  <1>5. receiver = "desktop" /\ showing \notin Faulty => Awaiting'
      BY <1>1, <1>2, <1>3, <1>4 DEF Awaiting, LastSeen, StreakStart
  <1> QED
      BY <1>1, <1>2, <1>3, <1>5 DEF SteadyInv, Streak, Honest, Whole

\* The assembly begins anew, when another's was as old as it may be, or its own had
\* been begun before the streak.
LEMMA OutdatedSteady ==
    ASSUME Count <= MaxAge + 1, SteadyInv, ScanInv', NEW c \in Chunks, Outdated(c)
    PROVE  SteadyInv'
  <1>1. /\ seen' /\ ~poisoned /\ showing # Nothing /\ phase = "scanning" /\ TooOld
        /\ showing \notin Faulty => c = "right"
        /\ UNCHANGED <<receiver, showing, clock, index, steady, poisoned>>
      BY DEF Outdated, Catches, TimesOut, sender
  <1>2. CASE receiver # "desktop"
    <2>1. got' = got /\ from' = from /\ phase' = "failed"
        BY <1>2 DEF Outdated, FailScan
    <2> QED
        BY <2>1, NoStreak
  <1>3. CASE receiver = "desktop"
    <2>1. since' = clock /\ Store(NoChunks, c)
        BY <1>3 DEF Outdated
    <2>2. /\ NoChunks \in [Indices -> Chunks \cup {Nothing}]
          /\ \A i \in Indices : NoChunks[i] = Nothing
        BY DEF NoChunks
    <2>3. /\ clock \in Nat /\ since \in Nat /\ steady \in Nat /\ MaxAge \in Nat
          /\ Count \in Nat /\ steady <= clock
          /\ \A i \in Indices : Ago(i) \in Nat /\ (Ago(i) = 0 <=> i = index)
        BY QrAssumption, AgoTicks DEF SteadyInv, ScanInv, ScanTypeOK, Past
    <2>4. from # Nothing /\ clock - since > MaxAge
        BY <1>1 DEF TooOld
    <2>5. showing \notin Faulty => steady <= MaxAge + 1
      <3> SUFFICES ASSUME showing \notin Faulty PROVE steady <= MaxAge + 1
          OBVIOUS
      <3>1. CASE ~InStreak
          BY <2>3, <3>1 DEF InStreak
      <3>2. CASE InStreak /\ from = showing
          BY <1>1, <1>3, <2>3, <2>4, <3>2 DEF SteadyInv, Streak, Catching, LastSeen
      <3>3. CASE InStreak /\ from # showing
          BY <1>1, <1>3, <2>3, <2>4, <3>3
             DEF SteadyInv, Streak, Awaiting, LastSeen, StreakStart
      <3> QED
          BY <3>1, <3>2, <3>3
    <2>6. showing \notin Faulty =>
            /\ \A i \in Indices \ {index} :
                   Ago(i) <= steady /\ since' <= clock - Ago(i) => NoChunks[i] # Nothing
            /\ since' <= clock /\ since' - StreakStart <= MaxAge + 1
        BY <2>1, <2>3, <2>5 DEF StreakStart
    <2> QED
        BY <1>1, <2>1, <2>2, <2>6, StoreSteady
  <1> QED
      BY <1>2, <1>3

LEMMA OverflowSteady == ASSUME SteadyInv, ScanInv', NEW c \in Chunks, Overflow(c) PROVE SteadyInv'
  <1>1. /\ showing \notin Faulty => c = "right"
        /\ Collects /\ Bytes([got EXCEPT ![index] = c]) > Count
        /\ from' = Nothing /\ got' = NoChunks /\ showing' = showing
      BY DEF Overflow, Catches, sender
  <1>2. Indices' = Indices /\ 0 \in Indices /\ index \in Indices /\ Count \in Nat
      BY QrAssumption DEF Indices, SteadyInv, ScanInv, ScanTypeOK
  <1>3. showing \in Faulty
    <2> SUFFICES ASSUME showing \notin Faulty PROVE FALSE
        OBVIOUS
    <2>1. Bytes([got EXCEPT ![index] = "right"]) <= Count
        BY <1>1, <1>2, NoOverflow DEF Collects
    <2>2. Bytes([got EXCEPT ![index] = "right"]) > Count
        BY <1>1
    <2>3. Bytes([got EXCEPT ![index] = "right"]) \in Int
      <3> DEFINE stored == [got EXCEPT ![index] = "right"]
                 n == Cardinality({i \in Indices : stored[i] \in {"right", "wrong"}})
                 m == Cardinality({i \in Indices : stored[i] = "long"})
      <3>1. IsFiniteSet(Indices)
          BY QrAssumption, FS_Interval DEF Indices
      <3>2. n \in Nat /\ m \in Nat
          BY <3>1, FS_Subset, FS_CardinalityType
      <3>3. Bytes(stored) = n + Count * m
          BY DEF Bytes
      <3> HIDE DEF n, m
      <3> QED
          BY <1>2, <3>2, <3>3
    <2> QED
        BY <1>2, <2>1, <2>2, <2>3
  <1>4. Streak'
      BY <1>1, <1>3 DEF Streak
  <1>5. Honest' /\ ~Whole'
      BY <1>1, <1>2 DEF Honest, Whole, NoChunks
  <1> QED
      BY <1>4, <1>5 DEF SteadyInv

LEMMA SteadyNext ==
    ASSUME Count <= MaxAge + 1 PROVE SteadyInv /\ [ScanNext]_scanVars => SteadyInv'
  <1> SUFFICES ASSUME SteadyInv, [ScanNext]_scanVars PROVE SteadyInv'
      OBVIOUS
  <1>1. ScanInv'
      BY ScanNextInv DEF SteadyInv
  <1>2. CASE Tick
      BY <1>1, <1>2, TickSteady
  <1>3. ASSUME NEW t \in Transfers, Restart(t) PROVE SteadyInv'
      BY <1>1, <1>3, NoStreak DEF Restart, InStreak, assembly, scan
  <1>4. CASE Hide
      BY <1>1, <1>4, NoStreak DEF Hide, InStreak, assembly, scan
  <1>5. ASSUME NEW c \in Chunks,
               Fragment(c) \/ Overflow(c) \/ Again(c) \/ Foreign(c) \/ Outdated(c)
        PROVE  SteadyInv'
      BY <1>1, <1>5, FragmentSteady, OverflowSteady, AgainSteady, ForeignSteady, OutdatedSteady
  <1>6. CASE Poisoned \/ Expires \/ Ends \/ CameraFails
      BY <1>1, <1>6, NoStreak DEF Poisoned, Expires, Ends, CameraFails, FailScan, assembly
  <1>7. CASE UNCHANGED scanVars
    <2>1. Indices' = Indices
        BY DEF Indices
    <2> QED
      BY <1>1, <1>7, <2>1 DEF scanVars, SteadyInv, Honest, Streak, InStreak, Catching, Awaiting,
         Ago, LastSeen, StreakStart, Whole, assembly, scan, sender
  <1> QED
      BY <1>2, <1>3, <1>4, <1>5, <1>6, <1>7 DEF ScanNext

\* A desktop whose camera sees every frame of an honest animation is done within the
\* age of a stale assembly and one round more, whatever it had caught before, if a
\* round fits in that age at all (QrReassembler::push, ScanSession::push).
THEOREM SteadyIsServed ==
    ASSUME Count <= MaxAge + 1 PROVE ScanSpec => []SteadyDelivers
  <1>1. SteadyInv => SteadyDelivers
      BY SteadyIsServedNow
  <1>2. SteadyInv /\ [ScanNext]_scanVars => SteadyInv'
      BY SteadyNext
  <1> QED
      BY SteadyInit, <1>1, <1>2, PTL DEF ScanSpec
=============================================================================
