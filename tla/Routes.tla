------------------------------- MODULE Routes -------------------------------
(***************************************************************************)
(* How an operation of the desktop reaches the phone (desktop              *)
(* transport_policy.rs, wifi.rs, adb.rs, transport.rs and the callers in   *)
(* main.rs and age_identity.rs).  The user's choice, the route hints and a *)
(* discovery on the local network name one transport; Developer USB then   *)
(* lends the one reverse rule of the device to the operation, watched over *)
(* by a guardian process that survives the operation.                      *)
(*                                                                         *)
(* Several operations run at once.  Cables are pulled, adb commands fail   *)
(* or take effect without reporting it, answers to a discovery come late,  *)
(* twice or from strangers, and an operation may be killed at any point.   *)
(***************************************************************************)
EXTENDS Integers, FiniteSets

CONSTANTS
    Platforms,   \* the desktops considered: "linux", "macos", "windows"
    Ops,         \* operations of the desktop, each run once
    Devices,     \* serials adb can list
    Addresses,   \* private addresses of the local network
    Bad,         \* a hint that is malformed or names no private address
    None,        \* no hint, no device, no rule
    MaxFaults,   \* bound on the failing adb commands
    MaxPlugs,    \* bound on the changes of the attached devices
    MaxAnswers   \* bound on the answers to one discovery

ASSUME RoutesAssumption ==
    /\ Platforms \subseteq {"linux", "macos", "windows"}
    /\ {Bad, None} \cap (Ops \cup Devices \cup Addresses) = {} /\ Bad # None
    /\ MaxFaults \in Nat /\ MaxPlugs \in Nat /\ MaxAnswers \in Nat

VARIABLES
    platform,  \* the desktop's system
    ops,       \* the operations
    dev,       \* what adb says of a device: "device", "offline" or None
    rule,      \* the operation whose listener a device's reverse rule names
    guard,     \* the cleanup guardian of each operation
    late,      \* operations killed while adb was creating their rule
    crossed,   \* operations that removed the rule of another (history)
    faults, plugs

vars == <<platform, ops, dev, rule, guard, late, crossed, faults, plugs>>
usb == <<dev, rule, guard, late, crossed, faults, plugs>>

Purposes == {"pairing", "unwrap"}
Choices == {"auto", "adb", "ble", "wifi", "qr"}
Serials == Devices \cup {None}
Endpoints == Addresses \cup {None}
\* An answer repeats the nonce of its query; the paired phone signs that of an
\* unwrap.  Nothing in it is bound to the address it comes from.
Answers == [nonce : Ops, by : {"phone", "other"}, signed : BOOLEAN, from : Addresses]

-----------------------------------------------------------------------------
(* The policy: one transport for the user's choice and the route hints. *)

Hints == [serial : Serials \cup {Bad}, address : Endpoints \cup {Bad}]
Implemented == {"adb", "wifi", "qr"}

\* The transport named, before the policy accepts it.
KindOf(choice, h) ==
    CASE choice # "auto" -> choice
      [] choice = "auto" /\ h.serial # None -> "adb"
      [] choice = "auto" /\ h.serial = None /\ h.address # None -> "wifi"
      [] OTHER -> IF platform = "windows" THEN "adb" ELSE "qr"

ResolvesLoosely(choice, h) ==
    LET kind == KindOf(choice, h) IN
    /\ kind \in Implemented
    /\ kind = "wifi" => h.address # None
    /\ Bad \notin {h.serial, h.address}

\* Whether resolve_transport accepts: no two hints, none for another transport,
\* an endpoint for Wi-Fi, and no malformed hint.
Resolves(choice, h) ==
    LET kind == KindOf(choice, h) IN
    /\ kind \in Implemented
    /\ h.serial # None => kind = "adb"
    /\ h.address # None => kind = "wifi"
    /\ kind = "wifi" => h.address # None
    /\ Bad \notin {h.serial, h.address}

\* The callers look for a phone when the user named no route.
Discovers(choice, h) == choice \in {"auto", "wifi"} /\ h.serial = None /\ h.address = None

-----------------------------------------------------------------------------
NewOp == [pc |-> "idle", purpose |-> None, choice |-> None, serial |-> None,
          hint |-> None, address |-> None, kind |-> None, answers |-> {}, heard |-> {},
          device |-> None, got |-> None]

Init ==
    /\ platform \in Platforms
    /\ ops = [o \in Ops |-> NewOp]
    /\ dev = [d \in Devices |-> "device"]
    /\ rule = [d \in Devices |-> None]
    /\ guard = [o \in Ops |-> "none"]
    /\ late = {} /\ crossed = {}
    /\ faults = 0 /\ plugs = 0

At(o, pc) == ops[o].pc = pc
Goto(o, pc) == ops' = [ops EXCEPT ![o].pc = pc]
Over(o, result) ==
    [NewOp EXCEPT !.pc = result, !.device = ops[o].device, !.got = ops[o].got]
\* Once a session opens, what the user asked for is no longer looked at.
Going(o, pc) == [NewOp EXCEPT !.pc = pc, !.purpose = ops[o].purpose, !.kind = ops[o].kind]
Ended == {"answered", "failed", "killed"}

\* Dropping the guardian's handle closes its pipe.
Drop(o) == guard' = [guard EXCEPT ![o] = IF @ = "armed" THEN "retrying" ELSE @]
Fail(o) == ops' = [ops EXCEPT ![o] = Over(o, "failed")] /\ Drop(o)

\* Where an operation goes when its route is known.  The pairing of Windows and
\* macOS probes the device before it creates anything.
First(o, kind, purpose) ==
    CASE kind = "adb" -> IF purpose = "pairing" /\ platform # "linux" THEN "preflight" ELSE "select"
      [] kind = "wifi" -> "connect"
      [] kind = "qr" -> "exchange"

\* The operation as it starts, its hints resolved or its discovery begun.
Begun(o, purpose, choice, h) ==
    LET kind == KindOf(choice, h)
        new == [NewOp EXCEPT !.purpose = purpose, !.choice = choice,
                             !.serial = h.serial, !.hint = h.address] IN
    CASE Discovers(choice, h) -> [new EXCEPT !.pc = "discover"]
      [] Resolves(choice, h) /\ ~Discovers(choice, h) ->
             [new EXCEPT !.pc = First(o, kind, purpose), !.kind = kind, !.address = h.address]
      [] OTHER -> [NewOp EXCEPT !.pc = "failed"]

Start(o) ==
    /\ At(o, "idle")
    /\ \E purpose \in Purposes, choice \in Choices, h \in Hints :
           \* The pair command takes no Wi-Fi address.
           /\ purpose = "pairing" => h.address = None
           /\ ops' = [ops EXCEPT ![o] = Begun(o, purpose, choice, h)]
    /\ UNCHANGED <<platform, usb>>

-----------------------------------------------------------------------------
(* Discovery: a broadcast query with a fresh nonce, repeated to the deadline. *)

\* The paired phone answers over any interface, signing for an unwrap.  Anyone
\* else echoes the query, or sends on the phone's own signed answer to it, from
\* any address.
Answer(o, m) ==
    /\ At(o, "discover")
    /\ m.nonce = o /\ m \notin ops[o].answers /\ Cardinality(ops[o].answers) < MaxAnswers
    /\ \/ m.by = "phone" /\ (m.signed <=> ops[o].purpose = "unwrap")
       \/ m.by = "other" /\ (m.signed => \E n \in ops[o].answers : n.by = "phone" /\ n.signed)
    /\ ops' = [ops EXCEPT ![o].answers = @ \cup {m}]
    /\ UNCHANGED <<platform, usb>>

IgnoresNonce(o, m) == ops[o].purpose = "unwrap" => m.signed

\* valid_discovery_response: the query's own nonce, and for an unwrap the
\* signature of the paired phone.
Valid(o, m) == m.nonce = o /\ (ops[o].purpose = "unwrap" => m.signed)

\* An answer arrives, or any answer to an earlier query whose port is used again.
\* A second address ends the discovery at once.
Hear(o) ==
    /\ At(o, "discover")
    /\ \E m \in ops[o].answers \cup {n \in Answers : n.nonce # o} :
           LET heard == ops[o].heard \cup {m.from} IN
           /\ Valid(o, m)
           /\ IF Cardinality(heard) > 1
              THEN ops' = [ops EXCEPT ![o] = Over(o, "failed")]
              ELSE ops' = [ops EXCEPT ![o].heard = heard]
    /\ UNCHANGED <<platform, usb>>

\* The deadline passes.  No answer fails Wi-Fi, and leaves Auto to its default.
DiscoveryEnds(o) ==
    LET h == [serial |-> None,
              address |-> IF ops[o].heard = {} THEN None ELSE CHOOSE a \in ops[o].heard : TRUE]
        kind == KindOf(ops[o].choice, h) IN
    /\ At(o, "discover")
    /\ ops' = IF Resolves(ops[o].choice, h)
              THEN [ops EXCEPT ![o].pc = First(o, kind, ops[o].purpose), ![o].kind = kind,
                               ![o].address = h.address]
              ELSE [ops EXCEPT ![o] = Over(o, "failed")]
    /\ UNCHANGED <<platform, usb>>

\* A query cannot be sent on some interface, or the socket fails.
DiscoveryFails(o) ==
    /\ At(o, "discover")
    /\ ops' = [ops EXCEPT ![o] = Over(o, "failed")]
    /\ UNCHANGED <<platform, usb>>

\* The address may accept the connection, refuse it or stay silent.
Connect(o) ==
    /\ At(o, "connect")
    /\ ops' \in {[ops EXCEPT ![o] = Going(o, "exchange")], [ops EXCEPT ![o] = Over(o, "failed")]}
    /\ UNCHANGED <<platform, usb>>

-----------------------------------------------------------------------------
(* Commands to adb. *)

Device(o) == ops[o].device
Online(o) == dev[Device(o)] = "device"

\* A command fails or times out although the device would have served it.
Fault == faults < MaxFaults /\ faults' = faults + 1

\* A command that changes nothing: it works, or it fails and stops the operation.
Asks(o, works, next, otherwise) ==
    \/ works /\ Goto(o, next) /\ UNCHANGED <<guard, faults>>
    \/ ~works /\ otherwise /\ UNCHANGED faults
    \/ works /\ otherwise /\ Fault

\* Removing the rule of the device, whichever operation made it.
TakeRule(o) ==
    /\ rule' = [rule EXCEPT ![Device(o)] = None]
    /\ crossed' = IF rule[Device(o)] = o THEN crossed ELSE crossed \cup {o}

Removes(o) ==
    /\ Online(o) /\ rule[Device(o)] # None
    /\ TakeRule(o) /\ UNCHANGED faults

\* There is no such rule, or no device; or adb times out, before or after the fact.
RemovalFails(o) ==
    \/ ~(Online(o) /\ rule[Device(o)] # None) /\ UNCHANGED <<rule, crossed, faults>>
    \/ Online(o) /\ rule[Device(o)] # None /\ Fault /\ (TakeRule(o) \/ UNCHANGED <<rule, crossed>>)

-----------------------------------------------------------------------------
(* The session over Developer USB. *)

\* The device of the operation: the one named, or the only one attached.
Selected(o) ==
    LET attached == {d \in Devices : dev[d] # None} IN
    {d \in attached : dev[d] = "device" /\ ops[o].serial \in {None, d}
                                        /\ (ops[o].serial = None => attached = {d})}

Select(o) ==
    /\ ops[o].pc \in {"preflight", "select"}
    /\ \/ \E d \in Selected(o) :
             /\ ops' = IF At(o, "select")
                       THEN [ops EXCEPT ![o] = [Going(o, "list") EXCEPT !.device = d]]
                       ELSE [ops EXCEPT ![o].pc = "prelist", ![o].device = d]
             /\ UNCHANGED <<guard, faults>>
       \/ Selected(o) = {} /\ Fail(o) /\ UNCHANGED faults
       \/ Fail(o) /\ Fault
    /\ UNCHANGED <<platform, dev, rule, late, crossed, plugs>>

\* The preflight pins the device it found.
Preflight(o) ==
    /\ At(o, "prelist")
    /\ \/ /\ Online(o) /\ rule[Device(o)] = None
          /\ ops' = [ops EXCEPT ![o].pc = "select", ![o].serial = Device(o)]
          /\ UNCHANGED <<guard, faults>>
       \/ ~(Online(o) /\ rule[Device(o)] = None) /\ Fail(o) /\ UNCHANGED faults
       \/ Fail(o) /\ Fault
    /\ UNCHANGED <<platform, dev, rule, late, crossed, plugs>>

\* An existing rule for the fixed port of the phone is refused.
ListRules(o) ==
    /\ At(o, "list")
    /\ Asks(o, Online(o) /\ rule[Device(o)] = None, "arm", Fail(o))
    /\ UNCHANGED <<platform, dev, rule, late, crossed, plugs>>

ArmsLate(o) ==
    /\ At(o, "arm")
    /\ Goto(o, "create")
    /\ UNCHANGED <<platform, dev, rule, late, crossed, guard, faults, plugs>>

\* The listener is bound and the guardian started before the rule is made.
Arm(o) ==
    /\ At(o, "arm")
    /\ \/ guard' = [guard EXCEPT ![o] = "armed"] /\ Goto(o, "create")
       \/ Fail(o)
    /\ UNCHANGED <<platform, dev, rule, late, crossed, faults, plugs>>


\* adb replaces a rule made since the list.
Create(o) ==
    LET made == [rule EXCEPT ![Device(o)] = o] IN
    /\ At(o, "create")
    /\ \/ /\ Online(o) /\ rule' = made /\ UNCHANGED faults
          /\ Goto(o, IF ops[o].purpose = "unwrap" THEN "launch" ELSE "accept")
       \/ ~Online(o) /\ Goto(o, "cleanup") /\ UNCHANGED <<rule, faults>>
       \/ Online(o) /\ Goto(o, "cleanup") /\ Fault /\ rule' \in {rule, made}
    /\ UNCHANGED <<platform, dev, late, crossed, guard, plugs>>

\* An unwrap opens the phone's app; then the phone, or any local process, connects.
Launch(o) ==
    /\ At(o, "launch")
    /\ Asks(o, Online(o), "accept", Goto(o, "cleanup") /\ UNCHANGED guard)
    /\ UNCHANGED <<platform, dev, rule, late, crossed, plugs>>

Accept(o) ==
    /\ At(o, "accept")
    /\ Goto(o, "confirm") \/ Goto(o, "cleanup")
    /\ UNCHANGED <<platform, usb>>

\* The device is still there, and the stream configured, before anything is sent.
Confirm(o) ==
    /\ At(o, "confirm")
    /\ Asks(o, Online(o), "exchange", Goto(o, "cleanup") /\ UNCHANGED guard)
    /\ UNCHANGED <<platform, dev, rule, late, crossed, plugs>>

\* The frame that arrives: its session, purpose, direction and bounded length.
Frames == [session : Ops, purpose : Purposes, response : BOOLEAN, fits : BOOLEAN]
Reads(o, f) ==
    f.session = o /\ f.purpose = ops[o].purpose /\ f.response /\ f.fits


\* The request goes out and one frame, or none in time, comes back.
Exchange(o) ==
    /\ At(o, "exchange")
    /\ \E got \in {f.session : f \in {g \in Frames : Reads(o, g)}} \cup {None} :
           IF ops[o].kind = "adb"
           THEN ops' = [ops EXCEPT ![o].pc = "recheck", ![o].got = got]
           ELSE ops' = [ops EXCEPT ![o] = [Over(o, IF got = None THEN "failed" ELSE "answered")
                                               EXCEPT !.got = got]]
    /\ UNCHANGED <<platform, usb>>

\* A response counts only if the device did not change meanwhile.
Recheck(o) ==
    /\ At(o, "recheck")
    /\ \/ Online(o) /\ Goto(o, "remove") /\ UNCHANGED faults
       \/ ~Online(o) /\ ops' = [ops EXCEPT ![o].pc = "remove", ![o].got = None] /\ UNCHANGED faults
       \/ ops' = [ops EXCEPT ![o].pc = "remove", ![o].got = None] /\ Fault
    /\ UNCHANGED <<platform, dev, rule, late, crossed, guard, plugs>>

RemovesLater(o) ==
    /\ At(o, "remove")
    /\ ops' = [ops EXCEPT ![o] = Over(o, IF ops[o].got = None THEN "failed" ELSE "answered")]
    /\ Drop(o)
    /\ UNCHANGED <<platform, dev, rule, late, crossed, faults, plugs>>

\* And only if the rule went and the guardian, told so, ended; a removal that
\* failed is repeated as the session is dropped.
RemoveRule(o) ==
    /\ At(o, "remove")
    /\ \/ /\ Removes(o) /\ guard' = [guard EXCEPT ![o] = "done"]
          /\ \/ ops' = [ops EXCEPT ![o] = Over(o, IF ops[o].got = None THEN "failed" ELSE "answered")]
             \/ ops' = [ops EXCEPT ![o] = Over(o, "failed")]
       \/ RemovalFails(o) /\ Goto(o, "cleanup") /\ UNCHANGED guard
    /\ UNCHANGED <<platform, dev, late, plugs>>


CleanupDisarms(o) ==
    /\ At(o, "cleanup")
    /\ (Removes(o) \/ RemovalFails(o)) /\ guard' = [guard EXCEPT ![o] = "done"]
    /\ ops' = [ops EXCEPT ![o] = Over(o, "failed")]
    /\ UNCHANGED <<platform, dev, late, plugs>>

\* Only a removal that worked disarms the guardian; otherwise its pipe closes.
Cleanup(o) ==
    /\ At(o, "cleanup")
    /\ \/ Removes(o) /\ guard' = [guard EXCEPT ![o] = "done"]
       \/ RemovalFails(o) /\ Drop(o)
    /\ ops' = [ops EXCEPT ![o] = Over(o, "failed")]
    /\ UNCHANGED <<platform, dev, late, plugs>>


\* The process dies; the adb command it ran goes on.
Die(o) ==
    /\ ops[o].pc \notin Ended \cup {"idle"}
    /\ ops' = [ops EXCEPT ![o] = Over(o, "killed")]
    /\ Drop(o)
    /\ late' = IF At(o, "create") THEN late \cup {o} ELSE late
    /\ UNCHANGED <<platform, dev, rule, crossed, faults, plugs>>

LateCreate(o) ==
    /\ o \in late
    /\ late' = late \ {o}
    /\ rule' = IF Online(o) THEN [rule EXCEPT ![Device(o)] = o] ELSE rule
    /\ UNCHANGED <<platform, ops, dev, crossed, guard, faults, plugs>>

\* A guardian whose pipe closed removes the rule, and gives up when that keeps
\* failing for two seconds.
GuardRemoves(o) ==
    /\ guard[o] = "retrying"
    /\ Removes(o) /\ guard' = [guard EXCEPT ![o] = "done"]
    /\ UNCHANGED <<platform, ops, dev, late, plugs>>
GuardFails(o) ==
    /\ guard[o] = "retrying"
    /\ RemovalFails(o) /\ guard' \in {guard, [guard EXCEPT ![o] = "gave up"]}
    /\ UNCHANGED <<platform, ops, dev, late, plugs>>

\* A cable or an authorisation changes; a device that leaves forgets its rule.
Plug(d) ==
    /\ plugs < MaxPlugs /\ plugs' = plugs + 1
    /\ \E s \in {"device", "offline", None} \ {dev[d]} :
           /\ dev' = [dev EXCEPT ![d] = s]
           /\ rule' = IF s = None THEN [rule EXCEPT ![d] = None] ELSE rule
    /\ UNCHANGED <<platform, ops, late, crossed, guard, faults>>

-----------------------------------------------------------------------------
Discovery(o) ==
    \/ Hear(o) \/ DiscoveryEnds(o) \/ DiscoveryFails(o)
Session(o) ==
    \/ Connect(o) \/ Select(o) \/ Preflight(o) \/ ListRules(o) \/ Arm(o) \/ Create(o)
    \/ Launch(o) \/ Accept(o) \/ Confirm(o) \/ Exchange(o) \/ Recheck(o)
    \/ RemoveRule(o) \/ Cleanup(o)
Guardian(o) == GuardRemoves(o) \/ GuardFails(o)

Next ==
    \/ \E o \in Ops : \/ Start(o) \/ Discovery(o) \/ Session(o)
                      \/ Die(o) \/ LateCreate(o) \/ Guardian(o)
    \/ \E o \in Ops, m \in Answers : Answer(o, m)
    \/ \E d \in Devices : Plug(d)

Spec == Init /\ [][Next]_vars

\* Every wait of an operation has a deadline, a guardian is a process of its own,
\* and adb serves the commands it was given.
FairSpec ==
    /\ Spec
    /\ \A o \in Ops : /\ WF_vars(Discovery(o) \/ Session(o))
                      /\ WF_vars(Guardian(o)) /\ WF_vars(LateCreate(o))

-----------------------------------------------------------------------------
(* Properties. *)

TypeOK ==
    /\ platform \in Platforms
    /\ ops \in [Ops -> [pc : Ended \cup {"idle", "discover", "connect", "preflight", "prelist",
                                        "select", "list", "arm", "create", "launch", "accept",
                                        "confirm", "exchange", "recheck", "remove", "cleanup"},
                        purpose : Purposes \cup {None}, choice : Choices \cup {None},
                        serial : Serials, hint : Endpoints, address : Endpoints,
                        kind : Implemented \cup {None}, answers : SUBSET Answers,
                        heard : SUBSET Addresses,
                        device : Serials, got : Ops \cup {None}]]
    /\ dev \in [Devices -> {"device", "offline", None}]
    /\ rule \in [Devices -> Ops \cup {None}]
    /\ guard \in [Ops -> {"none", "armed", "retrying", "done", "gave up"}]
    /\ late \subseteq Ops /\ crossed \subseteq Ops
    /\ faults \in 0..MaxFaults /\ plugs \in 0..MaxPlugs

\* An operation never leaves the route its user named: a choice other than Auto
\* is final, a hint is used or refused, and Auto takes its default only when no
\* phone at all answered (resolve_transport, identity_route_options).
RouteIsChosen ==
    \A o \in Ops : LET r == ops[o] IN
        r.kind # None /\ r.choice # None =>
            /\ r.choice \in {"auto", r.kind}
            /\ r.serial # None => r.kind = "adb" /\ r.device \in {None, r.serial}
            /\ r.hint # None => r.kind = "wifi" /\ r.address = r.hint
            /\ r.heard # {} => r.kind = "wifi" /\ r.heard = {r.address}

\* An unwrap that looked for its phone connects only if the paired phone answered
\* this very query, and to an address that sent its signature, whatever older,
\* repeated or foreign answers arrived.  The address itself stays a hint: it may be
\* that of a peer who sent the answer on (discover_with_io, valid_discovery_response).
OwnPhoneAnswered ==
    \A o \in Ops : LET r == ops[o] IN
        r.kind = "wifi" /\ r.hint = None /\ r.purpose = "unwrap" /\ At(o, "connect") =>
            /\ \E m \in r.answers : m.by = "phone" /\ m.nonce = o
            /\ \E m \in r.answers : m.signed /\ m.nonce = o /\ m.from = r.address

\* A reverse rule is never left to nobody: its operation's guardian watches or
\* still tries, unless the guardian gave up or an adb race made somebody remove
\* the wrong rule (connect, cleanup_created_rule, Drop).
RuleGuarded ==
    \A d \in Devices : rule[d] # None =>
        \/ guard[rule[d]] \in {"armed", "retrying", "gave up"}
        \/ crossed # {}

\* An answered operation got the frame of its own session, and over Developer USB
\* its rule is gone from the device for good (exchange).
AnsweredClean ==
    \A o \in Ops : At(o, "answered") =>
        /\ ops[o].got = o
        /\ \A d \in Devices : rule[d] # o

\* A rule goes, whatever becomes of its operation, unless a guardian gave up or
\* the wrong rule was removed (remove_reverse_rule_after_parent_exit).
RuleGoes ==
    \A d \in Devices :
        rule[d] # None ~> rule[d] = None \/ crossed # {} \/ \E o \in Ops : guard[o] = "gave up"

=============================================================================
