------------------------------ MODULE QrTransfer ------------------------------
(***************************************************************************)
(* One message sent as an animated QR code (protocol/qr.rs, qr_terminal.rs *)
(* and qr_scanner.rs on the desktop, QrFraming.kt, QrScanSession.kt and    *)
(* NativeQrScannerController.kt on Android, QRFraming.swift and            *)
(* NativeQRFlow.swift on iOS).                                             *)
(*                                                                         *)
(* The sender cuts a message into Count frames and shows them in a cycle,  *)
(* one per clock tick; it may end, and the user may start it again, which  *)
(* makes a new transfer.  The receiver's camera catches any of the frames  *)
(* it is shown.                                                            *)
(* A reassembler collects the frames of the first transfer it meets and    *)
(* gives up on them MaxAge after the first; the three receivers differ in  *)
(* what giving up means: the desktop begins again with the frame at hand,  *)
(* the phones end the scan.                                                *)
(*                                                                         *)
(* A chunk is "right", or a defective sender made it "wrong", or "long":   *)
(* as long as the whole message, the most that a frame may carry.          *)
(***************************************************************************)
EXTENDS Integers, FiniteSets

CONSTANTS
    Transfers,   \* transfer ids, a fresh one each time the sender starts
    Faulty,      \* the transfers of a defective sender
    Count,       \* frames per transfer
    MaxAge,      \* MAX_QR_ASSEMBLY_AGE_MS, in frame intervals
    Deadline,    \* DEFAULT_SCAN_TIMEOUT, OVERALL_SCAN_TIMEOUT_MS
    MaxTime,     \* bound on the clock
    Nothing

VARIABLES
    receiver,               \* "desktop", "android" or "ios"
    showing, index,         \* the transfer (or Nothing) and the frame on the screen
    clock,
    from, since, got,       \* ActiveAssembly: its transfer, start and chunks
    poisoned,
    phase, reason,          \* the scan, and why it failed
    result,                 \* the message that was delivered: its chunks
    seen, steady,           \* history: this frame, and so many before it, seen
    caught                  \* history: when each chunk was caught

sender == <<showing, index>>
assembly == <<from, since, got, poisoned, caught>>
scan == <<phase, reason, result>>
scanVars == <<receiver, sender, clock, assembly, scan, seen, steady>>

Indices == 0 .. Count - 1
Chunks == {"right", "wrong", "long"}

ASSUME QrAssumption ==
    /\ Faulty \subseteq Transfers /\ Nothing \notin Transfers \cup Chunks
    /\ Count \in Nat \ {0} /\ MaxAge \in Nat
    /\ Deadline \in Nat /\ MaxTime \in Nat

NoChunks == [i \in Indices |-> Nothing]

\* The bytes received so far, in chunks.
Bytes(chunks) ==
    Cardinality({i \in Indices : chunks[i] \in {"right", "wrong"}})
    + Count * Cardinality({i \in Indices : chunks[i] = "long"})

ScanInit ==
    /\ receiver \in {"desktop", "android", "ios"}
    /\ showing \in Transfers /\ index = 0
    /\ clock = 0
    /\ from = Nothing /\ since = 0 /\ got = NoChunks /\ poisoned = FALSE
    /\ phase = "scanning" /\ reason = Nothing /\ result = NoChunks
    /\ seen = FALSE /\ steady = 0
    /\ caught = [i \in Indices |-> 0]

-----------------------------------------------------------------------------
(* The sender. *)

\* FrameScheduler::frame_at, NativeQRResponseViewController.advance: the next frame.
Tick ==
    /\ phase = "scanning"
    /\ clock < MaxTime
    /\ clock' = clock + 1
    /\ index' = (index + 1) % Count
    /\ steady' = (IF seen THEN steady + 1 ELSE 0)
    /\ seen' = FALSE
    /\ UNCHANGED <<receiver, showing, assembly, scan>>

\* The user starts the sender again: fragment_qr_message draws a new transfer id.
Restart(t) ==
    /\ phase = "scanning"
    /\ t # showing
    /\ showing' = t /\ index' = 0
    /\ seen' = FALSE /\ steady' = 0
    /\ UNCHANGED <<receiver, clock, assembly, scan>>

\* exchange_pairing_qr, exchange_unwrap_qr: the sender's own deadline passes, its
\* camera fails or its user leaves, and nothing more is shown.
Hide ==
    /\ phase = "scanning"
    /\ showing # Nothing
    /\ showing' = Nothing /\ index' = 0
    /\ seen' = FALSE /\ steady' = 0
    /\ UNCHANGED <<receiver, clock, assembly, scan>>

-----------------------------------------------------------------------------
(* The receiver. *)

\* A scan that fails: reset of the reassembler, and the reason.
FailScan(why) ==
    /\ phase' = "failed" /\ reason' = why
    /\ UNCHANGED result

\* QrReassembler::push: the assembly has timed out.
TooOld == from # Nothing /\ clock - since > MaxAge

\* The camera can catch this frame: the screen shows it, with one of these chunks.
Catches(c) ==
    /\ phase = "scanning" /\ ~poisoned
    /\ showing # Nothing
    /\ c \in (IF showing \in Faulty THEN Chunks ELSE {"right"})
    /\ seen' = TRUE

\* The frame belongs to the assembly, or begins one.
Collects == from = Nothing \/ (~TooOld /\ from = showing)

\* Mutant: the transfer is compared before the age.
TimesOutLate == TooOld /\ from = showing

\* The age is compared before the transfer.
TimesOut == TooOld

\* assemble: the digest of the whole message.
DigestMatches(chunks) == \A i \in Indices : chunks[i] = "right"

\* push: a new chunk is stored into the chunks there are; the last completes the
\* message.
Store(chunks, c) ==
    LET stored == [chunks EXCEPT ![index] = c] IN
    /\ got' = stored
    /\ caught' = [caught EXCEPT ![index] = clock]
    /\ from' = showing
    /\ IF \E i \in Indices : stored[i] = Nothing
       THEN UNCHANGED scan
       ELSE IF DigestMatches(stored)
            THEN phase' = "done" /\ result' = stored /\ UNCHANGED reason
            ELSE FailScan("invalid")

\* A new chunk of the assembly.
Fragment(c) ==
    /\ Catches(c) /\ Collects
    /\ got[index] = Nothing
    /\ Bytes([got EXCEPT ![index] = c]) <= Count
    /\ since' = IF from = Nothing THEN clock ELSE since
    /\ Store(got, c)
    /\ UNCHANGED <<receiver, sender, clock, poisoned, steady>>

\* The chunks have become longer than the message: the reassembler is poisoned.
\* The desktop session takes it for a malformed frame and goes on.
Overflow(c) ==
    /\ Catches(c) /\ Collects
    /\ got[index] = Nothing
    /\ Bytes([got EXCEPT ![index] = c]) > Count
    /\ poisoned' = TRUE
    /\ from' = Nothing /\ got' = NoChunks
    /\ IF receiver = "desktop" THEN UNCHANGED scan ELSE FailScan("invalid")
    /\ UNCHANGED <<receiver, sender, clock, since, caught, steady>>

\* A chunk that is there already, the same or another.
Again(c) ==
    /\ Catches(c) /\ Collects
    /\ got[index] # Nothing
    /\ IF got[index] = c THEN UNCHANGED scan ELSE FailScan("invalid")
    /\ UNCHANGED <<receiver, sender, clock, assembly, steady>>

\* A frame of another transfer is ignored.
Foreign(c) ==
    /\ Catches(c)
    /\ ~Collects /\ ~TimesOut
    /\ UNCHANGED <<receiver, sender, clock, assembly, scan, steady>>

\* Mutant: a timed-out desktop assembly keeps its chunks.
OutdatedKeepsChunks(c) ==
    /\ Catches(c) /\ TimesOut
    /\ IF receiver = "desktop"
       THEN since' = clock /\ Store(IF from = showing THEN got ELSE NoChunks, c)
       ELSE FailScan("timeout") /\ UNCHANGED <<from, since, got, caught>>
    /\ UNCHANGED <<receiver, sender, clock, poisoned, steady>>

\* The assembly has timed out.  The desktop resets it and pushes the frame again.
Outdated(c) ==
    /\ Catches(c) /\ TimesOut
    /\ IF receiver = "desktop"
       THEN since' = clock /\ Store(NoChunks, c)
       ELSE FailScan("timeout") /\ UNCHANGED <<from, since, got, caught>>
    /\ UNCHANGED <<receiver, sender, clock, poisoned, steady>>

\* The desktop's next frame meets the poisoned reassembler.
Poisoned ==
    /\ phase = "scanning" /\ poisoned
    /\ FailScan("invalid")
    /\ UNCHANGED <<receiver, sender, clock, assembly, seen, steady>>

\* assemblyTimeout, QrScanSession.expire: Android does not wait for a frame.
Expires ==
    /\ phase = "scanning" /\ receiver = "android"
    /\ TooOld
    /\ FailScan("timeout")
    /\ UNCHANGED <<receiver, sender, clock, assembly, seen, steady>>

\* The user cancels, or the scan's own deadline passes (iOS has none).
Ends ==
    /\ phase = "scanning"
    /\ \/ FailScan("cancelled")
       \/ receiver # "ios" /\ clock > Deadline /\ FailScan("deadline")
    /\ UNCHANGED <<receiver, sender, clock, assembly, seen, steady>>

\* ScannerHandle, scan_camera: the camera's worker reports a failure, or is gone.
CameraFails ==
    /\ phase = "scanning"
    /\ FailScan("camera")
    /\ UNCHANGED <<receiver, sender, clock, assembly, seen, steady>>

ScanNext ==
    \/ Tick \/ Hide
    \/ \E t \in Transfers : Restart(t)
    \/ \E c \in Chunks :
          Fragment(c) \/ Overflow(c) \/ Again(c) \/ Foreign(c) \/ Outdated(c)
    \/ Poisoned \/ Expires \/ Ends \/ CameraFails

ScanSpec == ScanInit /\ [][ScanNext]_scanVars

-----------------------------------------------------------------------------
(* Properties. *)

\* Every variable has its type.
ScanTypeOK ==
    /\ receiver \in {"desktop", "android", "ios"}
    /\ showing \in Transfers \cup {Nothing} /\ index \in Indices
    /\ clock \in 0 .. MaxTime
    /\ from \in Transfers \cup {Nothing} /\ since \in 0 .. MaxTime
    /\ got \in [Indices -> Chunks \cup {Nothing}]
    /\ poisoned \in BOOLEAN
    /\ phase \in {"scanning", "done", "failed"}
    /\ reason \in {"invalid", "timeout", "cancelled", "deadline", "camera", Nothing}
    /\ result \in [Indices -> Chunks \cup {Nothing}]
    /\ seen \in BOOLEAN /\ steady \in 0 .. MaxTime
    /\ caught \in [Indices -> 0 .. MaxTime]

\* A delivered message is what an honest sender showed, and its frames were caught
\* within the age limit of one another: restarts, mixed transfers and an assembly
\* begun anew never leave an old chunk in it.
DeliveredWhole ==
    phase = "done" =>
        /\ \A i \in Indices : result[i] = "right"
        /\ \A i, j \in Indices : caught[i] - caught[j] <= MaxAge

\* A desktop whose camera sees every frame of one honest animation has the message
\* when the rest of a stale assembly's age and two rounds have passed, whatever it
\* had caught before: it is never stuck on another transfer.
SteadyDelivers ==
    receiver = "desktop" /\ phase = "scanning" /\ showing \notin Faulty
        => steady <= MaxAge + Count

=============================================================================
