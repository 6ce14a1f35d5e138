--------------------------- MODULE UnwrapProtocol ---------------------------
(***************************************************************************)
(* One paired desktop and phone unwrapping file keys (crates/core          *)
(* protocol/mod.rs, crates/desktop unwrap.rs, age_identity.rs and main.rs, *)
(* and the phone's preparePhoneUnwrap and performPhoneUnwrap).             *)
(*                                                                         *)
(* A desktop run signs a request for one file, sends it over an untrusted  *)
(* route and waits.  The phone consumes the request in its replay store,   *)
(* asks its user, and answers with the file key sealed to the run's        *)
(* one-time key; the run consumes the answer in the desktop's replay store *)
(* and releases the key.  The route loses, delays, duplicates and reorders *)
(* whatever was sent; either side gives up, dies and restarts at any step; *)
(* both clocks may be set at any time.                                     *)
(*                                                                         *)
(* The two replay stores are used through what ReplayContract promises:    *)
(* the files, locks and crashes behind it are the business of ReplayStore. *)
(***************************************************************************)
EXTENDS Integers, Sequences, FiniteSets

CONSTANTS
    Plugins,      \* runs of the age plugin: hold the replay lock throughout
    Clis,         \* runs of the unwrap command: lock only around the answer
    None,         \* no run, no session, no pending request
    Files,        \* the files to be decrypted; also stands for their file keys
    Ttl,          \* MAX_REQUEST_LIFETIME_SECS
    MaxTime,      \* bound on the clock readings
    MaxRequests   \* bound on the requests ever made

VARIABLES
    clockD,         \* the desktop's clock
    clockP,         \* the phone's clock
    lock,           \* the run that holds the desktop's replay lock
    session,        \* the request each run's DesktopUnwrapSession waits on
    requests,       \* every request ever signed and sent, by number
    pending,        \* the request the phone shows to its user
    prompted,       \* history: the requests put before the user, in order
    approvals,      \* the requests answered; answer i is for approvals[i]
    phoneAccepted,  \* the phone's replay store
    deskAccepted,   \* the desktop's replay store
    released        \* history: the file keys handed to age, in order

clocks == <<clockD, clockP>>
desktop == <<lock, session, requests, deskAccepted, released>>
phone == <<pending, prompted, approvals, phoneAccepted>>
vars == <<clocks, desktop, phone>>

Runs == Plugins \cup Clis
Time == 0 .. MaxTime
Request == [run : Runs, file : Files, expires : Nat]

ASSUME RunsAssumption ==
    /\ None \notin Runs \cup Nat
    /\ Ttl \in Nat
    /\ MaxTime \in Nat
    /\ MaxRequests \in Nat

\* The replay entries of a request (its random id and nonce are fresh, so its
\* number stands for both) and of an answer (the digest of a signed response).
RequestEntry(n) == [keys |-> {<<"request", n>>}, expires |-> requests[n].expires]
ResponseEntry(i, n) == [keys |-> {<<"response", i>>}, expires |-> requests[n].expires]

Entries == [keys : SUBSET ({"request", "response"} \X Nat), expires : Nat]

PhoneStore == INSTANCE ReplayContract
    WITH accepted <- phoneAccepted, Scopes <- {"phone"}, Messages <- Entries

DesktopStore == INSTANCE ReplayContract
    WITH accepted <- deskAccepted, Scopes <- {"desktop"}, Messages <- Entries

\* Mutant: a request of exactly the longest lifetime is refused.
TimeValidShort(n, now) ==
    /\ requests[n].expires >= now
    /\ requests[n].expires - now < Ttl

\* validate_request_time on the side whose clock shows now.
TimeValid(n, now) ==
    /\ requests[n].expires >= now
    /\ requests[n].expires - now <= Ttl

Init ==
    /\ clockD \in Time
    /\ clockP \in Time
    /\ lock = None
    /\ session = [r \in Runs |-> None]
    /\ requests = <<>>
    /\ pending = None
    /\ prompted = <<>>
    /\ approvals = <<>>
    /\ phoneAccepted = <<>>
    /\ deskAccepted = <<>>
    /\ released = <<>>

-----------------------------------------------------------------------------
(* The desktop. *)

\* DesktopUnwrapSession::begin: a fresh request with the longest lifetime.
Begin(r, f) ==
    /\ session[r] = None
    /\ Len(requests) < MaxRequests
    /\ requests' = Append(requests, [run |-> r, file |-> f,
                                     expires |-> clockD + Ttl])
    /\ session' = [session EXCEPT ![r] = Len(requests) + 1]

\* unwrap_with_prepared_exchange opens the replay guard, or gives the file up,
\* before it makes the request, and holds the guard until the file is settled.
PluginBegin(r, f) ==
    /\ r \in Plugins
    /\ lock = None
    /\ lock' = r
    /\ Begin(r, f)
    /\ UNCHANGED <<clocks, phone, deskAccepted, released>>

\* run_unwrap makes the request without the guard.
CliBegin(r, f) ==
    /\ r \in Clis
    /\ Begin(r, f)
    /\ UNCHANGED <<clocks, phone, lock, deskAccepted, released>>

\* Mutant: the answer is not compared with the pending request.
AnswersAnySession(r, i) == TimeValid(session[r], clockD)

\* open_response, all checks before the consumption: the pending request is
\* alive, and the answer is for this very request of this very run.
AnswersSession(r, i) ==
    /\ TimeValid(session[r], clockD)
    /\ approvals[i] = session[r]

\* receive_response: the session is closed, the answer is checked, decrypted and
\* consumed, and the file key is released.  run_unwrap takes the replay lock
\* only for this step.
Receive(r, i) ==
    /\ session[r] # None
    /\ lock = IF r \in Plugins THEN r ELSE None
    /\ lock' = None
    /\ AnswersSession(r, i)
    /\ DesktopStore!Accept("desktop", ResponseEntry(i, session[r]), clockD)
    /\ session' = [session EXCEPT ![r] = None]
    /\ released' = Append(released, [run    |-> r,
                                     file   |-> requests[session[r]].file,
                                     key    |-> requests[approvals[i]].file,
                                     answer |-> i])
    /\ UNCHANGED <<clocks, phone, requests>>

\* The session ends without a key and is never used again: the exchange failed,
\* timed out or was cancelled, the response was malformed, expired, for another
\* request or refused by the replay store, or the process died.
Cancel(r) ==
    /\ session[r] # None
    /\ session' = [session EXCEPT ![r] = None]
    /\ lock' = IF lock = r THEN None ELSE lock
    /\ UNCHANGED <<clocks, phone, requests, deskAccepted, released>>

\* run_unwrap has a response but another run holds the replay lock: the guard
\* does not open, the command fails and the approval is spent.
LockBusy(r, i) ==
    /\ r \in Clis
    /\ session[r] # None
    /\ approvals[i] = session[r]
    /\ lock # None
    /\ session' = [session EXCEPT ![r] = None]
    /\ UNCHANGED <<clocks, phone, lock, requests, deskAccepted, released>>

-----------------------------------------------------------------------------
(* The phone. *)

\* Mutant: the prompt appears before the request is consumed.
PromptFirst(n) ==
    /\ pending = None
    /\ TimeValid(n, clockP)
    /\ PhoneStore!MayAccept("phone", RequestEntry(n), clockP)
    /\ pending' = n
    /\ prompted' = Append(prompted, n)
    /\ UNCHANGED <<clocks, desktop, approvals, phoneAccepted>>

\* preparePhoneUnwrap: a request arrives (perhaps again), its signature, scope
\* and time are verified, it is consumed, and only then is the user asked.
Consume(n) ==
    /\ pending = None
    /\ TimeValid(n, clockP)
    /\ PhoneStore!Accept("phone", RequestEntry(n), clockP)
    /\ pending' = n
    /\ prompted' = Append(prompted, n)
    /\ UNCHANGED <<clocks, desktop, approvals>>

\* The key agreement cannot be prepared after the consumption: the request is
\* spent and no prompt appears.
ConsumeInVain(n) ==
    /\ pending = None
    /\ TimeValid(n, clockP)
    /\ PhoneStore!Accept("phone", RequestEntry(n), clockP)
    /\ UNCHANGED <<clocks, desktop, pending, prompted, approvals>>

\* performPhoneUnwrap: the user approved, the request is still alive, and the
\* answer leaves the phone (it may be lost on the way).
Approve ==
    /\ pending # None
    /\ clockP <= requests[pending].expires
    /\ approvals' = Append(approvals, pending)
    /\ pending' = None
    /\ UNCHANGED <<clocks, desktop, prompted, phoneAccepted>>

\* finishPhoneUnwrap, cancelPhoneUnwrap or the death of the app: refusal,
\* timeout, disconnect, background, expiry.  Nothing restores the request.
GiveUp ==
    /\ pending # None
    /\ pending' = None
    /\ UNCHANGED <<clocks, desktop, prompted, approvals, phoneAccepted>>

-----------------------------------------------------------------------------
\* Either clock is set, forwards or backwards.
SetClocks ==
    /\ clockD' \in Time
    /\ clockP' \in Time
    /\ UNCHANGED <<desktop, phone>>

DesktopNext ==
    \/ \E r \in Runs, f \in Files : PluginBegin(r, f) \/ CliBegin(r, f)
    \/ \E r \in Runs, i \in 1 .. Len(approvals) : Receive(r, i) \/ LockBusy(r, i)
    \/ \E r \in Runs : Cancel(r)

PhoneNext ==
    \/ \E n \in 1 .. Len(requests) : Consume(n) \/ ConsumeInVain(n)
    \/ Approve
    \/ GiveUp

Next == DesktopNext \/ PhoneNext \/ SetClocks

Spec == Init /\ [][Next]_vars

-----------------------------------------------------------------------------
(* The same system when nothing goes wrong: nobody gives up, nothing is lost *)
(* for good and the clocks stand still, the phone's no earlier than the      *)
(* desktop's and no later than the requests' lifetime.                       *)

PatientInit ==
    /\ Init
    /\ clockP \in clockD .. clockD + Ttl

PatientNext ==
    \/ \E r \in Runs, f \in Files : PluginBegin(r, f) \/ CliBegin(r, f)
    \/ \E r \in Runs, i \in 1 .. Len(approvals) : Receive(r, i) \/ LockBusy(r, i)
    \/ \E n \in 1 .. Len(requests) : Consume(n)
    \/ Approve

PatientSpec ==
    /\ PatientInit
    /\ [][PatientNext]_vars
    /\ \A n \in 1 .. MaxRequests : WF_vars(n <= Len(requests) /\ Consume(n))
    /\ WF_vars(Approve)
    /\ \A r \in Runs :
           WF_vars(\E i \in 1 .. Len(approvals) : Receive(r, i))

-----------------------------------------------------------------------------
(* Properties. *)

\* Every variable has its type.
TypeOK ==
    /\ clockD \in Time /\ clockP \in Time
    /\ lock \in Plugins \cup {None}
    /\ requests \in Seq(Request)
    /\ session \in [Runs -> 1 .. Len(requests) \cup {None}]
    /\ pending \in 1 .. Len(requests) \cup {None}
    /\ prompted \in Seq(1 .. Len(requests))
    /\ approvals \in Seq(1 .. Len(requests))
    /\ released \in Seq([run : Runs, file : Files, key : Files,
                         answer : 1 .. Len(approvals)])

\* No request is put before the phone's user twice, however often it arrives,
\* whatever happens to the app in between and however the clock is set.
PromptedOnce ==
    \A i, j \in 1 .. Len(prompted) : prompted[i] = prompted[j] => i = j

\* Every released key rests on an approval of its own: the user was asked about
\* the very request that the releasing run had signed for that file, and no
\* approval is spent twice.
ReleaseIsApproved ==
    /\ \A k \in 1 .. Len(released) :
           LET n == approvals[released[k].answer] IN
           /\ released[k].run = requests[n].run
           /\ released[k].file = released[k].key
           /\ \E j \in 1 .. Len(prompted) : prompted[j] = n
    /\ \A k, l \in 1 .. Len(released) :
           approvals[released[k].answer] = approvals[released[l].answer] => k = l

\* A patient user and a route that loses nothing always lead a plugin run to its
\* key: no order of competing requests, locks and replay checks starves it.
PluginServed ==
    \A r \in Plugins, n \in 1 .. MaxRequests :
        session[r] = n ~> \E k \in 1 .. Len(released) :
                              approvals[released[k].answer] = n
=============================================================================
