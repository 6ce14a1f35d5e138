------------------------- MODULE UnwrapProtocolProofs -------------------------
(***************************************************************************)
(* No request is put to the user twice and no key released without its own *)
(* approval, for any number of runs, files, requests and clock readings.   *)
(* Of the phone's replay store the proof uses only what ReplayContract     *)
(* promises; the desktop's own store is not even needed, for a session     *)
(* takes one answer and no two sessions wait for one request.              *)
(***************************************************************************)
EXTENDS UnwrapProtocol, TLAPS

\* Every request that was put to the user is in the phone's replay store.
Remembered ==
    /\ phoneAccepted \in Seq([scope : {"phone"}, entry : Entries, at : Time])
    /\ \A j \in 1 .. Len(prompted) :
           \E i \in 1 .. Len(phoneAccepted) :
               phoneAccepted[i].entry = RequestEntry(prompted[j])

\* What is shown or was approved has been put to the user.
Asked ==
    /\ pending # None => \E j \in 1 .. Len(prompted) : prompted[j] = pending
    /\ \A i \in 1 .. Len(approvals) :
           \E j \in 1 .. Len(prompted) : prompted[j] = approvals[i]

\* A run waits for its own request, and for none that was answered.
Waiting ==
    \A r \in Runs : session[r] # None =>
        /\ requests[session[r]].run = r
        /\ \A k \in 1 .. Len(released) : approvals[released[k].answer] # session[r]

IInv == TypeOK /\ Remembered /\ Asked /\ Waiting /\ PromptedOnce /\ ReleaseIsApproved

-----------------------------------------------------------------------------
\* The members of the lists.
LEMMA SeqMember ==
    ASSUME NEW S, NEW s \in Seq(S)
    PROVE  Len(s) \in Nat /\ \A i \in 1 .. Len(s) : s[i] \in S
  OBVIOUS

LEMMA SeqMono ==
    ASSUME NEW S, NEW T, S \subseteq T, NEW s \in Seq(S)
    PROVE  s \in Seq(T)
  <1>1. Len(s) \in Nat /\ s \in [1 .. Len(s) -> S]
      OBVIOUS
  <1>2. s \in [1 .. Len(s) -> T]
      BY <1>1
  <1> QED
      BY <1>1, <1>2

Keys == [run : Runs, file : Files, key : Files, answer : 1 .. Len(approvals)]

LEMMA Members ==
    ASSUME TypeOK
    PROVE  /\ {Len(requests), Len(prompted), Len(approvals), Len(released)} \subseteq Nat
           /\ \A n \in 1 .. Len(requests) : requests[n] \in Request
           /\ \A j \in 1 .. Len(prompted) : prompted[j] \in 1 .. Len(requests)
           /\ \A i \in 1 .. Len(approvals) : approvals[i] \in 1 .. Len(requests)
           /\ \A k \in 1 .. Len(released) :
                 released[k] \in Keys /\ released[k].answer \in 1 .. Len(approvals)
  <1>1. Len(requests) \in Nat /\ \A n \in 1 .. Len(requests) : requests[n] \in Request
      BY SeqMember DEF TypeOK
  <1>2. Len(prompted) \in Nat
        /\ \A j \in 1 .. Len(prompted) : prompted[j] \in 1 .. Len(requests)
      BY SeqMember DEF TypeOK
  <1>3. Len(approvals) \in Nat
        /\ \A i \in 1 .. Len(approvals) : approvals[i] \in 1 .. Len(requests)
      BY SeqMember DEF TypeOK
  <1>4. Len(released) \in Nat /\ \A k \in 1 .. Len(released) : released[k] \in Keys
      <2>1. released \in Seq(Keys)
          BY DEF TypeOK, Keys
      <2> QED
          BY <2>1, SeqMember
  <1>5. \A x \in Keys : x.answer \in 1 .. Len(approvals)
      BY DEF Keys
  <1> QED
      BY <1>1, <1>2, <1>3, <1>4, <1>5

LEMMA InitInv == Init => IInv
  BY RunsAssumption
     DEF Init, IInv, TypeOK, Remembered, Asked, Waiting, PromptedOnce, ReleaseIsApproved, Time

\* Steps of the desktop that sign nothing and release nothing.
LEMMA SessionEndsInv ==
    ASSUME IInv, NEW r \in Runs, session' = [session EXCEPT ![r] = None],
           lock' \in {lock, None},
           UNCHANGED <<clocks, phone, requests, released>>
    PROVE  IInv'
  <1>1. TypeOK'
      BY DEF IInv, TypeOK, clocks, phone
  <1>2. Waiting'
      BY DEF IInv, TypeOK, Waiting, clocks, phone
  <1>3. Remembered' /\ Asked' /\ PromptedOnce' /\ ReleaseIsApproved'
      BY DEF IInv, Remembered, Asked, PromptedOnce, ReleaseIsApproved, RequestEntry, clocks, phone
  <1> QED
      BY <1>1, <1>2, <1>3 DEF IInv

\* A new request has a number of its own.
LEMMA BeginInv ==
    ASSUME IInv, NEW r \in Runs, NEW f \in Files, Begin(r, f),
           lock' \in Plugins \cup {None},
           UNCHANGED <<clocks, phone, released>>
    PROVE  IInv'
  <1> USE RunsAssumption
  <1> DEFINE new == [run |-> r, file |-> f, expires |-> clockD + Ttl]
             n == Len(requests) + 1
  <1>1. new \in Request /\ requests \in Seq(Request) /\ Len(requests) \in Nat
      BY DEF IInv, TypeOK, Request, Time
  <1>2. /\ requests' = Append(requests, new) /\ session' = [session EXCEPT ![r] = n]
        /\ UNCHANGED <<clockD, clockP, pending, prompted, approvals, phoneAccepted, released>>
      BY DEF Begin, clocks, phone
  <1>3. /\ requests' \in Seq(Request) /\ Len(requests') = n /\ requests'[n] = new
        /\ \A i \in 1 .. Len(requests) : requests'[i] = requests[i]
      BY <1>1, <1>2
  <1>4. /\ 1 .. Len(requests) \subseteq 1 .. n /\ n \in 1 .. n /\ n \notin 1 .. Len(requests)
      BY <1>1
  <1> HIDE DEF new, n
  <1>5. /\ session' \in [Runs -> 1 .. n \cup {None}]
        /\ pending' \in 1 .. n \cup {None}
      BY <1>2, <1>4 DEF IInv, TypeOK
  <1>6. prompted \in Seq(1 .. Len(requests)) /\ approvals \in Seq(1 .. Len(requests))
      BY DEF IInv, TypeOK
  <1>7. prompted' \in Seq(1 .. n) /\ approvals' \in Seq(1 .. n)
      BY <1>2, <1>4, <1>6, SeqMono
  <1>8. TypeOK'
      BY <1>2, <1>3, <1>5, <1>7 DEF IInv, TypeOK
  <1>9. Remembered'
      <2>1. \A j \in 1 .. Len(prompted) : RequestEntry(prompted[j])' = RequestEntry(prompted[j])
          BY <1>2, <1>3, Members DEF IInv, RequestEntry
      <2> QED
          BY <1>2, <2>1 DEF IInv, Remembered
  <1>10. Waiting'
      <2> SUFFICES ASSUME NEW q \in Runs, session'[q] # None
                   PROVE  /\ requests'[session'[q]].run = q
                          /\ \A k \in 1 .. Len(released') :
                                approvals'[released'[k].answer] # session'[q]
          BY DEF Waiting
      <2> USE <1>2
      <2>1. CASE q = r
          <3>1. session'[q] = n /\ requests'[n].run = r
              BY <1>2, <1>3, <2>1 DEF IInv, TypeOK, new
          <3>2. \A k \in 1 .. Len(released) : approvals[released[k].answer] \in 1 .. Len(requests)
              BY Members DEF IInv
          <3> QED
              BY <1>4, <2>1, <3>1, <3>2
      <2>2. CASE q # r
          <3>1. session'[q] = session[q] /\ session[q] \in 1 .. Len(requests)
              BY <1>2, <2>2 DEF IInv, TypeOK
          <3> QED
              BY <1>3, <3>1 DEF IInv, Waiting
      <2> QED
          BY <2>1, <2>2
  <1>11. Asked' /\ PromptedOnce'
      BY <1>2 DEF IInv, Asked, PromptedOnce
  <1>12. ReleaseIsApproved'
      <2>1. \A k \in 1 .. Len(released) : approvals[released[k].answer] \in 1 .. Len(requests)
          BY Members DEF IInv
      <2> QED
          BY <1>2, <1>3, <2>1 DEF IInv, ReleaseIsApproved
  <1> QED
      BY <1>8, <1>9, <1>10, <1>11, <1>12 DEF IInv

\* The answer that is received is for the request that the run waits on, which ends.
LEMMA ReceiveInv ==
    ASSUME IInv, NEW r \in Runs, NEW i \in 1 .. Len(approvals), Receive(r, i)
    PROVE  IInv'
  <1> USE RunsAssumption
  <1> DEFINE n == session[r]
             key == [run |-> r, file |-> requests[n].file, key |-> requests[approvals[i]].file,
                     answer |-> i]
  <1>1. /\ n \in 1 .. Len(requests) /\ approvals[i] = n /\ requests[n] \in Request
        /\ requests[n].run = r
      BY DEF Receive, AnswersSession, IInv, TypeOK, Waiting
  <1>2. /\ lock' = None /\ session' = [session EXCEPT ![r] = None]
        /\ released' = Append(released, key)
        /\ UNCHANGED <<clockD, clockP, requests, pending, prompted, approvals, phoneAccepted>>
      BY DEF Receive, clocks, phone
  <1>3. key \in [run : Runs, file : Files, key : Files, answer : 1 .. Len(approvals)]
      BY <1>1 DEF Request
  <1>4. /\ released \in Seq([run : Runs, file : Files, key : Files, answer : 1 .. Len(approvals)])
        /\ Len(released) \in Nat
      BY DEF IInv, TypeOK
  <1>5. key.run = r /\ key.file = key.key /\ key.answer = i
      BY <1>1
  <1> HIDE DEF key
  <1>6. /\ released' \in Seq([run : Runs, file : Files, key : Files, answer : 1 .. Len(approvals)])
        /\ Len(released') = Len(released) + 1 /\ released'[Len(released) + 1] = key
        /\ \A k \in 1 .. Len(released) : released'[k] = released[k]
      BY <1>2, <1>3, <1>4
  <1>7. TypeOK'
      BY <1>2, <1>6 DEF IInv, TypeOK
  <1>8. Remembered' /\ Asked' /\ PromptedOnce'
      BY <1>2 DEF IInv, Remembered, Asked, PromptedOnce, RequestEntry
  <1>9. \A k \in 1 .. Len(released') :
            k \in 1 .. Len(released) \/ k = Len(released) + 1
      BY <1>4, <1>6
  <1>10. \A k \in 1 .. Len(released) : approvals[released[k].answer] # n
      BY <1>1 DEF IInv, Waiting, Receive
  <1>11. Waiting'
      <2> SUFFICES ASSUME NEW q \in Runs, session'[q] # None, NEW k \in 1 .. Len(released')
                   PROVE  /\ requests[session'[q]].run = q
                          /\ approvals[released'[k].answer] # session'[q]
          BY <1>2, <1>6, <1>4 DEF Waiting, IInv, TypeOK
      <2>1. q # r /\ session'[q] = session[q] /\ requests[session[q]].run = q
          BY <1>2 DEF IInv, TypeOK, Waiting
      <2>2. CASE k \in 1 .. Len(released)
          BY <1>6, <2>1, <2>2 DEF IInv, Waiting
      <2>3. CASE k = Len(released) + 1
          BY <1>1, <1>5, <1>6, <2>1, <2>3
      <2> QED
          BY <1>9, <2>1, <2>2, <2>3
  <1>12. ReleaseIsApproved'
      <2>1. ASSUME NEW k \in 1 .. Len(released')
            PROVE  /\ released'[k].run = requests[approvals[released'[k].answer]].run
                   /\ released'[k].file = released'[k].key
                   /\ \E j \in 1 .. Len(prompted) : prompted[j] = approvals[released'[k].answer]
          <3>1. CASE k \in 1 .. Len(released)
              <4>1. released'[k] = released[k]
                  BY <1>6, <3>1
              <4>2. /\ released[k].run = requests[approvals[released[k].answer]].run
                    /\ released[k].file = released[k].key
                    /\ \E j \in 1 .. Len(prompted) : prompted[j] = approvals[released[k].answer]
                  BY <3>1 DEF IInv, ReleaseIsApproved
              <4> QED
                  BY <4>1, <4>2
          <3>2. CASE k = Len(released) + 1
              BY <1>1, <1>5, <1>6, <3>2 DEF IInv, Asked
          <3> QED
              BY <1>9, <3>1, <3>2
      <2>2. ASSUME NEW k \in 1 .. Len(released'), NEW l \in 1 .. Len(released'),
                   approvals[released'[k].answer] = approvals[released'[l].answer]
            PROVE  k = l
          <3>1. CASE k \in 1 .. Len(released) /\ l \in 1 .. Len(released)
              BY <1>6, <2>2, <3>1 DEF IInv, ReleaseIsApproved
          <3>2. CASE k = Len(released) + 1 /\ l \in 1 .. Len(released)
              BY <1>1, <1>5, <1>6, <1>10, <2>2, <3>2
          <3>3. CASE l = Len(released) + 1 /\ k \in 1 .. Len(released)
              BY <1>1, <1>5, <1>6, <1>10, <2>2, <3>3
          <3> QED
              BY <1>9, <3>1, <3>2, <3>3
      <2> QED
          BY <1>2, <2>1, <2>2 DEF ReleaseIsApproved
  <1> QED
      BY <1>7, <1>8, <1>11, <1>12 DEF IInv

\* What the phone's replay store lets pass has not been put to the user: were it
\* in the store, it would have to have expired, and it has not.
LEMMA Unprompted ==
    ASSUME IInv, NEW n \in 1 .. Len(requests), TimeValid(n, clockP),
           PhoneStore!Accept("phone", RequestEntry(n), clockP)
    PROVE  /\ \A j \in 1 .. Len(prompted) : prompted[j] # n
           /\ phoneAccepted' \in Seq([scope : {"phone"}, entry : Entries, at : Time])
           /\ Len(phoneAccepted') = Len(phoneAccepted) + 1 /\ Len(phoneAccepted) \in Nat
           /\ phoneAccepted'[Len(phoneAccepted) + 1].entry = RequestEntry(n)
           /\ \A i \in 1 .. Len(phoneAccepted) : phoneAccepted'[i] = phoneAccepted[i]
  <1> USE RunsAssumption
  <1> DEFINE entry == [scope |-> "phone", entry |-> RequestEntry(n), at |-> clockP]
  <1>1. requests[n].expires \in Nat /\ clockP \in Nat /\ requests[n].expires >= clockP
      <2>1. requests[n] \in Request
          BY Members DEF IInv
      <2> QED
          BY <2>1 DEF IInv, TypeOK, Request, Time, TimeValid
  <1>2. RequestEntry(n) \in Entries /\ RequestEntry(n).expires = requests[n].expires
        /\ RequestEntry(n).keys = {<<"request", n>>}
      <2>1. n \in Nat
          BY DEF IInv, TypeOK
      <2> QED
          BY <1>1, <2>1 DEF RequestEntry, Entries
  <1>3. phoneAccepted' = Append(phoneAccepted, entry)
      BY DEF PhoneStore!Accept
  <1>4. phoneAccepted \in Seq([scope : {"phone"}, entry : Entries, at : Time])
      BY DEF IInv, Remembered
  <1>5. entry \in [scope : {"phone"}, entry : Entries, at : Time] /\ entry.entry = RequestEntry(n)
      BY <1>2 DEF IInv, TypeOK
  <1>6. ASSUME NEW j \in 1 .. Len(prompted), prompted[j] = n PROVE FALSE
      <2>1. PICK i \in 1 .. Len(phoneAccepted) : phoneAccepted[i].entry = RequestEntry(n)
          BY <1>6 DEF IInv, Remembered
      <2>2. phoneAccepted[i].entry.keys \cap RequestEntry(n).keys # {}
          BY <2>1, <1>2
      <2>3. RequestEntry(n).expires < clockP
          BY <2>1, <2>2 DEF PhoneStore!Accept, PhoneStore!MayAccept
      <2> QED
          BY <1>1, <1>2, <2>3
  <1> HIDE DEF entry
  <1> QED
      BY <1>3, <1>4, <1>5, <1>6

LEMMA ConsumeInv ==
    ASSUME IInv, NEW n \in 1 .. Len(requests), Consume(n) \/ ConsumeInVain(n)
    PROVE  IInv'
  <1> USE RunsAssumption
  <1>1. /\ TimeValid(n, clockP) /\ PhoneStore!Accept("phone", RequestEntry(n), clockP)
        /\ UNCHANGED <<clockD, clockP, lock, session, requests, released, approvals>>
      BY DEF Consume, ConsumeInVain, clocks, desktop
  <1>2. /\ \A j \in 1 .. Len(prompted) : prompted[j] # n
        /\ phoneAccepted' \in Seq([scope : {"phone"}, entry : Entries, at : Time])
        /\ Len(phoneAccepted') = Len(phoneAccepted) + 1 /\ Len(phoneAccepted) \in Nat
        /\ phoneAccepted'[Len(phoneAccepted) + 1].entry = RequestEntry(n)
        /\ \A i \in 1 .. Len(phoneAccepted) : phoneAccepted'[i] = phoneAccepted[i]
      BY <1>1, Unprompted
  <1>3. \A m : RequestEntry(m)' = RequestEntry(m)
      BY <1>1 DEF RequestEntry
  <1>4. prompted \in Seq(1 .. Len(requests)) /\ Len(prompted) \in Nat
      BY DEF IInv, TypeOK
  <1>5. \A j \in 1 .. Len(prompted) : \E i \in 1 .. Len(phoneAccepted') :
            phoneAccepted'[i].entry = RequestEntry(prompted[j])
      BY <1>2 DEF IInv, Remembered
  <1>6. CASE prompted' = prompted /\ pending' = pending
      <2>1. TypeOK'
          BY <1>1, <1>6 DEF IInv, TypeOK
      <2>2. Remembered'
          BY <1>1, <1>2, <1>3, <1>5, <1>6 DEF Remembered, Time
      <2>3. Asked' /\ Waiting' /\ PromptedOnce' /\ ReleaseIsApproved'
          BY <1>1, <1>6 DEF IInv, Asked, Waiting, PromptedOnce, ReleaseIsApproved
      <2> QED
          BY <2>1, <2>2, <2>3 DEF IInv
  <1>7. CASE prompted' = Append(prompted, n) /\ pending' = n
      <2>1. /\ prompted' \in Seq(1 .. Len(requests)) /\ Len(prompted') = Len(prompted) + 1
            /\ prompted'[Len(prompted) + 1] = n
            /\ \A j \in 1 .. Len(prompted) : prompted'[j] = prompted[j]
          BY <1>4, <1>7
      <2>2. \A j \in 1 .. Len(prompted') : j \in 1 .. Len(prompted) \/ j = Len(prompted) + 1
          BY <1>4, <2>1
      <2>3. 1 .. Len(prompted) \subseteq 1 .. Len(prompted')
            /\ Len(prompted) + 1 \in 1 .. Len(prompted')
            /\ Len(phoneAccepted) + 1 \in 1 .. Len(phoneAccepted')
          BY <1>2, <1>4, <2>1
      <2>4. TypeOK'
          BY <1>1, <1>7, <2>1 DEF IInv, TypeOK
      <2>5. Remembered'
          <3>1. ASSUME NEW j \in 1 .. Len(prompted')
                PROVE  \E i \in 1 .. Len(phoneAccepted') :
                           phoneAccepted'[i].entry = RequestEntry(prompted'[j])
              <4>1. CASE j \in 1 .. Len(prompted)
                  BY <1>5, <2>1, <4>1
              <4>2. CASE j = Len(prompted) + 1
                  BY <1>2, <2>1, <2>3, <4>2
              <4> QED
                  BY <2>2, <4>1, <4>2
          <3> QED
              BY <1>2, <1>3, <3>1 DEF Remembered, Time
      <2>6. Asked'
          BY <1>1, <1>7, <2>1, <2>3 DEF IInv, Asked
      <2>7. Waiting'
          BY <1>1 DEF IInv, Waiting
      <2>8. PromptedOnce'
          BY <1>2, <2>1, <2>2 DEF IInv, PromptedOnce
      <2>9. ReleaseIsApproved'
          BY <1>1, <2>1, <2>3 DEF IInv, ReleaseIsApproved
      <2> QED
          BY <2>4, <2>5, <2>6, <2>7, <2>8, <2>9 DEF IInv
  <1> QED
      BY <1>6, <1>7 DEF Consume, ConsumeInVain

LEMMA ApproveInv ==
    ASSUME IInv, Approve
    PROVE  IInv'
  <1> USE RunsAssumption
  <1>1. /\ pending \in 1 .. Len(requests) /\ pending' = None
        /\ approvals' = Append(approvals, pending)
        /\ UNCHANGED <<clockD, clockP, lock, session, requests, released, prompted, phoneAccepted>>
      BY DEF Approve, IInv, TypeOK, clocks, desktop
  <1>2. approvals \in Seq(1 .. Len(requests)) /\ Len(approvals) \in Nat
      BY DEF IInv, TypeOK
  <1>3. /\ approvals' \in Seq(1 .. Len(requests)) /\ Len(approvals') = Len(approvals) + 1
        /\ approvals'[Len(approvals) + 1] = pending
        /\ \A i \in 1 .. Len(approvals) : approvals'[i] = approvals[i]
      BY <1>1, <1>2
  <1>4. 1 .. Len(approvals) \subseteq 1 .. Len(approvals')
        /\ \A i \in 1 .. Len(approvals') : i \in 1 .. Len(approvals) \/ i = Len(approvals) + 1
      BY <1>2, <1>3
  <1>5. \A k \in 1 .. Len(released) : released[k].answer \in 1 .. Len(approvals)
      BY Members DEF IInv
  <1>6. released \in Seq(Keys') /\ released' = released
      <2>1. Keys \subseteq Keys'
          BY <1>1, <1>4 DEF Keys
      <2>2. released \in Seq(Keys)
          BY DEF IInv, TypeOK, Keys
      <2> QED
          BY <1>1, <2>1, <2>2, SeqMono
  <1>7. TypeOK'
      BY <1>1, <1>3, <1>6 DEF IInv, TypeOK, Keys
  <1>8. Remembered' /\ PromptedOnce'
      BY <1>1 DEF IInv, Remembered, PromptedOnce, RequestEntry, Time
  <1>9. Asked'
      BY <1>1, <1>3, <1>4 DEF IInv, Asked, Approve
  <1>10. Waiting'
      BY <1>1, <1>3, <1>5 DEF IInv, Waiting
  <1>11. ReleaseIsApproved'
      BY <1>1, <1>3, <1>5 DEF IInv, ReleaseIsApproved
  <1> QED
      BY <1>7, <1>8, <1>9, <1>10, <1>11 DEF IInv

\* Every step keeps the invariant; clocks and given up prompts change nothing it says.
LEMMA NextInv == IInv /\ [Next]_vars => IInv'
  <1> USE RunsAssumption
  <1> SUFFICES ASSUME IInv, [Next]_vars PROVE IInv'
      OBVIOUS
  <1>1. ASSUME NEW r \in Runs, NEW f \in Files, PluginBegin(r, f) \/ CliBegin(r, f)
        PROVE  IInv'
      <2>1. Begin(r, f) /\ lock' \in Plugins \cup {None} /\ UNCHANGED <<clocks, phone, released>>
          BY <1>1 DEF PluginBegin, CliBegin, IInv, TypeOK
      <2> QED
          BY <2>1, BeginInv
  <1>2. ASSUME NEW r \in Runs, NEW i \in 1 .. Len(approvals), Receive(r, i)
        PROVE  IInv'
      BY <1>2, ReceiveInv
  <1>3. ASSUME NEW r \in Runs, NEW i \in 1 .. Len(approvals), LockBusy(r, i)
        PROVE  IInv'
      BY <1>3, SessionEndsInv DEF LockBusy
  <1>4. ASSUME NEW r \in Runs, Cancel(r)
        PROVE  IInv'
      BY <1>4, SessionEndsInv DEF Cancel
  <1>5. ASSUME NEW n \in 1 .. Len(requests), Consume(n) \/ ConsumeInVain(n)
        PROVE  IInv'
      BY <1>5, ConsumeInv
  <1>6. CASE Approve
      BY <1>6, ApproveInv
  <1>7. CASE GiveUp \/ SetClocks \/ UNCHANGED vars
      <2>1. /\ clockD' \in Time /\ clockP' \in Time /\ pending' \in {pending, None}
            /\ UNCHANGED <<lock, session, requests, released, prompted, approvals, phoneAccepted>>
          BY <1>7 DEF GiveUp, SetClocks, vars, clocks, desktop, phone, IInv, TypeOK
      <2>2. TypeOK'
          BY <2>1 DEF IInv, TypeOK
      <2>3. Remembered' /\ Asked' /\ Waiting' /\ PromptedOnce' /\ ReleaseIsApproved'
          BY <2>1 DEF IInv, Remembered, Asked, Waiting, PromptedOnce, ReleaseIsApproved,
                      RequestEntry, Time
      <2> QED
          BY <2>2, <2>3 DEF IInv
  <1> QED
      BY <1>1, <1>2, <1>3, <1>4, <1>5, <1>6, <1>7 DEF Next, DesktopNext, PhoneNext

-----------------------------------------------------------------------------
\* Every variable keeps its type.
THEOREM TypeCorrect == Spec => []TypeOK
  <1>1. IInv => TypeOK
      BY DEF IInv
  <1> QED
      BY InitInv, NextInv, <1>1, PTL DEF Spec

\* No request is put to the user twice, over any replays, restarts and clock changes
\* (preparePhoneUnwrap over a replay store that keeps ReplayContract).
THEOREM NeverPromptedTwice == Spec => []PromptedOnce
  <1>1. IInv => PromptedOnce
      BY DEF IInv
  <1> QED
      BY InitInv, NextInv, <1>1, PTL DEF Spec

\* Every released key rests on an approval of its own, of the very request that the
\* releasing run signed for that file (open_response, receive_response).
THEOREM EveryReleaseApproved == Spec => []ReleaseIsApproved
  <1>1. IInv => ReleaseIsApproved
      BY DEF IInv
  <1> QED
      BY InitInv, NextInv, <1>1, PTL DEF Spec
=============================================================================
