--------------------------- MODULE PairingProofs ---------------------------
(***************************************************************************)
(* Whatever routes mix up, however commands fail, and at whichever step    *)
(* they die: a finished command is paired with the phone its user held,    *)
(* and keeps its files unless a command that ran beside it undid them.     *)
(* For any number of commands and phones, on whatever paths.               *)
(***************************************************************************)
EXTENDS Pairing, SequenceTheorems, FiniteSetTheorems, TLAPS

\* A command that has its desktop state: not before it is opened, and until all
\* is undone.
Ready == {"offering", "exchanging", "confirming", "replay", "locator", "stub", "done"}

\* A command whose desktop no other can have opened.
Unnamed == {"idle", "opening", "naming"}

\* A command that has been answered, and one whose user has compared the screens.
Answered == {"confirming", "replay", "locator", "stub", "done"}
Confirmed == {"replay", "locator", "stub", "done"}

\* The messages there are.
Offers == {SignedOffer(d, a) : d, a \in Attempts}
Answers == {Answer(h, offer, n) : h \in Phones, offer \in Offers, n \in 0 .. MaxResponses}

Attempt == [pc : Steps, hand : Phones \cup {None}, desktop : DesktopPaths,
            replay : ReplayPaths, stub : IdentityPaths, id : Attempts \cup {None},
            existed : BOOLEAN, beside : SUBSET Attempts, response : Answers \cup {None},
            todo : Seq(Undo)]

AttTyped == att \in [Attempts -> Attempt]
FilesTyped ==
    /\ platform \in {"linux", "windows"}
    /\ state \in [DesktopPaths -> Attempts \cup {None, Torn}]
    /\ replay \in [ReplayPaths -> (Attempts \X Phones) \cup {None}]
    /\ stubs = [i \in IdentityPaths |-> stubs[i]]
    /\ keys \subseteq Attempts /\ lock \subseteq ReplayPaths
    /\ \A l \in locators : l.scope \in Attempts \X Phones
PhonesTyped ==
    /\ sent \subseteq {Encode(m) : m \in Offers \cup Answers} /\ IsFiniteSet(sent)
    /\ screen \in [Phones -> [offer : Offers, response : Answers] \cup {None}]
    /\ records = [h \in Phones |-> records[h]]

\* What a command knows at its step.
Local(a) == LET r == att[a] IN
    /\ r.pc \in {"idle", "opening"} => r.id = None
    /\ r.pc # "idle" => r.hand \in Phones
    /\ r.pc \in Ready \cup {"naming", "rollback"} => r.id \in Attempts

\* A response that a command keeps is a valid answer to its own offer.
Verified(a) == LET r == att[a] IN
    r.response # None \/ r.pc \in Answered =>
        /\ r.id \in Attempts
        /\ r.response \in Answers /\ r.response # Bad
        /\ PairingVerifies(r.response, OfferOf(a))

\* One desktop state has one path: that of the command that made it.
OnePath ==
    /\ \A a \in Attempts : att[a].id # None => att[att[a].id].desktop = att[a].desktop
    /\ \A p \in DesktopPaths : state[p] \in Attempts => att[state[p]].desktop = p

\* A desktop that others have opened, or can, is past its naming.
Named ==
    /\ \A a \in Attempts : att[a].id \notin {None, a} => att[att[a].id].pc \notin Unnamed
    /\ \A p \in DesktopPaths : state[p] \in Attempts => att[state[p]].pc \notin Unnamed

\* Two commands met if one was under way when the other started; those that are
\* under way have.
Meet(a, b) == b \in att[a].beside \/ a \in att[b].beside
Met == \A a, b \in Attempts : a # b /\ Running(a) /\ Running(b) => Meet(a, b)

\* Who starts after a command has finished finds its files, or they are undone.
Late ==
    \A a \in Done, c \in Attempts : Running(c) /\ ~Meet(a, c) =>
        /\ att[c].desktop = att[a].desktop /\ ~att[c].existed => StateUndone(a)
        /\ att[c].replay = att[a].replay => ReplayUndone(a)

\* The desktop state is there from when it is opened or made, its keys first.
Intact(a) == LET r == att[a] IN
    /\ state[r.desktop] = r.id
    /\ platform = "windows" => r.id \in keys
Held(a) == LET r == att[a] IN
    /\ r.pc = "naming" => r.id = a /\ a \in keys
    /\ r.pc \in Ready => Intact(a) \/ StateUndone(a)

\* A command that wrote its locator and has not undone it.
Claims(a) == LET r == att[a] IN
    r.pc \in {"stub", "done"} \/ (r.pc = "rollback" /\ 1 \in DOMAIN r.todo /\ r.todo[1] = "locator")

\* The files of a pairing are there from when they are made.
Made(a) == LET r == att[a] IN
    /\ r.pc \in {"locator", "stub", "done"} => replay[r.replay] = Scope(a) \/ ReplayUndone(a)
    /\ Claims(a) => LocatorOf(a) \in locators
    /\ r.pc = "done" =>
        /\ stubs[r.stub] # None
        /\ \E kind \in RecipientTypes : stubs[r.stub] = IdentityFile(StubOf(a), kind)

\* Only the command that found no desktop state undoes it; the locator goes first.
Undoes(a) == LET r == att[a] IN
    r.pc = "rollback" =>
        \A i \in DOMAIN r.todo :
            /\ r.todo[i] \in {"state", "keys"} => ~r.existed
            /\ r.todo[i] = "locator" => i = 1

\* No two commands claim locators of one scope.
Apart == \A a, b \in Attempts : a # b /\ Claims(a) /\ Claims(b) => Scope(a) # Scope(b)

\* The answer of one phone, whatever it answers.
AnswerOf(h, m) ==
    /\ m.payload.identity = h
    /\ m.payload.recipient = Text("age1phone", LegacyRecipient(<<"identity", h>>))
    /\ m.payload.signing = <<"phone", h>>

\* A phone shows its own answers, and what was compared is that of the phone in hand.
Shown ==
    /\ \A h \in Phones : screen[h] # None => AnswerOf(h, screen[h].response)
    /\ \A a \in Attempts :
         att[a].pc \in Confirmed => AnswerOf(att[a].hand, att[a].response)

\* The record of a desktop and a phone: it does not depend on the transcript.
Record(d, h) == [desktop |-> d, identity |-> h, signing |-> <<"sign", d>>,
                 selection |-> <<"select", d>>, phone |-> <<"phone", h>>]

Recorded ==
    \A h \in Phones : \A r \in records[h] :
        \E a \in Attempts :
            att[a].hand = h /\ att[a].id \in Attempts /\ r = Record(att[a].id, h)

Typed == AttTyped /\ FilesTyped /\ PhonesTyped
Commands == \A a \in Attempts : Local(a) /\ Verified(a)
Paths == OnePath /\ Named /\ \A a \in Attempts : Held(a)
Beside == Met /\ Late
Files == Apart /\ \A a \in Attempts : Made(a) /\ Undoes(a)

IInv == Typed /\ Commands /\ Paths /\ Beside /\ Files /\ Shown /\ Recorded

-----------------------------------------------------------------------------
(* The messages. *)

LEMMA OfferIs ==
    ASSUME NEW d \in Attempts, NEW a
    PROVE  SignedOffer(d, a) =
               Signed(<<"sign", d>>, Offer(d, <<"sign", d>>, <<"select", d>>, a))
  <1>1. <<"select", d>> \in Keys /\ <<"select", d>> # <<"sign", d>>
      BY PairingAssumption
  <1> QED
      BY <1>1 DEF SignedOffer, SignOffer, ValidOffer, Offer

LEMMA AnswerIs ==
    ASSUME NEW h \in Phones, NEW o \in Offers, NEW n \in 0 .. MaxResponses
    PROVE  Answer(h, o, n) =
               Signed(<<"phone", h>>,
                      PairingResponse(h, Text("age1phone", LegacyRecipient(<<"identity", h>>)),
                                      <<"phone", h>>, o, n))
  <1> DEFINE r == LegacyRecipient(<<"identity", h>>)
             text == Text("age1phone", r)
             p == PairingResponse(h, text, <<"phone", h>>, o, n)
  <1>1. r # Bad
    <2>1. PICK d \in Attempts, a \in Attempts : o = SignedOffer(d, a)
        BY DEF Offers
    <2> QED
        BY <2>1, BadAssumption
  <1>2. <<"identity", h>> \in Keys /\ <<"phone", h>> \in Keys
        /\ <<"identity", h>> # <<"phone", h>>
      BY PairingAssumption
  <1>3. r.version = 1 /\ r.phone = <<"identity", h>>
      BY DEF LegacyRecipient
  <1>4. text.payload = r
      BY DEF Text
  <1>5. ReadText(1, text) = r
      BY <1>2, <1>3, <1>4 DEF ReadText, ReadRecipient
  <1>6. p.recipient = text /\ p.signing = <<"phone", h>>
      BY DEF PairingResponse
  <1> HIDE DEF r, text, p
  <1>7. ValidPairing(p)
      BY <1>1, <1>2, <1>3, <1>5, <1>6 DEF ValidPairing
  <1>8. SignPairing(p, <<"phone", h>>) = Signed(<<"phone", h>>, p)
      BY <1>6, <1>7 DEF SignPairing
  <1> QED
      BY <1>8 DEF Answer, p, text, r

LEMMA Kinds ==
    /\ \A m \in Offers : m.payload.kind = "offer"
    /\ \A m \in Answers : m.payload.kind = "pairing"
  <1>1. \A m \in Offers : m.payload.kind = "offer"
      BY OfferIs DEF Offers, Signed, Offer
  <1>2. \A m \in Answers : m.payload.kind = "pairing"
    <2> SUFFICES ASSUME NEW h \in Phones, NEW o \in Offers, NEW n \in 0 .. MaxResponses
                 PROVE  Answer(h, o, n).payload.kind = "pairing"
        BY DEF Answers
    <2> DEFINE text == Text("age1phone", LegacyRecipient(<<"identity", h>>))
    <2>1. Answer(h, o, n) = Signed(<<"phone", h>>, PairingResponse(h, text, <<"phone", h>>, o, n))
        BY AnswerIs
    <2> HIDE DEF text
    <2> QED
        BY <2>1 DEF Signed, PairingResponse
  <1> QED
      BY <1>1, <1>2

\* What is read from the routes has been sent.
LEMMA ReadIsSent ==
    ASSUME PhonesTyped, NEW wire \in sent, NEW kind, Decode(kind, wire) # Bad
    PROVE  /\ kind = "offer" => Decode(kind, wire) \in Offers
           /\ kind = "pairing" => Decode(kind, wire) \in Answers
  <1>1. PICK m \in Offers \cup Answers : wire = Encode(m)
      BY DEF PhonesTyped
  <1>2. wire.message = m
      BY <1>1 DEF Encode
  <1>3. Decode(kind, wire) = m /\ m.payload.kind = kind
      BY <1>2 DEF Decode
  <1> QED
      BY <1>3, Kinds

-----------------------------------------------------------------------------
(* The steps of one command. *)

\* A command's step leaves the others, and what a command was given, alone.
Moves(a, s) ==
    /\ AttTyped' /\ att'[a].pc = s
    /\ \A b \in Attempts \ {a} : att'[b] = att[b]

Stays(a) ==
    /\ att'[a].hand = att[a].hand /\ att'[a].desktop = att[a].desktop
    /\ att'[a].replay = att[a].replay /\ att'[a].stub = att[a].stub
    /\ att'[a].existed = att[a].existed /\ att'[a].beside = att[a].beside

LEMMA SetMoves ==
    ASSUME AttTyped, NEW a \in Attempts, NEW r \in Attempt, att' = [att EXCEPT ![a] = r]
    PROVE  Moves(a, r.pc) /\ att'[a] = r
  BY DEF AttTyped, Moves

LEMMA GotoMoves ==
    ASSUME AttTyped, NEW a \in Attempts, NEW s \in Steps,
           att' = [att EXCEPT ![a].pc = s]
    PROVE  /\ Moves(a, s) /\ Stays(a) /\ att'[a].id = att[a].id
           /\ att'[a].response = att[a].response
  BY DEF AttTyped, Attempt, Moves, Stays

LEMMA NamedMoves ==
    ASSUME AttTyped, NEW a \in Attempts, NEW s \in Steps, NEW id \in Attempts,
           att' = [att EXCEPT ![a].id = id, ![a].pc = s]
    PROVE  /\ Moves(a, s) /\ Stays(a) /\ att'[a].id = id
           /\ att'[a].response = att[a].response
  <1> DEFINE r == [att[a] EXCEPT !.id = id, !.pc = s]
  <1>1. att[a] \in Attempt
      BY DEF AttTyped
  <1>2. r \in Attempt
      BY <1>1 DEF Attempt
  <1>3. /\ r.pc = s /\ r.id = id /\ r.response = att[a].response
        /\ r.hand = att[a].hand /\ r.desktop = att[a].desktop
        /\ r.replay = att[a].replay /\ r.stub = att[a].stub
        /\ r.existed = att[a].existed /\ r.beside = att[a].beside
      BY <1>1 DEF Attempt
  <1>4. att' = [att EXCEPT ![a] = r]
      BY DEF AttTyped
  <1> HIDE DEF r
  <1> QED
      BY <1>2, <1>3, <1>4, SetMoves DEF Stays

LEMMA OverMoves ==
    ASSUME AttTyped, NEW a \in Attempts,
           NEW s \in {"ended", "rolled back"}, att' = Over(a, s)
    PROVE  /\ Moves(a, s) /\ Stays(a) /\ att'[a].id = att[a].id /\ att'[a].response = None
  <1> DEFINE r == [att[a] EXCEPT !.pc = s, !.response = None, !.todo = <<>>]
  <1>1. att[a] \in Attempt /\ <<>> \in Seq(Undo) /\ s \in Steps
      BY EmptySeq DEF AttTyped, Steps, Ended
  <1>2. r \in Attempt
      BY <1>1 DEF Attempt
  <1>3. /\ r.pc = s /\ r.id = att[a].id /\ r.response = None
        /\ r.hand = att[a].hand /\ r.desktop = att[a].desktop
        /\ r.replay = att[a].replay /\ r.stub = att[a].stub
        /\ r.existed = att[a].existed /\ r.beside = att[a].beside
      BY <1>1 DEF Attempt
  <1>4. att' = [att EXCEPT ![a] = r]
      BY DEF AttTyped, Over
  <1> HIDE DEF r
  <1> QED
      BY <1>2, <1>3, <1>4, SetMoves DEF Stays

\* A list of what is to be undone, with or without a locator.
LEMMA TodoLists ==
    ASSUME NEW locator \in {<<>>, <<"locator">>},
           NEW rest \in {<<>>, <<"state">>, <<"keys", "state">>}
    PROVE  LET todo == locator \o <<"replay", "lock">> \o rest IN
           /\ todo \in Seq(Undo)
           /\ \A i \in DOMAIN todo :
                /\ todo[i] \in {"state", "keys"} => rest # <<>>
                /\ todo[i] = "locator" => i = 1 /\ locator = <<"locator">>
  <1> DEFINE two == <<"replay", "lock">>
             todo == (locator \o two) \o rest
  <1>1. locator \in Seq(Undo) /\ two \in Seq(Undo) /\ rest \in Seq(Undo)
    <2>1. /\ two \in [1 .. 2 -> Undo] /\ <<"locator">> \in [1 .. 1 -> Undo]
          /\ <<"state">> \in [1 .. 1 -> Undo] /\ <<"keys", "state">> \in [1 .. 2 -> Undo]
        BY DEF Undo
    <2>2. \A n \in Nat : [1 .. n -> Undo] \subseteq Seq(Undo)
        BY SeqDef
    <2> QED
        BY <2>1, <2>2, EmptySeq
  <1>2. /\ Len(two) = 2 /\ two[1] = "replay" /\ two[2] = "lock"
        /\ locator = <<>> => Len(locator) = 0
        /\ locator # <<>> => Len(locator) = 1 /\ locator[1] = "locator"
      OBVIOUS
  <1>3. /\ rest = <<>> => Len(rest) = 0
        /\ \A i \in 1 .. Len(rest) : rest[i] \in {"state", "keys"}
      OBVIOUS
  <1> HIDE DEF two
  <1>4. /\ locator \o two \in Seq(Undo) /\ Len(locator \o two) = Len(locator) + 2
        /\ \A i \in 1 .. Len(locator) + 2 :
             (locator \o two)[i] = IF i <= Len(locator) THEN locator[i]
                                  ELSE two[i - Len(locator)]
    <2>1. /\ locator \o two \in Seq(Undo)
          /\ Len(locator \o two) = Len(locator) + Len(two)
          /\ \A i \in 1 .. Len(locator) + Len(two) :
               (locator \o two)[i] = IF i <= Len(locator) THEN locator[i]
                                    ELSE two[i - Len(locator)]
        BY <1>1, ConcatProperties, Zenon
    <2> QED
        BY <2>1, <1>2, Zenon
  <1>5. /\ todo \in Seq(Undo) /\ Len(todo) = Len(locator) + 2 + Len(rest)
        /\ \A i \in 1 .. Len(todo) :
             todo[i] = IF i <= Len(locator) + 2 THEN (locator \o two)[i]
                       ELSE rest[i - (Len(locator) + 2)]
      BY <1>1, <1>4, ConcatProperties
  <1>6. DOMAIN todo = 1 .. Len(todo)
      BY <1>5
  <1> HIDE DEF todo
  <1>7. ASSUME NEW i \in DOMAIN todo
        PROVE  /\ todo[i] \in {"state", "keys"} => rest # <<>>
               /\ todo[i] = "locator" => i = 1 /\ locator = <<"locator">>
    <2>1. CASE i <= Len(locator)
        BY <2>1, <1>2, <1>4, <1>5, <1>6
    <2>2. CASE i > Len(locator) /\ i <= Len(locator) + 2
        BY <2>2, <1>2, <1>4, <1>5, <1>6
    <2>3. CASE i > Len(locator) + 2
      <3>1. i - (Len(locator) + 2) \in 1 .. Len(rest) /\ todo[i] = rest[i - (Len(locator) + 2)]
          BY <2>3, <1>1, <1>2, <1>5, <1>6
      <3> QED
          BY <3>1, <1>3
    <2> QED
        BY <2>1, <2>2, <2>3, <1>2, <1>6
  <1> QED
      BY <1>5, <1>7 DEF todo, two

LEMMA RollBackMoves ==
    ASSUME AttTyped, NEW a \in Attempts,
           NEW locator \in {<<>>, <<"locator">>}, RollBack(a, locator)
    PROVE  /\ Moves(a, "rollback") /\ Stays(a)
           /\ att'[a].id = att[a].id /\ att'[a].response = att[a].response
           /\ \A i \in DOMAIN att'[a].todo :
                /\ att'[a].todo[i] \in {"state", "keys"} => ~att[a].existed
                /\ att'[a].todo[i] = "locator" => i = 1 /\ locator = <<"locator">>
  <1> DEFINE rest == IF att[a].existed THEN <<>>
                     ELSE IF platform = "windows" THEN <<"keys", "state">> ELSE <<"state">>
             todo == locator \o <<"replay", "lock">> \o rest
  <1>1. rest \in {<<>>, <<"state">>, <<"keys", "state">>} /\ (rest # <<>> => ~att[a].existed)
      OBVIOUS
  <1>2. /\ todo \in Seq(Undo)
        /\ \A i \in DOMAIN todo :
             /\ todo[i] \in {"state", "keys"} => rest # <<>>
             /\ todo[i] = "locator" => i = 1 /\ locator = <<"locator">>
      BY <1>1, TodoLists
  <1> HIDE DEF todo, rest
  <1> DEFINE r == [att[a] EXCEPT !.pc = "rollback", !.todo = todo]
  <1>3. att[a] \in Attempt /\ "rollback" \in Steps
      BY DEF AttTyped, Steps
  <1>4. r \in Attempt
      BY <1>2, <1>3 DEF Attempt
  <1>5. /\ r.pc = "rollback" /\ r.todo = todo
        /\ r.id = att[a].id /\ r.response = att[a].response
        /\ r.hand = att[a].hand /\ r.desktop = att[a].desktop
        /\ r.replay = att[a].replay /\ r.stub = att[a].stub
        /\ r.existed = att[a].existed /\ r.beside = att[a].beside
      BY <1>3 DEF Attempt
  <1>6. att' = [att EXCEPT ![a] = r]
      BY DEF AttTyped, RollBack, todo, rest
  <1> HIDE DEF r
  <1>7. Moves(a, "rollback") /\ att'[a] = r
      BY <1>4, <1>5, <1>6, SetMoves
  <1>8. Stays(a)
      BY <1>5, <1>7 DEF Stays
  <1>9. /\ att'[a].id = att[a].id /\ att'[a].response = att[a].response
        /\ att'[a].todo = todo
      BY <1>5, <1>7
  <1> QED
      BY <1>1, <1>2, <1>7, <1>8, <1>9

-----------------------------------------------------------------------------
(* What every step of a command has in common. *)

LEMMA InitInv == Init => IInv
  <1> SUFFICES ASSUME Init PROVE IInv
      OBVIOUS
  <1>1. PICK paths \in Given : att = [a \in Attempts |-> NewAttempt(paths[a])]
      BY DEF Init
  <1>2. ASSUME NEW a \in Attempts PROVE NewAttempt(paths[a]) \in Attempt
    <2>1. paths[a] \in [desktop : DesktopPaths, replay : ReplayPaths, stub : IdentityPaths]
        BY PairingAssumption
    <2>2. <<>> \in Seq(Undo)
        BY EmptySeq
    <2> QED
        BY <2>1, <2>2 DEF NewAttempt, Attempt, Steps, Ended
  <1>3. Typed
    <2>1. AttTyped
        BY <1>1, <1>2 DEF AttTyped
    <2> QED
        BY <2>1, FS_EmptySet DEF Init, Typed, FilesTyped, PhonesTyped
  <1>4. \A a \in Attempts : att[a].pc = "idle" /\ att[a].id = None /\ att[a].response = None
      BY <1>1 DEF NewAttempt
  <1>5. Commands
      BY <1>4 DEF Commands, Local, Verified, Ready, Answered
  <1>6. Paths
      BY <1>4, PairingAssumption DEF Init, Paths, OnePath, Named, Held, Ready
  <1>7. Beside
      BY <1>4 DEF Beside, Met, Late, Running, Ended, Done
  <1>8. Files
      BY <1>4 DEF Files, Apart, Claims, Made, Undoes
  <1>9. Shown /\ Recorded
      BY <1>4 DEF Init, Shown, Recorded, Confirmed
  <1> QED
      BY <1>3, <1>5, <1>6, <1>7, <1>8, <1>9 DEF IInv

LEMMA AttIsTyped ==
    ASSUME IInv, NEW a \in Attempts
    PROVE  /\ att[a].pc \in Steps /\ att[a].hand \in Phones \cup {None}
           /\ att[a].desktop \in DesktopPaths /\ att[a].replay \in ReplayPaths
           /\ att[a].stub \in IdentityPaths /\ att[a].id \in Attempts \cup {None}
           /\ att[a].existed \in BOOLEAN /\ att[a].beside \subseteq Attempts
           /\ att[a].todo \in Seq(Undo)
           /\ att[a].pc # "idle" => att[a].hand \in Phones
  BY DEF IInv, Typed, AttTyped, Attempt, Commands, Local

\* What an answered command is about.
LEMMA ConfirmedHas ==
    ASSUME IInv, NEW a \in Attempts, att[a].pc \in Confirmed
    PROVE  /\ AnswerOf(att[a].hand, att[a].response)
           /\ Scope(a) = <<att[a].id, att[a].hand>>
           /\ Scope(a) \in Attempts \X Phones
           /\ att[a].pc \in Answered /\ att[a].pc \in Ready
  <1>1. AnswerOf(att[a].hand, att[a].response)
      BY DEF IInv, Shown
  <1>2. att[a].id \in Attempts /\ att[a].hand \in Phones
      BY DEF IInv, Commands, Local, Confirmed, Ready
  <1> QED
      BY <1>1, <1>2 DEF AnswerOf, Scope, Confirmed, Answered, Ready

LEMMA CommandsInv ==
    ASSUME Commands, NEW a \in Attempts, NEW s, Moves(a, s), Local(a)', Verified(a)'
    PROVE  Commands'
  BY DEF Commands, Moves, Local, Verified, OfferOf

\* A command that goes on with what it has.
LEMMA GoesOn ==
    ASSUME IInv, NEW a \in Attempts, NEW s, Moves(a, s), Stays(a), att'[a].id = att[a].id,
           att'[a].response = att[a].response, Running(a),
           s \in Answered => att[a].pc \in Answered, s # "idle", s # "opening",
           s \in Ready \cup {"naming", "rollback"} =>
               att[a].pc \in Ready \cup {"naming", "rollback"}
    PROVE  Commands'
  <1>1. Local(a) /\ Verified(a)
      BY DEF IInv, Commands
  <1>2. Local(a)'
      BY <1>1 DEF Local, Moves, Stays, Running, Ended
  <1>3. Verified(a)'
      BY <1>1 DEF Verified, Moves, OfferOf
  <1> QED
      BY <1>2, <1>3, CommandsInv DEF IInv

\* Who is paired with whom is settled once it is compared, and lasts.
LEMMA WhoInv ==
    ASSUME IInv, NEW a \in Attempts, NEW s, Moves(a, s),
           att[a].id \in Attempts => att'[a].hand = att[a].hand /\ att'[a].id = att[a].id,
           s \in Confirmed => AnswerOf(att'[a].hand, att'[a].response),
           UNCHANGED <<screen, records>>
    PROVE  Shown' /\ Recorded'
  <1>1. Shown'
      BY DEF IInv, Shown, Moves, AnswerOf
  <1>2. ASSUME NEW h \in Phones, NEW r \in records[h]
        PROVE  \E b \in Attempts :
                   att'[b].hand = h /\ att'[b].id \in Attempts /\ r = Record(att'[b].id, h)
    <2>1. PICK b \in Attempts :
              att[b].hand = h /\ att[b].id \in Attempts /\ r = Record(att[b].id, h)
        BY DEF IInv, Recorded
    <2>2. att'[b].hand = att[b].hand /\ att'[b].id = att[b].id
        BY <2>1 DEF Moves
    <2> QED
        BY <2>1, <2>2
  <1>3. Recorded'
      BY <1>2 DEF Recorded, Record
  <1> QED
      BY <1>1, <1>3

\* A rollback never turns into anything else: what it undid stays undone, and who
\* met whom is settled when a command starts.
LEMMA BesideInv ==
    ASSUME IInv, NEW a \in Attempts, NEW s, Moves(a, s), Stays(a), Running(a),
           att[a].pc = "rollback" => s \in {"rollback", "rolled back"}
    PROVE  /\ Beside'
           /\ \A b \in Attempts : /\ StateUndone(b) => StateUndone(b)'
                                  /\ ReplayUndone(b) => ReplayUndone(b)'
  <1>1. \A b \in Attempts :
            /\ att'[b].beside = att[b].beside /\ att'[b].desktop = att[b].desktop
            /\ att'[b].replay = att[b].replay /\ att'[b].existed = att[b].existed
            /\ att[b].pc \in {"rollback", "rolled back"} =>
                   att'[b].pc \in {"rollback", "rolled back"}
            /\ Running(b)' => Running(b)
      BY DEF Moves, Stays, Running, Ended
  <1>2. \A b \in Attempts : Crossed(b) \subseteq Crossed(b)'
      BY <1>1 DEF Crossed
  <1>3. \A b \in Attempts : /\ StateUndone(b) => StateUndone(b)'
                            /\ ReplayUndone(b) => ReplayUndone(b)'
    <2>1. \A b \in Attempts : Crossed(b) \subseteq Attempts
        BY DEF Crossed
    <2> QED
        BY <1>1, <1>2, <2>1 DEF StateUndone, ReplayUndone
  <1>4. \A b, c \in Attempts : Meet(b, c)' = Meet(b, c)
      BY <1>1 DEF Meet
  <1>5. Met'
      BY <1>1, <1>4 DEF IInv, Beside, Met
  <1>6. ASSUME NEW b \in Attempts, att'[b].pc = "done", NEW c \in Attempts, Running(c)',
               ~Meet(b, c)'
        PROVE  /\ att'[c].desktop = att'[b].desktop /\ ~att'[c].existed => StateUndone(b)'
               /\ att'[c].replay = att'[b].replay => ReplayUndone(b)'
    <2>1. Running(c) /\ ~Meet(b, c) /\ b # c
        BY <1>1, <1>4, <1>6 DEF Running, Ended
    <2>2. b # a
        BY <2>1 DEF IInv, Beside, Met
    <2>3. b \in Done
        BY <1>6, <2>2 DEF Done, Moves
    <2> QED
        BY <1>1, <1>3, <2>1, <2>3 DEF IInv, Beside, Late
  <1>7. Late'
      BY <1>6 DEF Late, Done
  <1> QED
      BY <1>3, <1>5, <1>7 DEF Beside

\* A desktop goes by the path and the name of the command that made it.
LEMMA NamesInv ==
    ASSUME IInv, NEW a \in Attempts, NEW s, Moves(a, s), att'[a].desktop = att[a].desktop,
           s \in Unnamed => att[a].pc \in Unnamed,
           \/ att'[a].id = att[a].id
           \/ att'[a].id = a
           \/ /\ att'[a].id \in Attempts /\ att[att'[a].id].desktop = att[a].desktop
              /\ att[att'[a].id].pc \notin Unnamed,
           \A p \in DesktopPaths :
               \/ state'[p] \in {state[p], None, Torn}
               \/ state'[p] = a /\ p = att[a].desktop /\ s \notin Unnamed
    PROVE  OnePath' /\ Named'
  <1>1. \A b \in Attempts : /\ att'[b].desktop = att[b].desktop
                            /\ att'[b].pc \in Unnamed => att[b].pc \in Unnamed
      BY DEF Moves
  <1>2. ASSUME NEW b \in Attempts, att'[b].id # None
        PROVE  /\ att'[b].id \in Attempts
               /\ att'[att'[b].id].desktop = att'[b].desktop
               /\ att'[b].id # b => att'[att'[b].id].pc \notin Unnamed
    <2> DEFINE i == att'[b].id
    <2>1. i \in Attempts
        BY <1>2 DEF Moves, AttTyped, Attempt
    <2>2. /\ att[i].desktop = att[b].desktop
          /\ i # b => att[i].pc \notin Unnamed
      <3>1. CASE i = att[b].id
          BY <1>2, <3>1 DEF IInv, Paths, OnePath, Named
      <3>2. CASE i # att[b].id
          BY <3>2 DEF Moves
      <3> QED
          BY <3>1, <3>2
    <2> QED
        BY <1>1, <2>1, <2>2
  <1>3. ASSUME NEW p \in DesktopPaths, state'[p] \in Attempts
        PROVE  att'[state'[p]].desktop = p /\ att'[state'[p]].pc \notin Unnamed
    <2>1. CASE state'[p] = state[p]
        BY <1>1, <1>3, <2>1 DEF IInv, Paths, OnePath, Named
    <2>2. CASE state'[p] = a /\ p = att[a].desktop /\ s \notin Unnamed
        BY <1>1, <2>2 DEF Moves
    <2> QED
        BY <1>3, <2>1, <2>2, PairingAssumption
  <1>4. OnePath'
      BY <1>2, <1>3 DEF OnePath
  <1>5. Named'
      BY <1>2, <1>3 DEF Named
  <1> QED
      BY <1>4, <1>5

\* Those who have a desktop state keep it while files are only made where none are,
\* and keys are only taken from where no state names them yet.
LEMMA HeldInv ==
    ASSUME IInv, NEW a \in Attempts, NEW s, Moves(a, s),
           \A b \in Attempts \ {a} : StateUndone(b) => StateUndone(b)',
           platform' = platform,
           \/ state' = state
           \/ /\ state[att[a].desktop] = None
              /\ \E x : state' = [state EXCEPT ![att[a].desktop] = x],
           keys \subseteq keys' \/ (keys' = keys \ {a} /\ att[a].pc = "naming")
    PROVE  \A b \in Attempts \ {a} : Held(b)'
  <1> SUFFICES ASSUME NEW b \in Attempts \ {a} PROVE Held(b)'
      OBVIOUS
  <1>1. att'[b] = att[b] /\ Held(b)
      BY DEF Moves, IInv, Paths
  <1>2. CASE att[b].pc = "naming"
      BY <1>1, <1>2 DEF Held, Ready
  <1>3. CASE att[b].pc \in Ready /\ Intact(b)
    <2>1. att[b].id \in Attempts /\ att[b].desktop \in DesktopPaths
        BY <1>3, AttIsTyped DEF IInv, Commands, Local
    <2>2. state'[att[b].desktop] = state[att[b].desktop]
        BY <1>3, <2>1, PairingAssumption DEF Intact, IInv, Typed, FilesTyped
    <2>3. att[b].id \in keys => att[b].id \in keys'
      <3>1. att[b].id = a => att[a].pc # "naming"
          BY <2>1, PairingAssumption DEF IInv, Paths, Named, Unnamed
      <3> QED
          BY <3>1
    <2> QED
        BY <1>1, <1>3, <2>2, <2>3 DEF Held, Intact, Ready
  <1>4. CASE att[b].pc \in Ready /\ StateUndone(b)
      BY <1>1, <1>4 DEF Held, Ready
  <1>5. CASE att[b].pc \notin Ready \cup {"naming"}
      BY <1>1, <1>5 DEF Held
  <1> QED
      BY <1>1, <1>2, <1>3, <1>4, <1>5 DEF Held

\* The files of the others stay: theirs are never written over, and a locator goes
\* only with the claim to its scope.
LEMMA FilesInv ==
    ASSUME IInv, NEW a \in Attempts, NEW s, Moves(a, s), Made(a)', Undoes(a)',
           \A b \in Attempts \ {a} :
               att[b].pc \in {"locator", "stub", "done"} =>
                   \/ replay'[att[b].replay] = Scope(b)
                   \/ ReplayUndone(b)',
           \/ stubs' = stubs
           \/ /\ stubs[att[a].stub] = None
              /\ \E x : stubs' = [stubs EXCEPT ![att[a].stub] = x],
           \A l \in locators : l \in locators' \/ (Claims(a) /\ l.scope = Scope(a)),
           Claims(a)' => Scope(a)' = Scope(a) /\ (Claims(a) \/ LocatorFree(a))
    PROVE  Files'
  <1>1. ASSUME NEW b \in Attempts \ {a}
        PROVE  /\ att'[b] = att[b] /\ Made(b) /\ Undoes(b)
               /\ Scope(b)' = Scope(b) /\ LocatorOf(b)' = LocatorOf(b) /\ StubOf(b)' = StubOf(b)
               /\ Claims(b)' = Claims(b)
    <2>1. att'[b] = att[b] /\ Made(b) /\ Undoes(b)
        BY DEF Moves, IInv, Files
    <2> QED
        BY <2>1 DEF Scope, LocatorOf, StubOf, OfferOf, Claims
  <1>2. ASSUME NEW b \in Attempts \ {a} PROVE Made(b)' /\ Undoes(b)'
    <2>1. Claims(b) => LocatorOf(b) \in locators'
      <3> SUFFICES ASSUME Claims(b) PROVE LocatorOf(b) \in locators'
          OBVIOUS
      <3>1. LocatorOf(b) \in locators /\ LocatorOf(b).scope = Scope(b)
          BY <1>1 DEF Made, LocatorOf
      <3>2. ~(Claims(a) /\ Scope(b) = Scope(a))
          BY DEF IInv, Files, Apart
      <3> QED
          BY <3>1, <3>2
    <2>2. att[b].pc = "done" => stubs'[att[b].stub] = stubs[att[b].stub]
        BY <1>1, AttIsTyped DEF Made, IInv, Typed, FilesTyped
    <2>3. Made(b)'
        BY <1>1, <2>1, <2>2 DEF Made
    <2>4. Undoes(b)'
        BY <1>1 DEF Undoes
    <2> QED
        BY <2>3, <2>4
  <1>3. ASSUME NEW b \in Attempts \ {a}, Claims(a)', Claims(b)' PROVE Scope(a)' # Scope(b)'
    <2>1. Claims(b) /\ LocatorOf(b) \in locators /\ LocatorOf(b).scope = Scope(b)
        BY <1>1, <1>3 DEF Made, LocatorOf
    <2>2. Scope(a) # Scope(b)
        BY <1>3, <2>1 DEF IInv, Files, Apart, LocatorFree
    <2> QED
        BY <1>1, <1>3, <2>2
  <1>4. Apart'
      BY <1>1, <1>3 DEF IInv, Files, Apart
  <1> QED
      BY <1>2, <1>4 DEF Files

\* The phones are as they were.
LEMMA PhonesSame ==
    ASSUME IInv, UNCHANGED network PROVE PhonesTyped' /\ UNCHANGED <<sent, screen, records>>
  BY DEF IInv, Typed, PhonesTyped, network

\* A replay state is only made where none is.
LEMMA ReplayKept ==
    ASSUME IInv, NEW a \in Attempts, NEW b \in Attempts,
           att[b].pc \in {"locator", "stub", "done"},
           \/ replay' = replay
           \/ /\ replay[att[a].replay] = None
              /\ \E x : replay' = [replay EXCEPT ![att[a].replay] = x],
           ReplayUndone(b) => ReplayUndone(b)'
    PROVE  replay'[att[b].replay] = Scope(b) \/ ReplayUndone(b)'
  <1>1. replay[att[b].replay] = Scope(b) \/ ReplayUndone(b)
      BY DEF IInv, Files, Made
  <1>2. /\ Scope(b) # None /\ att[b].replay \in ReplayPaths
      BY ConfirmedHas, AttIsTyped, PairingAssumption DEF Confirmed
  <1> QED
      BY <1>1, <1>2 DEF IInv, Typed, FilesTyped

\* A command that has its desktop state, and whose files stay as they are.
LEMMA PathsKept ==
    ASSUME IInv, NEW a \in Attempts, NEW s, Moves(a, s), Stays(a), att'[a].id = att[a].id,
           Running(a), att[a].pc = "rollback" => s \in {"rollback", "rolled back"},
           s \notin Unnamed, s \in Ready => att[a].pc \in Ready,
           UNCHANGED <<platform, state, keys>>
    PROVE  /\ Paths' /\ Beside'
           /\ \A b \in Attempts : ReplayUndone(b) => ReplayUndone(b)'
  <1>1. /\ Beside'
        /\ \A b \in Attempts : /\ StateUndone(b) => StateUndone(b)'
                               /\ ReplayUndone(b) => ReplayUndone(b)'
      BY BesideInv
  <1>2. OnePath' /\ Named'
      BY NamesInv DEF Stays
  <1>3. \A b \in Attempts \ {a} : Held(b)'
      BY <1>1, HeldInv
  <1>4. Held(a)'
      BY <1>1 DEF IInv, Paths, Held, Intact, Moves, Stays, Unnamed
  <1> QED
      BY <1>1, <1>2, <1>3, <1>4 DEF Paths

\* No file of a pairing is made or undone.
LEMMA FilesKept ==
    ASSUME IInv, NEW a \in Attempts, NEW s, Moves(a, s),
           s \notin {"locator", "stub", "done", "rollback"},
           \A b \in Attempts \ {a} : ReplayUndone(b) => ReplayUndone(b)',
           UNCHANGED <<replay, locators, stubs>>
    PROVE  Files'
  <1>1. Made(a)' /\ Undoes(a)' /\ ~Claims(a)'
      BY DEF Made, Undoes, Claims, Moves
  <1>2. \A b \in Attempts \ {a} :
            att[b].pc \in {"locator", "stub", "done"} =>
                replay'[att[b].replay] = Scope(b) \/ ReplayUndone(b)'
      BY ReplayKept
  <1> QED
      BY <1>1, <1>2, FilesInv

\* A command that is over changes nothing more, whatever it leaves half done.
LEMMA OverInv ==
    ASSUME IInv, NEW a \in Attempts, NEW s \in {"ended", "rolled back"},
           att' = Over(a, s), Running(a), att[a].pc = "rollback" => s = "rolled back",
           UNCHANGED <<platform, replay, lock, locators, stubs, network>>,
           \/ state' = state
           \/ state[att[a].desktop] = None /\ state' = [state EXCEPT ![att[a].desktop] = Torn],
           keys' = keys \/ (keys' = keys \ {a} /\ att[a].pc = "naming")
    PROVE  IInv'
  <1>1. /\ Moves(a, s) /\ Stays(a) /\ att'[a].id = att[a].id /\ att'[a].response = None
      BY OverMoves DEF IInv, Typed, network
  <1>2. att[a].desktop \in DesktopPaths /\ att[a].hand \in Phones
      BY AttIsTyped DEF Running, Ended
  <1>3. Typed'
    <2>1. FilesTyped'
        BY <1>2 DEF IInv, Typed, FilesTyped
    <2> QED
        BY <2>1, <1>1, PhonesSame DEF Typed, Moves
  <1>4. Commands'
    <2>1. Local(a)' /\ Verified(a)'
        BY <1>1, <1>2 DEF Local, Verified, Moves, Stays, Ready, Answered
    <2> QED
        BY <2>1, <1>1, CommandsInv DEF IInv
  <1>5. /\ Beside'
        /\ \A b \in Attempts : /\ StateUndone(b) => StateUndone(b)'
                               /\ ReplayUndone(b) => ReplayUndone(b)'
      BY <1>1, BesideInv
  <1>6. Paths'
    <2>1. OnePath' /\ Named'
      <3>1. \A p \in DesktopPaths : state'[p] \in {state[p], None, Torn}
          BY <1>2 DEF IInv, Typed, FilesTyped
      <3> QED
          BY <3>1, <1>1, NamesInv DEF Stays, Unnamed
    <2>2. \A b \in Attempts \ {a} : Held(b)'
      <3>1. keys \subseteq keys' \/ (keys' = keys \ {a} /\ att[a].pc = "naming")
          OBVIOUS
      <3>2. \/ state' = state
            \/ /\ state[att[a].desktop] = None
               /\ \E x : state' = [state EXCEPT ![att[a].desktop] = x]
          OBVIOUS
      <3>3. platform' = platform
          OBVIOUS
      <3> QED
          BY <3>1, <3>2, <3>3, <1>1, <1>5, HeldInv
    <2>3. Held(a)'
        BY <1>1 DEF Held, Moves, Ready
    <2> QED
        BY <2>1, <2>2, <2>3 DEF Paths
  <1>7. Files'
      BY <1>1, <1>5, FilesKept
  <1>8. Shown' /\ Recorded'
      BY <1>1, WhoInv DEF network, Confirmed, Stays
  <1> QED
      BY <1>3, <1>4, <1>5, <1>6, <1>7, <1>8 DEF IInv

\* What a failed command lists is to be undone; it claims its locator only if it had
\* written it.
LEMMA RollBackInv ==
    ASSUME IInv, NEW a \in Attempts, NEW locator \in {<<>>, <<"locator">>},
           RollBack(a, locator), Running(a), att[a].pc \in Ready,
           UNCHANGED <<platform, state, keys, replay, stubs, network>>,
           lock' \subseteq ReplayPaths,
           \/ locators' = locators
           \/ /\ LocatorFree(a) /\ locators' = locators \cup {LocatorOf(a)}
              /\ Scope(a) \in Attempts \X Phones,
           locator = <<"locator">> => att[a].pc = "stub"
    PROVE  IInv'
  <1>1. /\ Moves(a, "rollback") /\ Stays(a)
        /\ att'[a].id = att[a].id /\ att'[a].response = att[a].response
        /\ \A i \in DOMAIN att'[a].todo :
             /\ att'[a].todo[i] \in {"state", "keys"} => ~att[a].existed
             /\ att'[a].todo[i] = "locator" => i = 1 /\ locator = <<"locator">>
      BY RollBackMoves DEF IInv, Typed, network
  <1>2. Typed'
    <2>1. FilesTyped'
        BY DEF IInv, Typed, FilesTyped, LocatorOf
    <2> QED
        BY <2>1, <1>1, PhonesSame DEF Typed, Moves
  <1>3. Commands'
      BY <1>1, GoesOn DEF Answered, Ready
  <1>4. /\ Paths' /\ Beside'
        /\ \A b \in Attempts : ReplayUndone(b) => ReplayUndone(b)'
      BY <1>1, PathsKept DEF Ready, Unnamed
  <1>5. Files'
    <2>1. Scope(a)' = Scope(a) /\ LocatorOf(a)' = LocatorOf(a)
        BY <1>1 DEF LocatorOf, Scope, Stays
    <2>2. Claims(a)' => Claims(a)
        BY <1>1 DEF Claims, Moves
    <2>3. Made(a)'
      <3>1. Claims(a) => LocatorOf(a) \in locators
          BY DEF IInv, Files, Made
      <3> QED
          BY <1>1, <2>1, <2>2, <3>1 DEF Made, Moves
    <2>4. Undoes(a)'
        BY <1>1 DEF Undoes, Stays
    <2>5. \A b \in Attempts \ {a} :
              att[b].pc \in {"locator", "stub", "done"} =>
                  replay'[att[b].replay] = Scope(b) \/ ReplayUndone(b)'
        BY <1>4, ReplayKept
    <2> QED
        BY <2>1, <2>2, <2>3, <2>4, <2>5, <1>1, FilesInv
  <1>6. Shown' /\ Recorded'
      BY <1>1, WhoInv DEF network, Confirmed, Stays
  <1> QED
      BY <1>2, <1>3, <1>4, <1>5, <1>6 DEF IInv

-----------------------------------------------------------------------------
(* The command, step by step. *)

\* Starting settles whom a command meets; what is undone for the others stays so.
LEMMA StartInv == ASSUME IInv, NEW a \in Attempts, Start(a) PROVE IInv'
  <1> DEFINE e == state[att[a].desktop] # None
             beside == {b \in Attempts : Running(b)}
  <1>1. /\ att[a].pc = "idle"
        /\ replay[att[a].replay] = None
        /\ UNCHANGED <<platform, desktopFiles, network>>
      BY DEF Start
  <1>2. PICK h \in Phones :
            att' = [att EXCEPT ![a].pc = "opening", ![a].hand = h, ![a].existed = e,
                               ![a].beside = beside]
      BY DEF Start
  <1>3. att[a].id = None /\ att[a].response = None
      BY <1>1, PairingAssumption DEF IInv, Commands, Local, Verified
  <1>4. /\ Moves(a, "opening") /\ att'[a].hand = h /\ att'[a].id = None
        /\ att'[a].existed = e /\ att'[a].beside = beside /\ att'[a].response = None
        /\ att'[a].desktop = att[a].desktop /\ att'[a].replay = att[a].replay
    <2>1. /\ att[a] \in Attempt /\ "opening" \in Steps /\ e \in BOOLEAN
          /\ beside \subseteq Attempts /\ AttTyped
        BY DEF IInv, Typed, AttTyped, Steps
    <2>2. att' = [att EXCEPT ![a] = [att[a] EXCEPT !.pc = "opening", !.hand = h,
                                                   !.existed = e, !.beside = beside]]
        BY <1>2 DEF IInv, Typed, AttTyped
    <2> HIDE DEF e, beside
    <2> DEFINE r == [att[a] EXCEPT !.pc = "opening", !.hand = h, !.existed = e,
                                   !.beside = beside]
    <2>3. r \in Attempt
        BY <2>1 DEF Attempt
    <2>4. /\ r.pc = "opening" /\ r.hand = h /\ r.existed = e /\ r.beside = beside
          /\ r.id = att[a].id /\ r.response = att[a].response
          /\ r.desktop = att[a].desktop /\ r.replay = att[a].replay
        BY <2>1 DEF Attempt
    <2> HIDE DEF r
    <2>5. Moves(a, "opening") /\ att'[a] = r
        BY <2>1, <2>2, <2>3, <2>4, SetMoves DEF r
    <2> QED
        BY <2>4, <2>5, <1>3
  <1>5. Typed'
    <2>1. FilesTyped'
        BY <1>1 DEF IInv, Typed, FilesTyped, desktopFiles
    <2> QED
        BY <2>1, <1>1, <1>4, PhonesSame DEF Typed, Moves
  <1>6. Commands'
    <2>1. Local(a)' /\ Verified(a)'
        BY <1>4, PairingAssumption DEF Local, Verified, Moves, Ready, Answered
    <2> QED
        BY <2>1, <1>4, CommandsInv DEF IInv
  <1>7. ASSUME NEW b \in Attempts \ {a}
        PROVE  /\ StateUndone(b) => StateUndone(b)'
               /\ ReplayUndone(b) => ReplayUndone(b)'
    <2>1. Crossed(b) \subseteq Attempts \ {a}
        BY <1>1 DEF Crossed
    <2>2. \A c \in Attempts \ {a} : att'[c] = att[c]
        BY <1>4 DEF Moves
    <2>3. Crossed(b) \subseteq Crossed(b)'
        BY <2>1, <2>2 DEF Crossed
    <2> QED
        BY <2>1, <2>2, <2>3 DEF StateUndone, ReplayUndone
  <1>8. Beside'
    <2>1. \A b \in Attempts \ {a} : att'[b] = att[b] /\ Running(b)' = Running(b)
        BY <1>4 DEF Moves, Running
    <2>2. \A b, c \in Attempts \ {a} : Meet(b, c)' = Meet(b, c)
        BY <2>1 DEF Meet
    <2>3. \A b \in Attempts \ {a} : Running(b) => Meet(a, b)' /\ Meet(b, a)'
        BY <1>4 DEF Meet
    <2>4. Met'
        BY <2>1, <2>2, <2>3 DEF Met, IInv, Beside
    <2>5. ASSUME NEW b \in Done', NEW c \in Attempts, Running(c)', ~Meet(b, c)'
          PROVE  /\ att'[c].desktop = att'[b].desktop /\ ~att'[c].existed => StateUndone(b)'
                 /\ att'[c].replay = att'[b].replay => ReplayUndone(b)'
      <3>1. b \in Attempts \ {a} /\ b \in Done /\ att'[b] = att[b] /\ att[b].pc = "done"
          BY <1>4 DEF Done, Moves
      <3>2. CASE c # a
          BY <3>1, <3>2, <2>1, <2>2, <2>5, <1>7 DEF IInv, Beside, Late
      <3>3. CASE c = a
        <4>1. Scope(b) # None /\ att[b].id # None
            BY <3>1, ConfirmedHas, PairingAssumption
            DEF Confirmed, IInv, Commands, Local, Ready
        <4>2. state[att[b].desktop] = att[b].id \/ StateUndone(b)
            BY <3>1 DEF IInv, Paths, Held, Intact, Ready
        <4>3. replay[att[b].replay] = Scope(b) \/ ReplayUndone(b)
            BY <3>1 DEF IInv, Files, Made
        <4> QED
            BY <3>1, <3>3, <4>1, <4>2, <4>3, <1>1, <1>4, <1>7
      <3> QED
          BY <3>2, <3>3
    <2>6. Late'
        BY <2>5 DEF Late
    <2> QED
        BY <2>4, <2>6 DEF Beside
  <1>9. Paths'
    <2>1. OnePath' /\ Named'
        BY <1>1, <1>3, <1>4, NamesInv DEF Unnamed, desktopFiles
    <2>2. \A b \in Attempts \ {a} : Held(b)'
        BY <1>1, <1>4, <1>7, HeldInv DEF desktopFiles
    <2>3. Held(a)'
        BY <1>4 DEF Held, Moves, Ready
    <2> QED
        BY <2>1, <2>2, <2>3 DEF Paths
  <1>10. Files'
      BY <1>1, <1>4, <1>7, FilesKept DEF desktopFiles
  <1>11. Shown' /\ Recorded'
      BY <1>1, <1>3, <1>4, WhoInv, PairingAssumption DEF network, Confirmed
  <1> QED
      BY <1>5, <1>6, <1>8, <1>9, <1>10, <1>11 DEF IInv

\* A command gets its desktop: that of the state it opens, or itself.
LEMMA NamedInv ==
    ASSUME IInv, NEW a \in Attempts, NEW s \in {"naming", "offering"}, NEW id \in Attempts,
           att[a].pc = "opening", att' = [att EXCEPT ![a].id = id, ![a].pc = s],
           UNCHANGED <<platform, replay, lock, locators, stubs, network>>,
           keys' = keys \/ keys' = keys \cup {a},
           \/ /\ state' = state /\ att[id].desktop = att[a].desktop
              /\ id = a \/ att[id].pc \notin Unnamed
           \/ /\ id = a /\ state[att[a].desktop] = None /\ s = "offering"
              /\ state' = [state EXCEPT ![att[a].desktop] = a],
           s = "naming" => id = a /\ a \in keys',
           s = "offering" => /\ state'[att[a].desktop] = id
                             /\ platform = "windows" => id \in keys'
    PROVE  IInv'
  <1>1. /\ Moves(a, s) /\ Stays(a) /\ att'[a].id = id
        /\ att'[a].response = att[a].response
    <2>1. s \in Steps
        BY DEF Steps
    <2> QED
        BY <2>1, NamedMoves DEF IInv, Typed, network
  <1>2. /\ att[a].desktop \in DesktopPaths /\ att[a].hand \in Phones /\ att[a].id = None
        /\ Running(a)
      BY AttIsTyped DEF IInv, Commands, Local, Running, Ended
  <1>3. Typed'
    <2>1. FilesTyped'
        BY <1>2 DEF IInv, Typed, FilesTyped
    <2> QED
        BY <2>1, <1>1, PhonesSame DEF Typed, Moves
  <1>4. Commands'
    <2>1. att[a].response = None
        BY <1>2, PairingAssumption DEF IInv, Commands, Verified
    <2>2. Local(a)' /\ Verified(a)'
        BY <1>1, <1>2, <2>1 DEF Local, Verified, Moves, Stays, Ready, Answered
    <2> QED
        BY <2>2, <1>1, CommandsInv DEF IInv
  <1>5. /\ Beside'
        /\ \A b \in Attempts : /\ StateUndone(b) => StateUndone(b)'
                               /\ ReplayUndone(b) => ReplayUndone(b)'
      BY <1>1, <1>2, BesideInv
  <1>6. Paths'
    <2>1. OnePath' /\ Named'
      <3>1. \A p \in DesktopPaths :
                \/ state'[p] \in {state[p], None, Torn}
                \/ state'[p] = a /\ p = att[a].desktop /\ s \notin Unnamed
          BY <1>2 DEF IInv, Typed, FilesTyped, Unnamed
      <3>2. \/ id = att[a].id
            \/ id = a
            \/ /\ id \in Attempts /\ att[id].desktop = att[a].desktop
               /\ att[id].pc \notin Unnamed
          OBVIOUS
      <3>3. s \in Unnamed => att[a].pc \in Unnamed
          BY DEF Unnamed
      <3> QED
          BY <3>1, <3>2, <3>3, <1>1, NamesInv DEF Stays
    <2>2. \A b \in Attempts \ {a} : Held(b)'
      <3>1. /\ keys \subseteq keys' /\ platform' = platform
            /\ \/ state' = state
               \/ /\ state[att[a].desktop] = None
                  /\ \E x : state' = [state EXCEPT ![att[a].desktop] = x]
          OBVIOUS
      <3> QED
          BY <3>1, <1>1, <1>5, HeldInv
    <2>3. Held(a)'
        BY <1>1 DEF Held, Intact, Moves, Stays, Ready
    <2> QED
        BY <2>1, <2>2, <2>3 DEF Paths
  <1>7. Files'
      BY <1>1, <1>5, FilesKept
  <1>8. Shown' /\ Recorded'
      BY <1>1, <1>2, WhoInv, PairingAssumption DEF network, Confirmed
  <1> QED
      BY <1>3, <1>4, <1>5, <1>6, <1>7, <1>8 DEF IInv

LEMMA OpenStateInv == ASSUME IInv, NEW a \in Attempts, OpenState(a) PROVE IInv'
  <1> DEFINE id == state[att[a].desktop]
  <1>1. /\ att[a].pc = "opening" /\ Running(a)
        /\ UNCHANGED <<platform, state, keys, replay, lock, locators, stubs, network>>
      BY DEF OpenState, desktopFiles, Running, Ended
  <1>2. CASE Opens(a) /\ att' = [att EXCEPT ![a].id = id, ![a].pc = "offering"]
    <2>1. id \in Attempts /\ (platform = "windows" => id \in keys)
        BY <1>1, <1>2, AttIsTyped DEF Opens, IInv, Typed, FilesTyped
    <2>2. att[id].desktop = att[a].desktop /\ att[id].pc \notin Unnamed
        BY <1>1, <2>1, AttIsTyped DEF IInv, Paths, OnePath, Named
    <2> QED
        BY <1>1, <1>2, <2>1, <2>2, NamedInv
  <1>3. CASE att' = Over(a, "ended")
      BY <1>1, <1>3, OverInv
  <1> QED
      BY <1>2, <1>3 DEF OpenState

LEMMA CreateSoftwareStateInv ==
    ASSUME IInv, NEW a \in Attempts, CreateSoftwareState(a) PROVE IInv'
  <1>1. /\ att[a].pc = "opening" /\ Running(a) /\ att[a].desktop \in DesktopPaths
        /\ platform = "linux" /\ state[att[a].desktop] = None
        /\ UNCHANGED <<platform, keys, replay, lock, locators, stubs, network>>
      BY AttIsTyped DEF CreateSoftwareState, Running, Ended
  <1>2. CASE /\ state' = [state EXCEPT ![att[a].desktop] = a]
             /\ att' = [att EXCEPT ![a].id = a, ![a].pc = "offering"]
    <2>1. state'[att[a].desktop] = a
        BY <1>1, <1>2 DEF IInv, Typed, FilesTyped
    <2> QED
        BY <1>1, <1>2, <2>1, NamedInv
  <1>3. CASE /\ state' \in {state, [state EXCEPT ![att[a].desktop] = Torn]}
             /\ att' = Over(a, "ended")
      BY <1>1, <1>3, OverInv
  <1> QED
      BY <1>2, <1>3 DEF CreateSoftwareState

LEMMA CreateKeysInv == ASSUME IInv, NEW a \in Attempts, CreateKeys(a) PROVE IInv'
  <1>1. /\ att[a].pc = "opening" /\ Running(a)
        /\ UNCHANGED <<platform, state, replay, lock, locators, stubs, network>>
      BY DEF CreateKeys, Running, Ended
  <1>2. CASE keys' = keys \cup {a} /\ att' = [att EXCEPT ![a].id = a, ![a].pc = "naming"]
      BY <1>1, <1>2, NamedInv
  <1>3. CASE att' = Over(a, "ended") /\ UNCHANGED keys
      BY <1>1, <1>3, OverInv
  <1> QED
      BY <1>2, <1>3 DEF CreateKeys

LEMMA CreateStateFileInv == ASSUME IInv, NEW a \in Attempts, CreateStateFile(a) PROVE IInv'
  <1> DEFINE path == att[a].desktop
  <1>1. /\ att[a].pc = "naming" /\ Running(a) /\ path \in DesktopPaths
        /\ att[a].hand \in Phones /\ att[a].id = a /\ a \in keys
        /\ UNCHANGED <<platform, replay, lock, locators, stubs, network>>
      BY AttIsTyped DEF CreateStateFile, Running, Ended, IInv, Paths, Held
  <1>2. CASE keys' \in {keys, keys \ {a}} /\ att' = Over(a, "ended") /\ UNCHANGED state
      BY <1>1, <1>2, OverInv
  <1>3. CASE /\ state[path] = None /\ state' = [state EXCEPT ![path] = a] /\ UNCHANGED keys
             /\ att' = [att EXCEPT ![a].pc = "offering"]
    <2>1. /\ Moves(a, "offering") /\ Stays(a) /\ att'[a].id = a
          /\ att'[a].response = att[a].response
      <3>1. "offering" \in Steps
          BY <1>1 DEF Steps, network
      <3> QED
          BY <3>1, <1>1, <1>3, GotoMoves DEF IInv, Typed
    <2>2. Typed'
      <3>1. FilesTyped'
          BY <1>1, <1>3 DEF IInv, Typed, FilesTyped
      <3> QED
          BY <3>1, <1>1, <2>1, PhonesSame DEF Typed, Moves
    <2>3. Commands'
        BY <1>1, <2>1, GoesOn DEF Answered, Ready
    <2>4. /\ Beside'
          /\ \A b \in Attempts : /\ StateUndone(b) => StateUndone(b)'
                                 /\ ReplayUndone(b) => ReplayUndone(b)'
        BY <1>1, <2>1, BesideInv
    <2>5. Paths'
      <3>1. OnePath' /\ Named'
        <4>1. \A p \in DesktopPaths :
                  \/ state'[p] = state[p]
                  \/ state'[p] = a /\ p = path /\ "offering" \notin Unnamed
            BY <1>1, <1>3 DEF IInv, Typed, FilesTyped, Unnamed
        <4> QED
            BY <4>1, <2>1, NamesInv DEF Stays, Unnamed
      <3>2. \A b \in Attempts \ {a} : Held(b)'
        <4>1. \E x : state' = [state EXCEPT ![path] = x]
            BY <1>3
        <4> QED
            BY <4>1, <1>1, <1>3, <2>1, <2>4, HeldInv
      <3>3. Held(a)'
          BY <1>1, <1>3, <2>1 DEF Held, Intact, Moves, Stays, IInv, Typed, FilesTyped
      <3> QED
          BY <3>1, <3>2, <3>3 DEF Paths
    <2>6. Files'
        BY <1>1, <2>1, <2>4, FilesKept
    <2>7. Shown' /\ Recorded'
        BY <1>1, <2>1, WhoInv DEF network, Confirmed, Stays
    <2> QED
        BY <2>2, <2>3, <2>4, <2>5, <2>6, <2>7 DEF IInv
  <1> QED
      BY <1>2, <1>3 DEF CreateStateFile

LEMMA SendOfferInv == ASSUME IInv, NEW a \in Attempts, SendOffer(a) PROVE IInv'
  <1>1. /\ att[a].pc = "offering" /\ Running(a)
        /\ UNCHANGED <<platform, state, keys, replay, lock, locators, stubs, screen, records>>
      BY DEF SendOffer, desktopFiles, Running, Ended
  <1>2. CASE att' = Over(a, "ended") /\ UNCHANGED sent
      BY <1>1, <1>2, OverInv DEF network
  <1>3. CASE /\ sent' = sent \cup {Encode(OfferOf(a))}
             /\ att' = [att EXCEPT ![a].pc = "exchanging"]
    <2>1. /\ Moves(a, "exchanging") /\ Stays(a) /\ att'[a].id = att[a].id
          /\ att'[a].response = att[a].response
      <3>1. "exchanging" \in Steps
          BY <1>3 DEF Steps
      <3> QED
          BY <3>1, <1>3, GotoMoves DEF IInv, Typed
    <2>2. Typed'
      <3>1. FilesTyped'
          BY <1>1 DEF IInv, Typed, FilesTyped
      <3>2. PhonesTyped'
        <4>1. OfferOf(a) \in Offers
            BY <1>1 DEF Offers, OfferOf, IInv, Commands, Local, Ready
        <4>2. IsFiniteSet(sent')
            BY <1>3, FS_AddElement DEF IInv, Typed, PhonesTyped
        <4> QED
            BY <4>1, <4>2, <1>1, <1>3 DEF IInv, Typed, PhonesTyped
      <3> QED
          BY <3>1, <3>2, <2>1 DEF Typed, Moves
    <2>3. Commands'
        BY <1>1, <2>1, GoesOn DEF Answered, Ready
    <2>4. Paths' /\ Beside' /\ \A b \in Attempts : ReplayUndone(b) => ReplayUndone(b)'
        BY <1>1, <2>1, PathsKept DEF Ready, Unnamed
    <2>5. Files'
        BY <1>1, <2>1, <2>4, FilesKept
    <2>6. Shown' /\ Recorded'
        BY <1>1, <2>1, WhoInv DEF Confirmed, Stays
    <2> QED
        BY <2>2, <2>3, <2>4, <2>5, <2>6 DEF IInv
  <1> QED
      BY <1>2, <1>3 DEF SendOffer

LEMMA TakeResponseInv == ASSUME IInv, NEW a \in Attempts, TakeResponse(a) PROVE IInv'
  <1>1. /\ att[a].pc = "exchanging" /\ Running(a)
        /\ UNCHANGED <<platform, state, keys, replay, lock, locators, stubs, network>>
      BY DEF TakeResponse, desktopFiles, Running, Ended
  <1>2. PICK wire \in sent \cup {Bad} :
            LET response == Decode("pairing", wire) IN
            att' = IF response # Bad /\ PairingVerifies(response, OfferOf(a))
                   THEN [att EXCEPT ![a].response = response, ![a].pc = "confirming"]
                   ELSE Over(a, "ended")
      BY DEF TakeResponse
  <1> DEFINE response == Decode("pairing", wire)
  <1>3. CASE ~(response # Bad /\ PairingVerifies(response, OfferOf(a)))
      BY <1>1, <1>2, <1>3, OverInv
  <1>4. CASE response # Bad /\ PairingVerifies(response, OfferOf(a))
    <2>1. response \in Answers
      <3>1. wire # Bad
          BY <1>4 DEF Decode
      <3> QED
          BY <3>1, <1>4, ReadIsSent DEF IInv, Typed
    <2>2. att' = [att EXCEPT ![a].response = response, ![a].pc = "confirming"]
        BY <1>2, <1>4
    <2> HIDE DEF response
    <2>3. /\ Moves(a, "confirming") /\ Stays(a) /\ att'[a].id = att[a].id
          /\ att'[a].response = response
      <3> DEFINE r == [att[a] EXCEPT !.response = response, !.pc = "confirming"]
      <3>1. att[a] \in Attempt /\ "confirming" \in Steps /\ AttTyped
          BY DEF IInv, Typed, AttTyped, Steps
      <3>2. r \in Attempt
          BY <2>1, <3>1 DEF Attempt
      <3>3. /\ r.pc = "confirming" /\ r.id = att[a].id /\ r.response = response
            /\ r.hand = att[a].hand /\ r.desktop = att[a].desktop
            /\ r.replay = att[a].replay /\ r.stub = att[a].stub
            /\ r.existed = att[a].existed /\ r.beside = att[a].beside
          BY <3>1 DEF Attempt
      <3>4. att' = [att EXCEPT ![a] = r]
          BY <2>2 DEF IInv, Typed, AttTyped
      <3> HIDE DEF r
      <3> QED
          BY <3>1, <3>2, <3>3, <3>4, SetMoves DEF Stays
    <2>4. Typed'
      <3>1. FilesTyped'
          BY <1>1 DEF IInv, Typed, FilesTyped
      <3> QED
          BY <3>1, <1>1, <2>3, PhonesSame DEF Typed, Moves
    <2>5. Commands'
      <3>1. Local(a)'
          BY <1>1, <2>3 DEF IInv, Commands, Local, Moves, Stays, Ready
      <3>2. OfferOf(a)' = OfferOf(a)
          BY <2>3 DEF OfferOf
      <3>3. Verified(a)'
          BY <1>1, <1>4, <2>1, <2>3, <3>2 DEF Verified, IInv, Commands, Local, Ready
      <3> QED
          BY <3>1, <3>3, <2>3, CommandsInv DEF IInv
    <2>6. Paths' /\ Beside' /\ \A b \in Attempts : ReplayUndone(b) => ReplayUndone(b)'
        BY <1>1, <2>3, PathsKept DEF Ready, Unnamed
    <2>7. Files'
        BY <1>1, <2>3, <2>6, FilesKept
    <2>8. Shown' /\ Recorded'
        BY <1>1, <2>3, WhoInv DEF Confirmed, Stays, network
    <2> QED
        BY <2>4, <2>5, <2>6, <2>7, <2>8 DEF IInv
  <1> QED
      BY <1>3, <1>4

\* An answered command goes on, and leaves another file behind.
LEMMA GotoInv ==
    ASSUME IInv, NEW a \in Attempts, NEW s \in Confirmed, att' = [att EXCEPT ![a].pc = s],
           att[a].pc \in Answered, Running(a),
           UNCHANGED <<platform, state, keys, network>>,
           FilesTyped',
           \/ replay' = replay
           \/ /\ replay[att[a].replay] = None
              /\ \E x : replay' = [replay EXCEPT ![att[a].replay] = x],
           \/ stubs' = stubs
           \/ /\ stubs[att[a].stub] = None
              /\ \E x : stubs' = [stubs EXCEPT ![att[a].stub] = x],
           locators \subseteq locators',
           s \in {"stub", "done"} => Claims(a) \/ LocatorFree(a),
           Moves(a, s) /\ Stays(a) /\ (ReplayUndone(a) => ReplayUndone(a)') => Made(a)',
           AnswerOf(att[a].hand, att[a].response)
    PROVE  IInv'
  <1>1. /\ Moves(a, s) /\ Stays(a) /\ att'[a].id = att[a].id
        /\ att'[a].response = att[a].response
    <2>1. s \in Steps
        BY DEF Steps, Ended, network, Confirmed
    <2> QED
        BY <2>1, GotoMoves DEF IInv, Typed
  <1>2. Typed'
      BY <1>1, PhonesSame DEF Typed, Moves
  <1>3. Commands'
      BY <1>1, GoesOn DEF Answered, Confirmed, Ready
  <1>4. Paths' /\ Beside' /\ \A b \in Attempts : ReplayUndone(b) => ReplayUndone(b)'
    <2>1. att[a].pc # "rollback" /\ s \notin Unnamed /\ att[a].pc \in Ready
        BY DEF Ready, Answered, Confirmed, Unnamed
    <2> QED
        BY <2>1, <1>1, PathsKept
  <1>5. Files'
    <2>1. Undoes(a)'
        BY <1>1 DEF Undoes, Moves, Confirmed
    <2>2. Made(a)'
        BY <1>1, <1>4
    <2>3. \A b \in Attempts \ {a} :
              att[b].pc \in {"locator", "stub", "done"} =>
                  replay'[att[b].replay] = Scope(b) \/ ReplayUndone(b)'
        BY <1>4, ReplayKept
    <2>4. Claims(a)' => Scope(a)' = Scope(a) /\ (Claims(a) \/ LocatorFree(a))
        BY <1>1 DEF Claims, Scope, Moves, Confirmed
    <2> QED
        BY <2>1, <2>2, <2>3, <2>4, <1>1, FilesInv
  <1>6. Shown' /\ Recorded'
      BY <1>1, WhoInv DEF Stays, network
  <1> QED
      BY <1>2, <1>3, <1>4, <1>5, <1>6 DEF IInv

LEMMA ConfirmInv == ASSUME IInv, NEW a \in Attempts, Confirm(a) PROVE IInv'
  <1>1. /\ att[a].pc = "confirming" /\ Running(a)
        /\ UNCHANGED <<platform, state, keys, replay, lock, locators, stubs, network>>
      BY DEF Confirm, desktopFiles, Running, Ended
  <1>2. CASE att' = Over(a, "ended")
      BY <1>1, <1>2, OverInv
  <1>3. CASE /\ screen[att[a].hand] # None
             /\ ShownBy(att[a].hand) = ShownTo(a)
             /\ att' = [att EXCEPT ![a].pc = "replay"]
    <2>1. AnswerOf(att[a].hand, att[a].response)
      <3>1. att[a].hand \in Phones /\ att[a].response # Bad
          BY <1>1 DEF IInv, Commands, Local, Verified, Answered
      <3>2. screen[att[a].hand].response = att[a].response
          BY <1>3 DEF ShownBy, ShownTo, Fingerprint, Digest
      <3> QED
          BY <3>1, <3>2, <1>3 DEF IInv, Shown
    <2>2. FilesTyped'
        BY <1>1 DEF IInv, Typed, FilesTyped
    <2>3. Moves(a, "replay") => Made(a)'
        BY DEF Made, Claims, Moves
    <2>4. "replay" \in Confirmed /\ att[a].pc \in Answered
        BY <1>1 DEF Confirmed, Answered
    <2> QED
        BY <1>1, <1>3, <2>1, <2>2, <2>3, <2>4, GotoInv
  <1> QED
      BY <1>2, <1>3 DEF Confirm

\* What a command goes on with does not change.
LEMMA SameScope ==
    ASSUME NEW a \in Attempts, Stays(a),
           UNCHANGED <<att[a].id, att[a].response>>
    PROVE  Scope(a)' = Scope(a) /\ LocatorOf(a)' = LocatorOf(a) /\ StubOf(a)' = StubOf(a)
  BY DEF Scope, LocatorOf, StubOf, OfferOf, Stays

LEMMA GotoSame ==
    ASSUME IInv, NEW a \in Attempts, NEW s \in Steps, att' = [att EXCEPT ![a].pc = s]
    PROVE  /\ Scope(a)' = Scope(a) /\ LocatorOf(a)' = LocatorOf(a) /\ StubOf(a)' = StubOf(a)
           /\ att'[a].pc = s
  BY GotoMoves, SameScope DEF IInv, Typed, Moves

LEMMA ExchangeFailsInv == ASSUME IInv, NEW a \in Attempts, ExchangeFails(a) PROVE IInv'
  <1>1. /\ att[a].pc = "exchanging" /\ Running(a) /\ RollBack(a, <<>>)
        /\ UNCHANGED <<platform, state, keys, replay, lock, locators, stubs, network>>
      BY DEF ExchangeFails, desktopFiles, Running, Ended
  <1>2. lock' \subseteq ReplayPaths
      BY <1>1 DEF IInv, Typed, FilesTyped
  <1>3. <<>> # <<"locator">>
      OBVIOUS
  <1> QED
      BY <1>1, <1>2, <1>3, RollBackInv DEF Ready

LEMMA CreateReplayInv == ASSUME IInv, NEW a \in Attempts, CreateReplay(a) PROVE IInv'
  <1>1. /\ att[a].pc = "replay" /\ Running(a) /\ att[a].replay \in ReplayPaths
        /\ UNCHANGED <<platform, state, keys, locators, stubs, network>>
      BY AttIsTyped DEF CreateReplay, Running, Ended
  <1>2. CASE /\ replay[att[a].replay] = None
             /\ replay' = [replay EXCEPT ![att[a].replay] = Scope(a)]
             /\ lock' = lock \cup {att[a].replay}
             /\ att' = [att EXCEPT ![a].pc = "locator"]
    <2>1. /\ AnswerOf(att[a].hand, att[a].response) /\ Scope(a) \in Attempts \X Phones
          /\ att[a].pc \in Answered
        BY <1>1, ConfirmedHas DEF Confirmed
    <2>2. FilesTyped' /\ replay'[att[a].replay] = Scope(a)
        BY <1>1, <1>2, <2>1 DEF IInv, Typed, FilesTyped
    <2>3. Scope(a)' = Scope(a) /\ att'[a].pc = "locator"
        BY <1>2, GotoSame DEF Steps
    <2>4. Stays(a) => Made(a)'
        BY <2>2, <2>3 DEF Made, Claims, Stays
    <2>5. "locator" \in Confirmed /\ \E x : replay' = [replay EXCEPT ![att[a].replay] = x]
        BY <1>2 DEF Confirmed
    <2> QED
        BY <1>1, <1>2, <2>1, <2>2, <2>4, <2>5, GotoInv
  <1>3. CASE lock' \in {lock, lock \cup {att[a].replay}} /\ RollBack(a, <<>>) /\ UNCHANGED replay
    <2>1. lock' \subseteq ReplayPaths
        BY <1>1, <1>3 DEF IInv, Typed, FilesTyped
    <2>2. <<>> # <<"locator">>
        OBVIOUS
    <2> QED
        BY <1>1, <1>3, <2>1, <2>2, RollBackInv DEF Ready
  <1> QED
      BY <1>2, <1>3 DEF CreateReplay

LEMMA CreateLocatorInv == ASSUME IInv, NEW a \in Attempts, CreateLocator(a) PROVE IInv'
  <1>1. /\ att[a].pc = "locator" /\ Running(a)
        /\ UNCHANGED <<platform, state, keys, replay, lock, stubs, network>>
      BY DEF CreateLocator, Running, Ended
  <1>2. /\ AnswerOf(att[a].hand, att[a].response) /\ Scope(a) \in Attempts \X Phones
        /\ att[a].pc \in Answered
      BY <1>1, ConfirmedHas DEF Confirmed
  <1>3. CASE /\ LocatorFree(a)
             /\ locators' = locators \cup {LocatorOf(a)}
             /\ att' = [att EXCEPT ![a].pc = "stub"]
    <2>1. FilesTyped'
        BY <1>1, <1>2, <1>3 DEF IInv, Typed, FilesTyped, LocatorOf
    <2>2. /\ Scope(a)' = Scope(a) /\ LocatorOf(a)' = LocatorOf(a) /\ att'[a].pc = "stub"
        BY <1>3, GotoSame DEF Steps
    <2>3. replay[att[a].replay] = Scope(a) \/ ReplayUndone(a)
        BY <1>1 DEF IInv, Files, Made
    <2>4. Stays(a) /\ (ReplayUndone(a) => ReplayUndone(a)') => Made(a)'
        BY <2>2, <2>3, <1>1, <1>3 DEF Made, Stays
    <2>5. "stub" \in Confirmed
        BY DEF Confirmed
    <2> QED
        BY <1>1, <1>2, <1>3, <2>1, <2>4, <2>5, GotoInv
  <1>4. CASE /\ RollBack(a, <<>>)
             /\ \/ LocatorFree(a) /\ locators' = locators \cup {LocatorOf(a)}
                \/ UNCHANGED locators
    <2>1. lock' \subseteq ReplayPaths
        BY <1>1 DEF IInv, Typed, FilesTyped
    <2>2. <<>> # <<"locator">>
        OBVIOUS
    <2> QED
        BY <1>1, <1>2, <1>4, <2>1, <2>2, RollBackInv DEF Ready
  <1> QED
      BY <1>3, <1>4 DEF CreateLocator

\* A confirmed command has the answer of the phone in hand to its own offer.
LEMMA AnsweredHas ==
    ASSUME IInv, NEW a \in Attempts, att[a].pc \in Confirmed
    PROVE  /\ att[a].hand \in Phones /\ att[a].id \in Attempts
           /\ \E n \in 0 .. MaxResponses :
                  att[a].response = Answer(att[a].hand, OfferOf(a), n)
  <1>1. /\ att[a].hand \in Phones /\ att[a].id \in Attempts
        /\ att[a].response \in Answers
        /\ PairingVerifies(att[a].response, OfferOf(a))
      BY DEF IInv, Commands, Local, Verified, Answered, Confirmed, Ready
  <1>2. PICK h \in Phones, o \in Offers, n \in 0 .. MaxResponses :
            att[a].response = Answer(h, o, n)
      BY <1>1 DEF Answers
  <1> DEFINE text == Text("age1phone", LegacyRecipient(<<"identity", h>>))
  <1>3. Answer(h, o, n) =
            Signed(<<"phone", h>>, PairingResponse(h, text, <<"phone", h>>, o, n))
      BY AnswerIs
  <1> HIDE DEF text
  <1>4. h = att[a].hand
    <2>1. att[a].response.payload.identity = att[a].hand
        BY DEF IInv, Shown, AnswerOf
    <2>2. att[a].response.payload.identity = h
        BY <1>2, <1>3 DEF Signed, PairingResponse
    <2> QED
        BY <2>1, <2>2
  <1>5. o = OfferOf(a)
      BY <1>1, <1>2, <1>3 DEF PairingVerifies, Signed, PairingResponse, Digest
  <1> QED
      BY <1>1, <1>2, <1>4, <1>5

LEMMA CreateStubInv == ASSUME IInv, NEW a \in Attempts, CreateStub(a) PROVE IInv'
  <1>1. /\ att[a].pc = "stub" /\ Running(a) /\ att[a].stub \in IdentityPaths
        /\ UNCHANGED <<platform, state, keys, replay, lock, locators, network>>
      BY AttIsTyped DEF CreateStub, Running, Ended
  <1>2. /\ AnswerOf(att[a].hand, att[a].response) /\ att[a].pc \in Answered
        /\ replay[att[a].replay] = Scope(a) \/ ReplayUndone(a)
        /\ Claims(a) /\ LocatorOf(a) \in locators
      BY <1>1, ConfirmedHas DEF Confirmed, IInv, Files, Made, Claims
  <1>3. CASE /\ stubs[att[a].stub] = None
             /\ \E kind \in RecipientTypes :
                    stubs' = [stubs EXCEPT ![att[a].stub] = IdentityFile(StubOf(a), kind)]
             /\ att' = [att EXCEPT ![a].pc = "done"]
    <2>1. PICK kind \in RecipientTypes :
              stubs' = [stubs EXCEPT ![att[a].stub] = IdentityFile(StubOf(a), kind)]
        BY <1>3
    <2>2. /\ stubs' = [i \in IdentityPaths |-> stubs'[i]]
          /\ stubs'[att[a].stub] = IdentityFile(StubOf(a), kind)
        BY <2>1, <1>1 DEF IInv, Typed, FilesTyped
    <2>3. IdentityFile(StubOf(a), kind) # None
      <3>1. PICK n \in 0 .. MaxResponses :
                att[a].response = Answer(att[a].hand, SignedOffer(att[a].id, a), n)
          BY <1>1, AnsweredHas DEF Confirmed, OfferOf
      <3>2. att[a].hand \in Phones /\ att[a].id \in Attempts
          BY <1>1, AnsweredHas DEF Confirmed
      <3> QED
          BY <3>1, <3>2, BadAssumption DEF StubOf, OfferOf
    <2>4. FilesTyped'
        BY <1>1, <2>2 DEF IInv, Typed, FilesTyped
    <2>5. /\ Scope(a)' = Scope(a) /\ LocatorOf(a)' = LocatorOf(a)
          /\ StubOf(a)' = StubOf(a) /\ att'[a].pc = "done"
        BY <1>3, GotoSame DEF Steps, Ended
    <2>6. Stays(a) /\ (ReplayUndone(a) => ReplayUndone(a)') => Made(a)'
        BY <2>2, <2>3, <2>5, <1>1, <1>2 DEF Made, Stays
    <2>7. "done" \in Confirmed
          /\ \E x : stubs' = [stubs EXCEPT ![att[a].stub] = x]
        BY <2>1 DEF Confirmed
    <2> QED
        BY <1>1, <1>2, <1>3, <2>4, <2>6, <2>7, GotoInv
  <1>4. CASE RollBack(a, <<"locator">>) /\ UNCHANGED stubs
    <2>1. lock' \subseteq ReplayPaths
        BY <1>1 DEF IInv, Typed, FilesTyped
    <2> QED
        BY <1>1, <1>4, <2>1, RollBackInv DEF Ready
  <1> QED
      BY <1>3, <1>4 DEF CreateStub

\* What is left of a list is what came after its head.
LEMMA Rest ==
    ASSUME NEW todo \in Seq(Undo), todo # <<>>
    PROVE  /\ Tail(todo) \in Seq(Undo) /\ Head(todo) = todo[1] /\ 1 \in DOMAIN todo
           /\ \A i \in DOMAIN Tail(todo) : i + 1 \in DOMAIN todo /\ Tail(todo)[i] = todo[i + 1]
                                           /\ i + 1 # 1
  <1>1. /\ Tail(todo) \in Seq(Undo) /\ Len(Tail(todo)) = Len(todo) - 1 /\ Len(todo) \in Nat
        /\ Len(todo) # 0 /\ Head(todo) = todo[1]
      OBVIOUS
  <1>2. DOMAIN Tail(todo) = 1 .. Len(Tail(todo)) /\ DOMAIN todo = 1 .. Len(todo)
      BY <1>1
  <1>3. \A i \in 1 .. Len(Tail(todo)) : Tail(todo)[i] = todo[i + 1]
      BY <1>1
  <1> QED
      BY <1>1, <1>2, <1>3

LEMMA TodoMoves ==
    ASSUME AttTyped, NEW a \in Attempts, att[a].pc = "rollback",
           NEW todo \in Seq(Undo), att' = [att EXCEPT ![a].todo = todo]
    PROVE  /\ Moves(a, "rollback") /\ Stays(a) /\ att'[a].id = att[a].id
           /\ att'[a].response = att[a].response /\ att'[a].todo = todo
  BY DEF AttTyped, Attempt, Moves, Stays

\* Whom a command that rolls back takes a file from has met it, or had finished
\* before it started.
LEMMA Takes ==
    ASSUME IInv, NEW a \in Attempts, att[a].pc = "rollback", NEW b \in Attempts \ {a}
    PROVE  /\ att[b].pc \in Ready /\ att[b].desktop = att[a].desktop /\ ~att[a].existed =>
                  StateUndone(b)
           /\ att[b].pc \in {"locator", "stub", "done"} /\ att[b].replay = att[a].replay =>
                  ReplayUndone(b)
  <1>1. Running(a)
      BY DEF Running, Ended
  <1>2. CASE Meet(b, a)
    <2>1. a \in Crossed(b)
        BY <1>2 DEF Meet, Crossed
    <2> QED
        BY <2>1 DEF StateUndone, ReplayUndone
  <1>3. CASE ~Meet(b, a) /\ att[b].pc = "done"
      BY <1>1, <1>3 DEF IInv, Beside, Late, Done
  <1>4. CASE ~Meet(b, a) /\ att[b].pc \in Ready \ {"done"}
      BY <1>1, <1>4 DEF IInv, Beside, Met, Running, Ended, Ready
  <1> QED
      BY <1>2, <1>3, <1>4 DEF Ready

\* A file is undone, or stays although it should have been.
LEMMA RollBackStepInv == ASSUME IInv, NEW a \in Attempts, RollBackStep(a) PROVE IInv'
  <1> DEFINE item == Head(att[a].todo)
             path == att[a].desktop
  <1>1. /\ att[a].pc = "rollback" /\ Running(a) /\ att[a].todo # <<>>
        /\ path \in DesktopPaths /\ att[a].replay \in ReplayPaths
        /\ att[a].todo \in Seq(Undo)
        /\ UNCHANGED <<platform, stubs, network>>
      BY AttIsTyped DEF RollBackStep, Running, Ended
  <1>2. /\ item \in {"state", "keys"} => ~att[a].existed
        /\ item = "locator" => Claims(a)
        /\ \A i \in DOMAIN Tail(att[a].todo) :
               /\ Tail(att[a].todo)[i] \in {"state", "keys"} => ~att[a].existed
               /\ Tail(att[a].todo)[i] # "locator"
      BY <1>1, Rest DEF IInv, Files, Undoes, Claims
  <1>3. \/ Removed(a, item)
        \/ UNCHANGED <<state, keys, replay, lock, locators>>
      BY DEF RollBackStep
  <1>4. PICK todo \in Seq(Undo) :
            /\ att' = [att EXCEPT ![a].todo = todo]
            /\ todo \in {<<>>, Tail(att[a].todo)}
    <2>1. <<>> \in Seq(Undo) /\ Tail(att[a].todo) \in Seq(Undo)
        BY <1>1, Rest, EmptySeq
    <2>2. CASE att' = [att EXCEPT ![a].todo = Tail(@)]
      <3>1. att' = [att EXCEPT ![a].todo = Tail(att[a].todo)]
          BY <2>2
      <3> QED
          BY <3>1, <2>1
    <2>3. CASE att' = [att EXCEPT ![a].todo = IF Head(@) = "keys" THEN <<>> ELSE Tail(@)]
      <3>1. CASE item = "keys"
        <4>1. att' = [att EXCEPT ![a].todo = <<>>]
            BY <2>3, <3>1
        <4> QED
            BY <4>1, <2>1
      <3>2. CASE item # "keys"
        <4>1. att' = [att EXCEPT ![a].todo = Tail(att[a].todo)]
            BY <2>3, <3>2
        <4> QED
            BY <4>1, <2>1
      <3> QED
          BY <3>1, <3>2
    <2> QED
        BY <2>2, <2>3 DEF RollBackStep
  <1>5. /\ Moves(a, "rollback") /\ Stays(a) /\ att'[a].id = att[a].id
        /\ att'[a].response = att[a].response /\ att'[a].todo = todo
      BY <1>1, <1>4, TodoMoves DEF IInv, Typed, network
  <1>6. /\ state' = state \/ (~att[a].existed /\ state' = [state EXCEPT ![path] = None])
        /\ keys' = keys \/ (~att[a].existed /\ keys' = keys \ {att[a].id})
        /\ replay' = replay \/ replay' = [replay EXCEPT ![att[a].replay] = None]
        /\ lock' \subseteq lock
        /\ locators' = locators \/ (Claims(a) /\ locators' = {l \in locators : l.scope # Scope(a)})
      BY <1>2, <1>3 DEF Removed
  <1>7. Typed'
    <2>1. FilesTyped'
        BY <1>1, <1>6 DEF IInv, Typed, FilesTyped
    <2> QED
        BY <2>1, <1>1, <1>5, PhonesSame DEF Typed, Moves
  <1>8. Commands'
      BY <1>1, <1>5, GoesOn DEF Answered, Ready
  <1>9. /\ Beside'
        /\ \A b \in Attempts : /\ StateUndone(b) => StateUndone(b)'
                               /\ ReplayUndone(b) => ReplayUndone(b)'
      BY <1>1, <1>5, BesideInv
  <1>10. Paths'
    <2>1. OnePath' /\ Named'
      <3>1. \A p \in DesktopPaths : state'[p] \in {state[p], None}
          BY <1>1, <1>6 DEF IInv, Typed, FilesTyped
      <3> QED
          BY <3>1, <1>5, NamesInv DEF Stays, Unnamed
    <2>2. Held(a)'
        BY <1>5 DEF Held, Moves, Ready
    <2>3. ASSUME NEW b \in Attempts \ {a} PROVE Held(b)'
      <3>1. att'[b] = att[b] /\ Held(b)
          BY <1>5 DEF Moves, IInv, Paths
      <3>2. CASE att[b].pc = "naming"
        <4>1. att[a].id # b
            BY <3>2, PairingAssumption DEF IInv, Paths, Named, Unnamed
        <4> QED
            BY <3>1, <3>2, <4>1, <1>6 DEF Held, Ready
      <3>3. CASE att[b].pc \in Ready /\ StateUndone(b)
          BY <3>1, <3>3, <1>9 DEF Held, Ready
      <3>4. CASE att[b].pc \in Ready /\ ~StateUndone(b)
        <4>1. Intact(b) /\ (att[b].desktop # path \/ att[a].existed)
            BY <3>1, <3>4, <1>1, Takes DEF Held
        <4>2. /\ att[b].id \in Attempts /\ att[b].desktop \in DesktopPaths
              /\ att[a].id \in Attempts
            BY <3>4, <1>1, AttIsTyped DEF IInv, Commands, Local
        <4>3. state'[att[b].desktop] = state[att[b].desktop]
            BY <4>1, <4>2, <1>1, <1>6 DEF IInv, Typed, FilesTyped
        <4>4. att[a].id = att[b].id => att[b].desktop = path
            BY <4>2, PairingAssumption DEF IInv, Paths, OnePath
        <4>5. att[b].id \in keys => att[b].id \in keys'
            BY <4>1, <4>4, <1>6
        <4> QED
            BY <3>1, <3>4, <4>1, <4>3, <4>5, <1>1 DEF Held, Intact, Ready
      <3>5. CASE att[b].pc \notin Ready \cup {"naming"}
          BY <3>1, <3>5 DEF Held
      <3> QED
          BY <3>2, <3>3, <3>4, <3>5
    <2> QED
        BY <2>1, <2>2, <2>3 DEF Paths
  <1>11. Files'
    <2>1. DOMAIN <<>> = {}
        OBVIOUS
    <2>2. \A i \in DOMAIN todo :
              (todo[i] \in {"state", "keys"} => ~att[a].existed) /\ todo[i] # "locator"
        BY <2>1, <1>2, <1>4
    <2>3. Undoes(a)' /\ ~Claims(a)'
        BY <2>2, <1>5 DEF Undoes, Claims, Moves, Stays
    <2>4. Made(a)'
        BY <2>3, <1>5 DEF Made, Moves
    <2>5. ASSUME NEW b \in Attempts \ {a}, att[b].pc \in {"locator", "stub", "done"}
          PROVE  replay'[att[b].replay] = Scope(b) \/ ReplayUndone(b)'
      <3>1. CASE att[b].replay = att[a].replay
          BY <2>5, <3>1, <1>1, <1>9, Takes
      <3>2. CASE att[b].replay # att[a].replay
        <4>1. replay'[att[b].replay] = replay[att[b].replay]
            BY <3>2, <1>6, AttIsTyped DEF IInv, Typed, FilesTyped
        <4> QED
            BY <2>5, <4>1, <1>9 DEF IInv, Files, Made
      <3> QED
          BY <3>1, <3>2
    <2>6. \A l \in locators : l \in locators' \/ (Claims(a) /\ l.scope = Scope(a))
        BY <1>6
    <2> QED
        BY <2>3, <2>4, <2>5, <2>6, <1>1, <1>5, FilesInv
  <1>12. Shown' /\ Recorded'
      BY <1>1, <1>5, WhoInv DEF network, Confirmed, Stays
  <1> QED
      BY <1>7, <1>8, <1>9, <1>10, <1>11, <1>12 DEF IInv

LEMMA EndsInv == ASSUME IInv, NEW a \in Attempts, RolledBack(a) \/ Die(a) PROVE IInv'
  <1>1. Running(a)
      BY DEF RolledBack, Die, Running, Ended
  <1> QED
      BY <1>1, OverInv DEF RolledBack, Die, desktopFiles

-----------------------------------------------------------------------------
(* The phones. *)

\* The commands and their files are as they were.
LEMMA CommandsSame ==
    ASSUME IInv, UNCHANGED <<platform, att, desktopFiles>>
    PROVE  AttTyped' /\ FilesTyped' /\ Commands' /\ Paths' /\ Beside' /\ Files'
  <1>2. AttTyped'
      BY DEF IInv, Typed, AttTyped, Attempt
  <1>3. FilesTyped'
      BY DEF IInv, Typed, FilesTyped, desktopFiles
  <1>4. Commands'
      BY DEF IInv, Commands, Local, Verified, OfferOf
  <1>5. Paths'
    <2>1. \A b \in Attempts : StateUndone(b)' = StateUndone(b)
        BY DEF StateUndone, Crossed
    <2> QED
        BY <2>1 DEF IInv, Paths, OnePath, Named, Held, Intact, desktopFiles
  <1>6. Beside'
    <2>1. \A b, c \in Attempts : /\ StateUndone(b)' = StateUndone(b)
                                 /\ ReplayUndone(b)' = ReplayUndone(b)
                                 /\ Meet(b, c)' = Meet(b, c) /\ Running(b)' = Running(b)
        BY DEF StateUndone, ReplayUndone, Crossed, Meet, Running
    <2>2. Done' = Done /\ Done \subseteq Attempts
        BY DEF Done
    <2> QED
        BY <2>1, <2>2 DEF IInv, Beside, Met, Late
  <1>7. Files'
    <2>1. \A b \in Attempts : /\ ReplayUndone(b)' = ReplayUndone(b)
                              /\ Scope(b)' = Scope(b) /\ LocatorOf(b)' = LocatorOf(b)
                              /\ StubOf(b)' = StubOf(b) /\ Claims(b)' = Claims(b)
        BY DEF ReplayUndone, Crossed, Scope, LocatorOf, StubOf, OfferOf, Claims
    <2> QED
        BY <2>1 DEF IInv, Files, Apart, Made, Undoes, desktopFiles
  <1> QED
      BY <1>2, <1>3, <1>4, <1>5, <1>6, <1>7

LEMMA ReceiveInv == ASSUME IInv, NEW h \in Phones, Receive(h) PROVE IInv'
  <1> DEFINE n == Cardinality(Responses)
  <1>1. PICK wire \in sent :
            LET offer == Decode("offer", wire) IN
            /\ offer # Bad
            /\ sent' = sent \cup {Encode(Answer(h, offer, n))}
            /\ screen' = [screen EXCEPT ![h] = [offer |-> offer, response |-> Answer(h, offer, n)]]
      BY DEF Receive
  <1> DEFINE offer == Decode("offer", wire)
             response == Answer(h, offer, n)
  <1>2. UNCHANGED <<platform, att, desktopFiles, records>>
      BY DEF Receive
  <1>3. AttTyped' /\ FilesTyped' /\ Commands' /\ Paths' /\ Beside' /\ Files'
      BY <1>2, CommandsSame
  <1>4. n \in 0 .. MaxResponses
    <2>1. IsFiniteSet(Responses)
        BY FS_Subset DEF IInv, Typed, PhonesTyped, Responses
    <2>2. n \in Nat
        BY <2>1, FS_CardinalityType
    <2> QED
        BY <2>2, PairingAssumption DEF Receive
  <1>5. offer \in Offers /\ response \in Answers
    <2>1. offer \in Offers
        BY <1>1, ReadIsSent DEF IInv, Typed
    <2> QED
        BY <2>1, <1>4 DEF Answers
  <1>6. AnswerOf(h, response)
      BY <1>4, <1>5, AnswerIs DEF Signed, PairingResponse, AnswerOf
  <1>7. /\ screen' = [screen EXCEPT ![h] = [offer |-> offer, response |-> response]]
        /\ sent' = sent \cup {Encode(response)}
      BY <1>1
  <1> HIDE DEF offer, response
  <1>8. PhonesTyped'
    <2>1. IsFiniteSet(sent')
        BY <1>7, FS_AddElement DEF IInv, Typed, PhonesTyped
    <2> QED
        BY <2>1, <1>2, <1>5, <1>7 DEF IInv, Typed, PhonesTyped
  <1>9. Shown'
      BY <1>2, <1>6, <1>7 DEF IInv, Shown, Typed, PhonesTyped, AnswerOf
  <1>10. Recorded'
      BY <1>2 DEF IInv, Recorded, Record
  <1> QED
      BY <1>3, <1>8, <1>9, <1>10 DEF IInv, Typed

\* The record of a compared transcript is that of the command's desktop and this phone.
LEMMA PhoneConfirmsInv == ASSUME IInv, NEW h \in Phones, PhoneConfirms(h) PROVE IInv'
  <1> DEFINE record == PairingRecord(screen[h].offer, screen[h].response)
  <1>1. /\ UNCHANGED <<platform, att, desktopFiles, sent>>
        /\ screen[h] # None /\ screen' = [screen EXCEPT ![h] = None]
      BY DEF PhoneConfirms
  <1>2. \/ records' = records
        \/ records' = [records EXCEPT ![h] = @ \cup {record}]
      BY DEF PhoneConfirms
  <1>3. PICK a \in Attempts :
            att[a].hand = h /\ att[a].response # None /\ ShownTo(a) = ShownBy(h)
      BY DEF PhoneConfirms
  <1>4. att[a].id \in Attempts /\ att[a].response # Bad
      BY <1>3 DEF IInv, Commands, Verified
  <1>5. screen[h].offer = OfferOf(a) /\ screen[h].response = att[a].response
      BY <1>3 DEF ShownBy, ShownTo, Fingerprint, Digest
  <1>6. AnswerOf(h, screen[h].response)
      BY <1>1, <1>4, <1>5 DEF IInv, Shown
  <1>7. record = Record(att[a].id, h)
    <2>1. OfferOf(a).payload = Offer(att[a].id, <<"sign", att[a].id>>, <<"select", att[a].id>>, a)
        BY <1>4, OfferIs DEF OfferOf, Signed
    <2> QED
        BY <2>1, <1>5, <1>6 DEF PairingRecord, Record, Offer, AnswerOf
  <1> HIDE DEF record
  <1>8. AttTyped' /\ FilesTyped' /\ Commands' /\ Paths' /\ Beside' /\ Files'
      BY <1>1, CommandsSame
  <1>9. PhonesTyped'
      BY <1>1, <1>2 DEF IInv, Typed, PhonesTyped
  <1>10. Shown'
      BY <1>1 DEF IInv, Shown, Typed, PhonesTyped, AnswerOf
  <1>11. Recorded'
    <2>1. ASSUME NEW g \in Phones, NEW r \in records'[g]
          PROVE  r \in records[g] \/ (g = h /\ r = record)
        BY <2>1, <1>2 DEF IInv, Typed, PhonesTyped
    <2>2. ASSUME NEW g \in Phones, NEW r \in records'[g]
          PROVE  \E b \in Attempts :
                     att[b].hand = g /\ att[b].id \in Attempts /\ r = Record(att[b].id, g)
        BY <2>1, <2>2, <1>3, <1>4, <1>7 DEF IInv, Recorded
    <2> QED
        BY <2>2, <1>1 DEF Recorded, Record
  <1> QED
      BY <1>8, <1>9, <1>10, <1>11 DEF IInv, Typed

LEMMA PhoneForgetsInv ==
    ASSUME IInv, NEW h \in Phones, PhoneDrops(h) \/ Revoke(h) PROVE IInv'
  <1>1. /\ UNCHANGED <<platform, att, desktopFiles, sent>>
        /\ screen' = screen \/ screen' = [screen EXCEPT ![h] = None]
        /\ records' = records \/ \E r \in records[h] : records' = [records EXCEPT ![h] = @ \ {r}]
      BY DEF PhoneDrops, Revoke
  <1>2. AttTyped' /\ FilesTyped' /\ Commands' /\ Paths' /\ Beside' /\ Files'
      BY <1>1, CommandsSame
  <1>3. PhonesTyped'
      BY <1>1 DEF IInv, Typed, PhonesTyped
  <1>4. Shown'
      BY <1>1 DEF IInv, Shown, Typed, PhonesTyped, AnswerOf
  <1>5. Recorded'
    <2>1. \A g \in Phones : records'[g] \subseteq records[g]
        BY <1>1 DEF IInv, Typed, PhonesTyped
    <2> QED
        BY <2>1, <1>1 DEF IInv, Recorded, Record
  <1> QED
      BY <1>2, <1>3, <1>4, <1>5 DEF IInv, Typed

-----------------------------------------------------------------------------
LEMMA StepInv == IInv /\ [Next]_vars => IInv'
  <1> SUFFICES ASSUME IInv, [Next]_vars PROVE IInv'
      OBVIOUS
  <1>1. ASSUME NEW a \in Attempts,
               \/ Start(a) \/ OpenState(a) \/ CreateSoftwareState(a) \/ CreateKeys(a)
               \/ CreateStateFile(a) \/ SendOffer(a) \/ TakeResponse(a)
        PROVE  IInv'
      BY <1>1, StartInv, OpenStateInv, CreateSoftwareStateInv, CreateKeysInv,
         CreateStateFileInv, SendOfferInv, TakeResponseInv
  <1>2. ASSUME NEW a \in Attempts,
               \/ ExchangeFails(a) \/ Confirm(a) \/ CreateReplay(a) \/ CreateLocator(a)
               \/ CreateStub(a) \/ RollBackStep(a) \/ RolledBack(a) \/ Die(a)
        PROVE  IInv'
      BY <1>2, ExchangeFailsInv, ConfirmInv, CreateReplayInv, CreateLocatorInv,
         CreateStubInv, RollBackStepInv, EndsInv
  <1>3. ASSUME NEW h \in Phones, Receive(h) \/ PhoneConfirms(h) \/ PhoneDrops(h) \/ Revoke(h)
        PROVE  IInv'
      BY <1>3, ReceiveInv, PhoneConfirmsInv, PhoneForgetsInv
  <1>4. CASE UNCHANGED vars
    <2>1. UNCHANGED <<platform, att, desktopFiles, sent, screen, records>>
        BY <1>4 DEF vars, desktopFiles
    <2>2. AttTyped' /\ FilesTyped' /\ Commands' /\ Paths' /\ Beside' /\ Files'
        BY <2>1, CommandsSame
    <2>3. PhonesTyped' /\ Shown' /\ Recorded'
        BY <2>1 DEF IInv, Typed, PhonesTyped, Shown, AnswerOf, Recorded, Record
    <2> QED
        BY <2>2, <2>3 DEF IInv, Typed
  <1> QED
      BY <1>1, <1>2, <1>3, <1>4 DEF Next

-----------------------------------------------------------------------------
(* What a finished command has. *)

\* The key pairs of a desktop and a phone, and the one-time keys.
LEMMA KeysApart ==
    ASSUME NEW d \in Attempts, NEW h \in Phones
    PROVE  /\ {<<"sign", d>>, <<"select", d>>, <<"identity", h>>, <<"phone", h>>} \subseteq Keys
           /\ <<"sign", d>> # <<"select", d>> /\ <<"identity", h>> # <<"phone", h>>
           /\ {<<"sign", d>>, <<"select", d>>} \cap {<<"identity", h>>, <<"phone", h>>} = {}
           /\ OneTime(0) \in Keys /\ OneTime(1) \in Keys /\ OneTime(2) \in Keys
  BY PairingAssumption

\* What its identity file says.
LEMMA StubIs ==
    ASSUME IInv, NEW a \in Done
    PROVE  LET d == att[a].id
               h == att[a].hand
               stub == StubOf(a)
           IN  /\ stub.record = Record(d, h)
               /\ ReadText(1, stub.recipient) = LegacyRecipient(<<"identity", h>>)
               /\ stub # Bad /\ StubDecodes(stub)
  <1> DEFINE d == att[a].id
             h == att[a].hand
             stub == StubOf(a)
             r == LegacyRecipient(<<"identity", h>>)
             text == Text("age1phone", r)
  <1>1. a \in Attempts /\ d \in Attempts /\ h \in Phones
      BY AnsweredHas DEF Done, Confirmed
  <1>2. PICK n \in 0 .. MaxResponses : att[a].response = Answer(h, OfferOf(a), n)
      BY AnsweredHas DEF Done, Confirmed
  <1>3. OfferOf(a) = SignedOffer(d, a) /\ OfferOf(a) \in Offers
      BY <1>1 DEF OfferOf, Offers
  <1>4. OfferOf(a).payload = Offer(d, <<"sign", d>>, <<"select", d>>, a)
      BY <1>1, <1>3, OfferIs DEF Signed
  <1>5. att[a].response.payload = PairingResponse(h, text, <<"phone", h>>, OfferOf(a), n)
      BY <1>1, <1>2, <1>3, AnswerIs DEF Signed
  <1>6. stub # Bad /\ r # Bad
      BY <1>1, <1>2, <1>3, BadAssumption DEF StubOf
  <1>7. ReadText(1, text) = r
    <2>1. r.version = 1 /\ r.phone = <<"identity", h>> /\ <<"identity", h>> \in Keys
        BY <1>1, KeysApart DEF LegacyRecipient
    <2>2. text.payload = r
        BY DEF Text
    <2> QED
        BY <2>1, <2>2 DEF ReadText, ReadRecipient
  <1>8. r.phone = <<"identity", h>>
      BY DEF LegacyRecipient
  <1> HIDE DEF text, r
  <1>9. stub.record = Record(d, h) /\ stub.recipient = text
    <2>1. /\ att[a].response.payload.identity = h
          /\ att[a].response.payload.recipient = text
          /\ att[a].response.payload.signing = <<"phone", h>>
        BY <1>5 DEF PairingResponse
    <2>2. PairingRecord(OfferOf(a), att[a].response) = Record(d, h)
        BY <1>4, <2>1 DEF PairingRecord, Record, Offer
    <2> QED
        BY <2>1, <2>2 DEF StubOf, Stub
  <1> HIDE DEF stub, d, h
  <1>10. StubDecodes(stub)
    <2>1. /\ stub.record.signing = <<"sign", d>> /\ stub.record.selection = <<"select", d>>
          /\ stub.record.phone = <<"phone", h>>
        BY <1>9 DEF Record
    <2> QED
        BY <1>1, <1>6, <1>7, <1>8, <1>9, <2>1, KeysApart DEF StubDecodes
  <1> QED
      BY <1>6, <1>7, <1>9, <1>10 DEF d, h, stub, r

LEMMA FileReads ==
    ASSUME NEW stub, StubDecodes(stub), NEW kind
    PROVE  ReadIdentityFile(IdentityFile(stub, kind)) = stub
  <1> DEFINE id == PluginIdentity(stub)
             file == IdentityFile(stub, kind)
  <1>1. id.payload = stub
      BY DEF PluginIdentity, Text
  <1> HIDE DEF id
  <1>2. file.identities = <<id>>
      BY DEF IdentityFile, id
  <1>3. Len(file.identities) = 1 /\ file.identities[1] = id
      BY <1>2
  <1> HIDE DEF file
  <1> QED
      BY <1>1, <1>3 DEF ReadIdentityFile, id, file

LEMMA DoneFile ==
    ASSUME IInv, NEW a \in Done
    PROVE  /\ ReadIdentityFile(stubs[att[a].stub]) = StubOf(a)
           /\ \E kind \in RecipientTypes :
                  stubs[att[a].stub] = IdentityFile(StubOf(a), kind)
  <1>1. \E kind \in RecipientTypes : stubs[att[a].stub] = IdentityFile(StubOf(a), kind)
      BY DEF Done, IInv, Files, Made
  <1>2. StubDecodes(StubOf(a))
      BY StubIs
  <1> QED
      BY <1>1, <1>2, FileReads

LEMMA RightDevicesNow == IInv => RightDevices
  <1> SUFFICES ASSUME IInv PROVE RightDevices
      OBVIOUS
  <1>1. ASSUME NEW a \in Done
        PROVE  LET stub == ReadIdentityFile(stubs[att[a].stub]) IN
               /\ stub # Bad
               /\ ReadText(1, stub.recipient).phone = <<"identity", att[a].hand>>
               /\ stub.record.phone = <<"phone", att[a].hand>>
    <2>1. ReadIdentityFile(stubs[att[a].stub]) = StubOf(a)
        BY DoneFile
    <2>2. /\ StubOf(a) # Bad /\ StubOf(a).record = Record(att[a].id, att[a].hand)
          /\ ReadText(1, StubOf(a).recipient) = LegacyRecipient(<<"identity", att[a].hand>>)
        BY StubIs
    <2> QED
        BY <2>1, <2>2 DEF LegacyRecipient, Record
  <1>2. ASSUME NEW h \in Phones, NEW r \in records[h]
        PROVE  \E a \in Attempts : att[a].hand = h /\ att[a].id = r.desktop
      BY DEF IInv, Recorded, Record
  <1> QED
      BY <1>1, <1>2 DEF RightDevices

LEMMA FinishedStaysNow == IInv => FinishedStays
  <1> SUFFICES ASSUME IInv, NEW a \in Done
               PROVE  /\ LocatorOf(a) \in locators
                      /\ ReadIdentityFile(stubs[att[a].stub]) = StubOf(a)
                      /\ \/ /\ state[att[a].desktop] = att[a].id
                            /\ platform = "windows" => att[a].id \in keys
                         \/ StateUndone(a)
                      /\ replay[att[a].replay] = Scope(a) \/ ReplayUndone(a)
      BY DEF FinishedStays
  <1>1. a \in Attempts /\ att[a].pc = "done"
      BY DEF Done
  <1>2. Intact(a) \/ StateUndone(a)
      BY <1>1 DEF IInv, Paths, Held, Ready
  <1>3. /\ replay[att[a].replay] = Scope(a) \/ ReplayUndone(a)
        /\ LocatorOf(a) \in locators
      BY <1>1 DEF IInv, Files, Made, Claims
  <1> QED
      BY <1>2, <1>3, DoneFile DEF Intact

LEMMA OneReplayNow == IInv => OneReplayPerScope
  BY DEF IInv, Files, Apart, Claims, OneReplayPerScope, Done

LEMMA TypeOKNow == IInv => TypeOK
  <1> SUFFICES ASSUME IInv PROVE TypeOK
      OBVIOUS
  <1>1. ASSUME NEW a \in Attempts
        PROVE  /\ att[a].pc \in Steps
               /\ att[a].hand \in Phones \cup {None}
               /\ att[a].desktop \in DesktopPaths
               /\ att[a].replay \in ReplayPaths
               /\ att[a].stub \in IdentityPaths
               /\ att[a].id \in Attempts \cup {None}
               /\ {att[a].todo[i] : i \in DOMAIN att[a].todo} \subseteq Undo
               /\ att[a].existed \in BOOLEAN /\ att[a].beside \subseteq Attempts
    <2>1. \A i \in DOMAIN att[a].todo : att[a].todo[i] \in Undo
        BY AttIsTyped
    <2> QED
        BY <2>1, AttIsTyped
  <1> QED
      BY <1>1 DEF IInv, Typed, FilesTyped, TypeOK

-----------------------------------------------------------------------------
(* What the records of a finished pairing are good for. *)

\* A sealed response opens for whoever sent the request.
LEMMA ResponseOpens ==
    ASSUME NEW d \in Attempts, NEW h \in Phones, NEW request,
           request.payload.desktop = d, request.payload.identity = h,
           request.payload.session = OneTime(1),
           SealResponse(request, "file key", <<"phone", h>>, OneTime(2), "nonce").payload.box # Bad
    PROVE  OpenResponse(SealResponse(request, "file key", <<"phone", h>>, OneTime(2), "nonce"),
                        request, Record(d, h), OneTime(1)) = "file key"
  <1> DEFINE p == UnwrapResponse(request, OneTime(2), "nonce")
             D == {"kind", "id", "request", "identity", "desktop", "session", "nonce"}
             key == SessionKey(Agree(OneTime(2), OneTime(1)), p.request, "nonce")
             box == Seal(key, p, "file key")
             P == [n \in DOMAIN p \cup {"box"} |-> IF n = "box" THEN box ELSE p[n]]
             m == SealResponse(request, "file key", <<"phone", h>>, OneTime(2), "nonce")
             record == Record(d, h)
  <1>1. p = [n \in D |-> p[n]]
      BY DEF UnwrapResponse
  <1>2. /\ p.kind = "response" /\ p.id = request.payload.id
        /\ p.request = Digest("request", request)
        /\ p.identity = h /\ p.desktop = d /\ p.session = OneTime(2) /\ p.nonce = "nonce"
      BY DEF UnwrapResponse
  <1>3. m = Signed(<<"phone", h>>, P)
      BY DEF SealResponse
  <1>4. box.key = key /\ box.aad = p /\ box.plain = "file key"
      BY DEF Seal
  <1>5. <<"phone", h>> \in Keys /\ record.phone = <<"phone", h>>
        /\ record.desktop = d /\ record.identity = h
      BY KeysApart DEF Record
  <1>6. P = [n \in D \cup {"box"} |-> IF n = "box" THEN box ELSE p[n]]
      BY <1>1
  <1>7. Agree(OneTime(2), OneTime(1)) = Agree(OneTime(1), OneTime(2))
      BY DEF Agree
  <1> HIDE DEF P, box, m, record
  <1>8. m.payload = P /\ m.signature = <<<<"phone", h>>, P.kind, P>>
      BY <1>3 DEF Signed
  <1> HIDE DEF p
  <1>9. /\ P.box = box /\ P.kind = "response" /\ P.id = request.payload.id
        /\ P.request = Digest("request", request)
        /\ P.identity = h /\ P.desktop = d /\ P.session = OneTime(2) /\ P.nonce = "nonce"
      BY <1>2, <1>6
  <1>10. [n \in DOMAIN P \ {"box"} |-> P[n]] = p
    <2>1. DOMAIN P \ {"box"} = D
        BY <1>6
    <2> QED
        BY <2>1, <1>1, <1>6
  <1>11. box # Bad
      BY <1>8, <1>9 DEF m
  <1>12. /\ RequestIsFor(P, record)
         /\ Authentic(m, "response", record.phone)
      BY <1>5, <1>8, <1>9 DEF RequestIsFor, Authentic
  <1>13. UnwrapResponse(request, P.session, P.nonce) = p
      BY <1>9 DEF p
  <1>14. SessionKey(Agree(OneTime(1), P.session), P.request, P.nonce) = key
      BY <1>2, <1>7, <1>9
  <1>15. Open(key, p, box) = "file key"
      BY <1>4, <1>11 DEF Open
  <1> HIDE DEF key
  <1> QED
      BY <1>2, <1>8, <1>9, <1>10, <1>12, <1>13, <1>14, <1>15 DEF OpenResponse, m, record

\* The records carry a file key from a phone that can unwrap it to its desktop.
LEMMA Exchange ==
    ASSUME NEW d \in Attempts, NEW h \in Phones, NEW s, NEW key,
           ValidStanza(s), UnwrapFileKey(key, s) = "file key",
           LET request == Signed(<<"sign", d>>,
                                 Request("request", Record(d, h), OneTime(1), s))
           IN  /\ request # Bad
               /\ SealResponse(request, "file key", <<"phone", h>>, OneTime(2),
                               "nonce").payload.box # Bad
    PROVE  Unwraps(Record(d, h), Record(d, h), s, key, "file key")
  <1> DEFINE record == Record(d, h)
             payload == Request("request", record, OneTime(1), s)
             request == Signed(<<"sign", d>>, payload)
  <1>1. /\ record.desktop = d /\ record.identity = h
        /\ record.signing = <<"sign", d>> /\ record.phone = <<"phone", h>>
      BY DEF Record
  <1> HIDE DEF record
  <1>2. /\ payload.kind = "request" /\ payload.identity = h /\ payload.desktop = d
        /\ payload.session = OneTime(1) /\ payload.stanza = s
      BY <1>1 DEF Request
  <1> HIDE DEF payload
  <1>3. /\ request.payload = payload
        /\ request.signature = <<<<"sign", d>>, "request", payload>>
      BY <1>2 DEF Signed
  <1>4. request # Bad
      BY DEF record, payload
  <1>5. SealResponse(request, "file key", <<"phone", h>>, OneTime(2), "nonce").payload.box # Bad
      BY DEF record, payload
  <1>6. ValidRequest(payload) /\ RequestIsFor(payload, record)
      BY <1>1, <1>2, KeysApart DEF ValidRequest, RequestIsFor
  <1>7. CreateRequest(payload, record.signing, record) = request
      BY <1>1, <1>6 DEF CreateRequest
  <1> HIDE DEF request
  <1>8. RequestVerifies(request, record)
    <2>1. <<"sign", d>> \in Keys
        BY KeysApart
    <2>2. Authentic(request, "request", record.signing)
        BY <1>1, <1>2, <1>3, <2>1 DEF Authentic
    <2> QED
        BY <1>3, <1>6, <2>2 DEF RequestVerifies
  <1>9. OpenResponse(SealResponse(request, "file key", record.phone, OneTime(2), "nonce"),
                     request, record, OneTime(1)) = "file key"
    <2>1. /\ request.payload.desktop = d /\ request.payload.identity = h
          /\ request.payload.session = OneTime(1)
        BY <1>2, <1>3
    <2> QED
        BY <2>1, <1>1, <1>5, ResponseOpens DEF record
  <1>10. Unwraps(record, record, s, key, "file key")
      BY <1>4, <1>7, <1>8, <1>9 DEF Unwraps, payload
  <1> QED
      BY <1>10 DEF record

\* A stanza for the paired recipient: its desktop finds it, its phone unwraps it.
LEMMA PrivateWorks ==
    ASSUME NEW d \in Attempts, NEW h \in Phones, NEW own,
           own = PairedRecipient(<<"identity", h>>, <<"select", d>>, h),
           LET s == WrapPaired(own, OneTime(0), "file key") IN
           s.body # Bad /\ s.args[2] # Bad
    PROVE  LET s == WrapPaired(own, OneTime(0), "file key") IN
           /\ ValidStanza(s) /\ Matches(own, <<"select", d>>, s)
           /\ UnwrapFileKey(<<"identity", h>>, s) = "file key"
  <1> DEFINE e == OneTime(0)
             body == FileKeyBox(V2, e, Agree(e, own.phone), own.phone, "file key")
             box == SelectionBox(e, Agree(e, own.selection), own, body)
             s == WrapPaired(own, e, "file key")
  <1>1. /\ own.version = 2 /\ own.phone = <<"identity", h>>
        /\ own.selection = <<"select", d>> /\ own.id = h
      BY DEF PairedRecipient
  <1>2. /\ s.tag = V2 /\ s.body = body
        /\ s.args = <<Point("compressed", e), box>>
      BY DEF WrapPaired, Stanza
  <1>3. /\ body.key = DeriveKey(Agree(e, own.phone), e, own.phone, <<V2, "file-key">>)
        /\ body.aad = AssociatedData(V2, e, own.phone) /\ body.plain = "file key"
      BY DEF FileKeyBox, Seal
  <1>4. /\ box.key = DeriveKey(Agree(e, own.selection), e, own.selection, <<V2, "selection">>)
        /\ box.aad = SelectionData(e, own, body) /\ box.plain = own.id
      BY DEF SelectionBox, Seal
  <1>5. ReadPoint("compressed", Point("compressed", e)) = e
      BY KeysApart DEF ReadPoint, Point
  <1>6. \A x, y : Agree(x, y) = Agree(y, x)
      BY DEF Agree
  <1>7. e # Bad
      BY KeysApart, StanzasAssumption
  <1>8. V1 # V2 /\ V2 # Tag
      BY DEF V1, V2, Tag
  <1> HIDE DEF e, body, box
  <1>9. Len(s.args) = 2 /\ s.args[1] = Point("compressed", e) /\ s.args[2] = box
    <2> DEFINE args == s.args
               point == Point("compressed", e)
    <2>1. args = <<point, box>>
        BY <1>2
    <2> HIDE DEF args, point
    <2>2. Len(args) = 2 /\ args[1] = point /\ args[2] = box
        BY <2>1
    <2> QED
        BY <2>2 DEF args, point
  <1>10. body # Bad /\ box # Bad
      BY <1>2, <1>9 DEF e
  <1> HIDE DEF s
  <1>11. Ephemeral(s) = e
      BY <1>2, <1>5, <1>8, <1>9, <1>10 DEF Ephemeral
  <1>12. ValidStanza(s)
      BY <1>7, <1>11 DEF ValidStanza
  <1>13. Matches(own, <<"select", d>>, s)
      BY <1>1, <1>2, <1>4, <1>6, <1>9, <1>10, <1>11 DEF Matches, Open
  <1>14. UnwrapFileKey(<<"identity", h>>, s) = "file key"
    <2>1. Agree(<<"identity", h>>, e) = Agree(e, own.phone)
        BY <1>1, <1>6
    <2> QED
        BY <2>1, <1>1, <1>2, <1>3, <1>7, <1>8, <1>10, <1>11 DEF UnwrapFileKey, Open
  <1> QED
      BY <1>12, <1>13, <1>14 DEF s, e

\* A stanza for the tagged recipient passes the prefilter and unwraps likewise.
LEMMA TaggedWorks ==
    ASSUME NEW d \in Attempts, NEW h \in Phones,
           LET s == WrapTagged(<<"identity", h>>, OneTime(0), "file key") IN
           s.body # Bad /\ s.args[1] # Bad
    PROVE  LET s == WrapTagged(<<"identity", h>>, OneTime(0), "file key") IN
           /\ ValidStanza(s) /\ TagMatches(<<"identity", h>>, s)
           /\ UnwrapFileKey(<<"identity", h>>, s) = "file key"
  <1> DEFINE e == OneTime(0)
             phone == <<"identity", h>>
             selector == Selector[e][phone]
             key == Schedule(Agree(e, phone), e, phone)
             body == Seal(key, <<>>, "file key")
             s == WrapTagged(phone, e, "file key")
  <1>1. /\ s.tag = Tag /\ s.body = body
        /\ s.args = <<selector, Point("uncompressed", e)>>
      BY DEF WrapTagged, Stanza
  <1>2. body.key = key /\ body.aad = <<>> /\ body.plain = "file key"
      BY DEF Seal
  <1>3. ReadPoint("uncompressed", Point("uncompressed", e)) = e
      BY KeysApart DEF ReadPoint, Point
  <1>4. key = Schedule(Agree(phone, e), e, phone)
    <2>1. Agree(phone, e) = Agree(e, phone)
        BY DEF Agree
    <2> QED
        BY <2>1
  <1>5. e # Bad
      BY KeysApart, StanzasAssumption
  <1>6. V1 # Tag /\ V2 # Tag
      BY DEF V1, V2, Tag
  <1>7. Len(s.args) = 2 /\ s.args[1] = selector /\ s.args[2] = Point("uncompressed", e)
    <2> DEFINE args == s.args
               point == Point("uncompressed", e)
    <2>1. args = <<selector, point>>
        BY <1>1
    <2> HIDE DEF args, point, selector
    <2>2. Len(args) = 2 /\ args[1] = selector /\ args[2] = point
        BY <2>1
    <2> QED
        BY <2>2 DEF args, point
  <1>8. body # Bad /\ selector # Bad
      BY <1>1, <1>7
  <1> HIDE DEF e, phone, body, key, s
  <1>9. Ephemeral(s) = e
      BY <1>1, <1>3, <1>6, <1>7, <1>8 DEF Ephemeral
  <1>10. ValidStanza(s)
      BY <1>5, <1>9 DEF ValidStanza
  <1>11. TagMatches(phone, s)
      BY <1>7, <1>9 DEF TagMatches
  <1>12. UnwrapFileKey(phone, s) = "file key"
      BY <1>1, <1>2, <1>4, <1>5, <1>8, <1>9, <1>11 DEF UnwrapFileKey, Open
  <1> QED
      BY <1>10, <1>11, <1>12 DEF s, e, phone

LEMMA RecordsWorkNow == IInv => RecordsWork
  <1> SUFFICES ASSUME IInv, NEW a \in Done, NEW r \in records[att[a].hand],
                      r.desktop = att[a].id
               PROVE  LET file == stubs[att[a].stub]
                          stub == ReadIdentityFile(file)
                          desktop == stub.record
                          identity == <<"identity", att[a].hand>>
                          own == ReadText(2, PhoneRecipient(stub))
                          private == WrapFileKey(ReadText(2, file.comment), OneTime(0), "file key")
                          tagged == WrapTagged(ReadTagText(file.comment), OneTime(0), "file key")
                      IN  IF ReadText(2, file.comment) # Bad
                          THEN /\ Matches(own, <<"select", att[a].id>>, private)
                               /\ Unwraps(desktop, r, private, identity, "file key")
                          ELSE /\ TagMatches(identity, tagged)
                               /\ Unwraps(desktop, r, tagged, identity, "file key")
      BY DEF RecordsWork
  <1> DEFINE d == att[a].id
             h == att[a].hand
             identity == <<"identity", h>>
             record == Record(d, h)
             own == PairedRecipient(identity, <<"select", d>>, h)
             private == WrapPaired(own, OneTime(0), "file key")
             tagged == WrapTagged(identity, OneTime(0), "file key")
             request(s) == Signed(<<"sign", d>>, Request("request", record, OneTime(1), s))
  <1>1. a \in Attempts /\ d \in Attempts /\ h \in Phones
      BY AnsweredHas DEF Done, Confirmed
  <1>2. PICK n \in 0 .. MaxResponses : att[a].response = Answer(h, OfferOf(a), n)
      BY AnsweredHas DEF Done, Confirmed
  <1>3. /\ StubOf(a).record = record
        /\ ReadText(1, StubOf(a).recipient) = LegacyRecipient(identity)
      BY StubIs
  <1>4. PairingRecord(SignedOffer(d, a), Answer(h, SignedOffer(d, a), n)) = record
      BY <1>2, <1>3 DEF StubOf, Stub, OfferOf
  <1>5. /\ own # Bad
        /\ private.body # Bad /\ private.args[2] # Bad
        /\ tagged.body # Bad /\ tagged.args[1] # Bad
        /\ \A s \in {private, tagged} :
             /\ request(s) # Bad
             /\ SealResponse(request(s), "file key", <<"phone", h>>, OneTime(2),
                             "nonce").payload.box # Bad
    <2> DEFINE offer == SignedOffer(d, a)
               answer == Answer(h, offer, n)
    <2>1. PairingRecord(offer, answer) = record
        BY <1>4
    <2>2. LET rec == PairingRecord(offer, answer) IN
          /\ Bad \notin {LegacyRecipient(identity), own, Stub(offer, answer)}
          /\ \A s \in {private, tagged} :
               LET req == Signed(<<"sign", d>>, Request("request", rec, OneTime(1), s))
               IN  /\ Bad \notin {s.body, s.args[1], s.args[2], req}
                   /\ SealResponse(req, "file key", <<"phone", h>>, OneTime(2),
                                   "nonce").payload.box # Bad
        BY <1>1, BadAssumption
    <2> HIDE DEF offer, answer, record, own, private, tagged
    <2> QED
        BY <2>1, <2>2
  <1>6. own.phone = identity /\ own.selection = <<"select", d>> /\ own.version = 2
      BY DEF PairedRecipient
  <1>7. PhoneRecipient(StubOf(a)) = Text("age1phone", own)
      BY <1>3 DEF PhoneRecipient, LegacyRecipient, Record
  <1>8. ReadText(2, Text("age1phone", own)) = own
    <2>1. Text("age1phone", own).payload = own
        BY DEF Text
    <2>2. identity \in Keys /\ <<"select", d>> \in Keys
        BY <1>1, KeysApart
    <2> HIDE DEF own
    <2> QED
        BY <1>6, <2>1, <2>2 DEF ReadText, ReadRecipient
  <1>9. r = record
    <2>1. PICK b \in Attempts : r = Record(att[b].id, h)
        BY <1>1 DEF IInv, Recorded
    <2>2. att[b].id = d
        BY <2>1 DEF Record
    <2> QED
        BY <2>1, <2>2
  <1>10. /\ ReadIdentityFile(stubs[att[a].stub]) = StubOf(a)
         /\ \E kind \in RecipientTypes : stubs[att[a].stub].comment = RecipientFor(StubOf(a), kind)
    <2>1. PICK kind \in RecipientTypes : stubs[att[a].stub] = IdentityFile(StubOf(a), kind)
        BY DoneFile
    <2>2. IdentityFile(StubOf(a), kind).comment = RecipientFor(StubOf(a), kind)
        BY DEF IdentityFile
    <2> QED
        BY <2>1, <2>2, DoneFile
  <1>11. /\ ValidStanza(private) /\ Matches(own, <<"select", d>>, private)
         /\ UnwrapFileKey(identity, private) = "file key"
      BY <1>1, <1>5, PrivateWorks
  <1>12. /\ ValidStanza(tagged) /\ TagMatches(identity, tagged)
         /\ UnwrapFileKey(identity, tagged) = "file key"
      BY <1>1, <1>5, TaggedWorks
  <1>13. ASSUME NEW s \in {private, tagged}
         PROVE  Unwraps(record, record, s, identity, "file key")
    <2>1. ValidStanza(s) /\ UnwrapFileKey(identity, s) = "file key"
        BY <1>11, <1>12
    <2>2. /\ request(s) # Bad
          /\ SealResponse(request(s), "file key", <<"phone", h>>, OneTime(2),
                          "nonce").payload.box # Bad
        BY <1>5
    <2> HIDE DEF private, tagged
    <2> QED
        BY <1>1, <2>1, <2>2, Exchange
  <1> DEFINE comment == stubs[att[a].stub].comment
  <1>14. CASE comment = PhoneRecipient(StubOf(a))
    <2>1. ReadText(2, comment) = own /\ own # Bad
        BY <1>5, <1>7, <1>8, <1>14
    <2>2. WrapFileKey(own, OneTime(0), "file key") = private
      <3> HIDE DEF own
      <3> QED
          BY <1>6 DEF WrapFileKey
    <2>3. ReadText(2, PhoneRecipient(StubOf(a))) = own
        BY <1>7, <1>8
    <2>4. Unwraps(record, record, private, identity, "file key")
        BY <1>13
    <2> HIDE DEF private, tagged, own, record
    <2> QED
        BY <1>3, <1>9, <1>10, <1>11, <2>1, <2>2, <2>3, <2>4
  <1>15. CASE comment = TagRecipient(StubOf(a))
    <2>1. comment = Text("age1tag", identity)
        BY <1>3, <1>15 DEF TagRecipient, LegacyRecipient
    <2>2. ReadText(2, comment) = Bad /\ ReadTagText(comment) = identity
      <3>1. comment.prefix = "age1tag" /\ comment.payload = identity
          BY <2>1 DEF Text
      <3>2. comment # Text("age1phone", comment.payload)
          BY <3>1 DEF Text
      <3>3. identity \in Keys
          BY <1>1, KeysApart
      <3> HIDE DEF comment, identity
      <3>4. ReadText(2, comment) = Bad
          BY <3>2 DEF ReadText
      <3>5. ReadTagText(comment) = identity
          BY <2>1, <3>1, <3>3 DEF ReadTagText
      <3> QED
          BY <3>4, <3>5
    <2>3. Unwraps(record, record, tagged, identity, "file key")
        BY <1>13
    <2> HIDE DEF private, own, record
    <2> QED
        BY <1>3, <1>9, <1>10, <1>12, <2>2, <2>3
  <1> QED
      BY <1>10, <1>14, <1>15 DEF RecipientFor, RecipientTypes

-----------------------------------------------------------------------------
\* Everything the proofs say of a state holds in every state.
THEOREM Invariance == Spec => []IInv
  BY InitInv, StepInv, PTL DEF Spec

\* Every variable keeps its shape.
THEOREM TypeCorrect == Spec => []TypeOK
  BY Invariance, TypeOKNow, PTL

\* Whatever offers and responses the routes mix up, repeat or delay, a finished
\* command is paired with the phone its user held, and a phone only with desktops
\* whose user held it (DesktopPairingSession::confirm).
THEOREM PairedRight == Spec => []RightDevices
  BY Invariance, RightDevicesNow, PTL

\* A finished pairing keeps its locator and its identity file; its desktop state, keys
\* and replay state go only by the rollback of a command that ran at the same time on
\* their paths (run_pair takes no lock; rollback_failed_pairing).
THEOREM FinishedKeepsFiles == Spec => []FinishedStays
  BY Invariance, FinishedStaysNow, PTL

\* No two finished pairings have the same desktop and identity, so that no two replay
\* states guard one stream of responses (create_pairing_locator).
THEOREM NeverTwoReplays == Spec => []OneReplayPerScope
  BY Invariance, OneReplayNow, PTL

\* Between a finished command's identity file and the phone's record of it, file keys
\* are found, unwrapped and carried back (create_request, seal_response, open_response).
THEOREM PairingsWork == Spec => []RecordsWork
  BY Invariance, RecordsWorkNow, PTL

=============================================================================
