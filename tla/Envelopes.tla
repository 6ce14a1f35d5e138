----------------------------- MODULE Envelopes -----------------------------
(***************************************************************************)
(* The four signed messages of protocol version 2 (crates/core             *)
(* protocol/mod.rs): pairing offer and response, unwrap request and        *)
(* response.  What each side checks before it believes one, and what the   *)
(* two sides hold once they are paired.                                    *)
(*                                                                         *)
(* A payload is a record whose kind is the message type in its header.  A  *)
(* signature names its key, its domain and the payload it is over; a hash  *)
(* is its domain and what was hashed.  Time and replay are UnwrapProtocol's.*)
(***************************************************************************)
EXTENDS Stanzas

Signed(key, payload) ==
    [payload |-> payload, signature |-> <<key, payload.kind, payload>>]

\* The message is of this kind and its signature is this key's over its payload.
Authentic(m, kind, key) ==
    /\ m.payload.kind = kind
    /\ key \in Keys
    /\ m.signature = <<key, kind, m.payload>>

Digest(domain, m) == <<domain, m>>

\* A message has one encoding, of one version and suite, that names its kind;
\* any other bytes, and another kind of message, do not decode.
Encode(m) == [version |-> 2, suite |-> 1, message |-> m]
Decode(kind, wire) ==
    IF wire # Bad /\ wire = Encode(wire.message) /\ wire.message.payload.kind = kind
    THEN wire.message ELSE Bad

-----------------------------------------------------------------------------
(* Pairing. *)

Offer(desktop, signing, selection, nonce) ==
    [kind |-> "offer", desktop |-> desktop, signing |-> signing,
     selection |-> selection, nonce |-> nonce]

ValidOffer(p) == p.selection \in Keys /\ p.selection # p.signing

SignOffer(p, key) ==
    IF key = p.signing /\ ValidOffer(p) THEN Signed(key, p) ELSE Bad

OfferVerifies(m) == Authentic(m, "offer", m.payload.signing) /\ ValidOffer(m.payload)

PairingResponse(identity, recipient, signing, offer, nonce) ==
    [kind |-> "pairing", identity |-> identity, recipient |-> recipient,
     signing |-> signing, offer |-> Digest("offer", offer), nonce |-> nonce]

\* validate_pairing_response: a readable recipient, and two keys for two roles.
ValidPairing(p) ==
    LET r == ReadText(1, p.recipient) IN
    r # Bad /\ p.signing \in Keys /\ r.phone # p.signing

SignPairing(p, key) ==
    IF key = p.signing /\ ValidPairing(p) THEN Signed(key, p) ELSE Bad

\* SignedPairingResponse::verify: for this very offer, by keys that are not the
\* desktop's own.
PairingVerifies(m, offer) ==
    /\ OfferVerifies(offer)
    /\ ValidPairing(m.payload)
    /\ m.payload.offer = Digest("offer", offer)
    /\ {ReadText(1, m.payload.recipient).phone, m.payload.signing}
           \cap {offer.payload.signing, offer.payload.selection} = {}
    /\ Authentic(m, "pairing", m.payload.signing)

\* Mutant: only the offer is shown to the users.
FingerprintOfOffer(offer, response) == Digest("fingerprint", offer)

\* pairing_fingerprint: of the whole transcript.
Fingerprint(offer, response) == Digest("fingerprint", <<offer, response>>)

\* Mutant: the desktop's two keys are stored in each other's place.
PairingRecordSwapped(offer, response) ==
    [desktop   |-> offer.payload.desktop,
     identity  |-> response.payload.identity,
     signing   |-> offer.payload.selection,
     selection |-> offer.payload.signing,
     phone     |-> response.payload.signing]

\* What either side keeps of a confirmed transcript.
PairingRecord(offer, response) ==
    [desktop   |-> offer.payload.desktop,
     identity  |-> response.payload.identity,
     signing   |-> offer.payload.signing,
     selection |-> offer.payload.selection,
     phone     |-> response.payload.signing]

\* PublicIdentityStub: the record, the phone's recipient and the transcript.
Stub(offer, response) ==
    [record      |-> PairingRecord(offer, response),
     recipient   |-> response.payload.recipient,
     fingerprint |-> Fingerprint(offer, response)]

\* PublicIdentityStub::decode: four valid keys, no two of them the same.
StubDecodes(stub) ==
    LET r == ReadText(1, stub.recipient)
        rec == stub.record
    IN  /\ r # Bad
        /\ {rec.signing, rec.selection, rec.phone} \subseteq Keys
        /\ rec.signing # rec.selection
        /\ rec.phone \notin {rec.signing, rec.selection}
        /\ r.phone \notin {rec.signing, rec.selection, rec.phone}

\* The recipients a stub prints: paired, and native tagged.
PhoneRecipient(stub) ==
    Text("age1phone", PairedRecipient(ReadText(1, stub.recipient).phone,
                                      stub.record.selection, stub.record.identity))
TagRecipient(stub) == Text("age1tag", ReadText(1, stub.recipient).phone)

\* RecipientType: the one the user asks for.
RecipientTypes == {"phone", "tag"}
RecipientFor(stub, kind) == IF kind = "phone" THEN PhoneRecipient(stub) ELSE TagRecipient(stub)

\* encode, plugin_identity: uppercase Bech32 under the plugin's own prefix.
PluginIdentity(stub) == [Text("age-plugin-phone-", stub) EXCEPT !.form = "BECH32"]

\* identity_file_for: a comment for the recipient, and the one identity.
IdentityFile(stub, kind) ==
    [comment |-> RecipientFor(stub, kind), identities |-> <<PluginIdentity(stub)>>]

\* decode_identity_stub_text: a single identity, in the form it is written in.
ReadIdentityFile(file) ==
    LET stub == file.identities[1].payload IN
    IF Len(file.identities) = 1 /\ file.identities[1] = PluginIdentity(stub) /\ StubDecodes(stub)
    THEN stub ELSE Bad

-----------------------------------------------------------------------------
(* Unwrapping. *)

Request(id, record, session, stanza) ==
    [kind |-> "request", id |-> id, identity |-> record.identity,
     desktop |-> record.desktop, session |-> session, stanza |-> stanza]

\* validate_request, apart from its times.
ValidRequest(p) == p.session \in Keys /\ ValidStanza(p.stanza)

RequestIsFor(p, record) ==
    p.desktop = record.desktop /\ p.identity = record.identity

\* create_request: on the desktop, for its own pairing and with its own key.
CreateRequest(p, key, record) ==
    IF RequestIsFor(p, record) /\ key = record.signing /\ ValidRequest(p)
    THEN Signed(key, p) ELSE Bad

\* verify_request_with_replay, before the consumption.
RequestVerifies(m, record) ==
    /\ ValidRequest(m.payload)
    /\ RequestIsFor(m.payload, record)
    /\ Authentic(m, "request", record.signing)

SessionKey(shared, digest, nonce) == DeriveKey(shared, digest, nonce, "session")

UnwrapResponse(request, ephemeral, nonce) ==
    [kind |-> "response", id |-> request.payload.id,
     request |-> Digest("request", request),
     identity |-> request.payload.identity, desktop |-> request.payload.desktop,
     session |-> ephemeral, nonce |-> nonce]

\* seal_response: the file key for the request's one-time key, bound to the rest.
SealResponse(request, fileKey, key, ephemeral, nonce) ==
    LET p == UnwrapResponse(request, ephemeral, nonce)
        box == Seal(SessionKey(Agree(ephemeral, request.payload.session),
                               p.request, nonce), p, fileKey)
    IN  Signed(key, [n \in DOMAIN p \cup {"box"} |-> IF n = "box" THEN box ELSE p[n]])

\* open_response, before the consumption: the file key, or Bad.
OpenResponse(m, request, record, session) ==
    LET p == m.payload
        bound == UnwrapResponse(request, p.session, p.nonce)
    IN  IF /\ p.id = bound.id /\ p.request = bound.request
           /\ RequestIsFor(p, record)
           /\ Authentic(m, "response", record.phone)
        THEN Open(SessionKey(Agree(session, p.session), p.request, p.nonce),
                  [n \in DOMAIN p \ {"box"} |-> p[n]], p.box)
        ELSE Bad
=============================================================================
