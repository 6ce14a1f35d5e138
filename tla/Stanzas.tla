------------------------------ MODULE Stanzas ------------------------------
(***************************************************************************)
(* Recipient stanzas: how a file key is wrapped for a phone, recognised by *)
(* a desktop and unwrapped by the phone (crates/core recipient/).          *)
(*                                                                         *)
(* Cryptography is symbolic: a key pair is named by its public key, a      *)
(* shared secret is the pair of keys agreed on, a derived key is the tuple *)
(* of everything that enters the derivation, and a sealed box opens only   *)
(* under its own key and associated data.  What does not decode (Base64,   *)
(* length, point or canonical form) is the value Bad.                      *)
(***************************************************************************)
EXTENDS Sequences

CONSTANTS
    Keys,      \* P-256 key pairs
    Bad,       \* what a failed decoding, decryption or unwrapping returns
    Selector   \* Selector[e][k]: four public bytes of key k under ephemeral e

ASSUME StanzasAssumption == Bad \notin Keys

V1 == "phone-p256-v1"
V2 == "phone-p256-v2"
Tag == "p256tag"

Stanza(tag, args, body) == [tag |-> tag, args |-> args, body |-> body]

\* Points are written compressed in phone stanzas and uncompressed in p256tag;
\* only the canonical form of a point on the curve is read back.
Point(form, key) == [form |-> form, key |-> key]
ReadPoint(form, point) ==
    IF point.form = form /\ point.key \in Keys THEN point.key ELSE Bad

Agree(mine, theirs) == {mine, theirs}
DeriveKey(shared, ephemeral, recipient, info) ==
    <<shared, ephemeral, recipient, info>>

\* ChaCha20-Poly1305 under a derived key.
Seal(key, aad, plain) == [key |-> key, aad |-> aad, plain |-> plain]
Open(key, aad, box) ==
    IF box # Bad /\ box.key = key /\ box.aad = aad THEN box.plain ELSE Bad

-----------------------------------------------------------------------------
(* Recipients. *)

\* The decoded payload of an age1phone recipient, version 1 or 2, and the
\* paired desktop and identity it may carry.
LegacyRecipient(phone) == [version |-> 1, phone |-> phone]
PairedRecipient(phone, selection, id) ==
    [version |-> 2, phone |-> phone, selection |-> selection, id |-> id]

\* Recipient::from_plugin_bytes, PairedRecipient::from_plugin_bytes.
ReadRecipient(r) ==
    IF /\ r.version \in {1, 2}
       /\ r.phone \in Keys
       /\ r.version = 2 => r.selection \in Keys
    THEN r ELSE Bad

\* The text of a recipient: Bech32 under its own prefix, canonical lowercase only.
\* A native tagged recipient is the key alone.
Text(prefix, payload) == [prefix |-> prefix, form |-> "bech32", payload |-> payload]
ReadText(version, text) ==
    IF text = Text("age1phone", text.payload) /\ text.payload.version = version
    THEN ReadRecipient(text.payload) ELSE Bad
ReadTagText(text) ==
    IF text = Text("age1tag", text.payload) /\ text.payload \in Keys
    THEN text.payload ELSE Bad

-----------------------------------------------------------------------------
(* Wrapping. *)

AssociatedData(tag, ephemeral, recipient) == <<tag, ephemeral, recipient>>

\* The selector is bound to the body, so neither is of use without the other.
SelectionData(ephemeral, r, body) ==
    <<V2, "selection", ephemeral, r.phone, r.selection, body>>

FileKeyBox(tag, ephemeral, shared, phone, fileKey) ==
    Seal(DeriveKey(shared, ephemeral, phone, <<tag, "file-key">>),
         AssociatedData(tag, ephemeral, phone), fileKey)

SelectionBox(ephemeral, shared, r, body) ==
    Seal(DeriveKey(shared, ephemeral, r.selection, <<V2, "selection">>),
         SelectionData(ephemeral, r, body), r.id)

\* wrap_file_key: any reader of the file sees that it is for some phone.
WrapLegacy(r, ephemeral, fileKey) ==
    Stanza(V1, <<Point("compressed", ephemeral)>>,
           FileKeyBox(V1, ephemeral, Agree(ephemeral, r.phone), r.phone, fileKey))

\* wrap_file_key_v2: the selector hides the identity from all but its desktop.
WrapPaired(r, ephemeral, fileKey) ==
    LET body == FileKeyBox(V2, ephemeral, Agree(ephemeral, r.phone), r.phone, fileKey)
    IN  Stanza(V2, <<Point("compressed", ephemeral),
                     SelectionBox(ephemeral, Agree(ephemeral, r.selection), r, body)>>,
               body)

\* tag.rs: the HPKE key schedule and wrap_with_ephemeral.
Schedule(shared, ephemeral, phone) ==
    DeriveKey(shared, ephemeral, phone, <<Tag, "hpke">>)

WrapTagged(phone, ephemeral, fileKey) ==
    Stanza(Tag, <<Selector[ephemeral][phone], Point("uncompressed", ephemeral)>>,
           Seal(Schedule(Agree(ephemeral, phone), ephemeral, phone), <<>>, fileKey))

\* PhoneRecipientPlugin::wrap_file_keys, for one recipient of one file.
WrapFileKey(r, ephemeral, fileKey) ==
    IF r.version = 1 THEN WrapLegacy(r, ephemeral, fileKey)
    ELSE WrapPaired(r, ephemeral, fileKey)

-----------------------------------------------------------------------------
(* Reading. *)

\* ParsedStanza::parse and tag::parse: the ephemeral key, or Bad.
Ephemeral(s) ==
    IF s.body = Bad THEN Bad
    ELSE IF s.tag = V1 /\ Len(s.args) = 1 THEN ReadPoint("compressed", s.args[1])
    ELSE IF s.tag = V2 /\ Len(s.args) = 2 /\ s.args[2] # Bad
         THEN ReadPoint("compressed", s.args[1])
    ELSE IF s.tag = Tag /\ Len(s.args) = 2 /\ s.args[1] # Bad
         THEN ReadPoint("uncompressed", s.args[2])
    ELSE Bad

ValidStanza(s) == Ephemeral(s) # Bad

\* tag::matches: a public prefilter that other keys may pass too.
TagMatches(phone, s) == Selector[Ephemeral(s)][phone] = s.args[1]

\* Mutant: the selector is opened without regard to the body beside it.
MatchesAnyBody(r, desktop, s) ==
    /\ desktop = r.selection
    /\ s.tag = V2
    /\ s.args[2].key = DeriveKey(Agree(desktop, Ephemeral(s)), Ephemeral(s),
                                 r.selection, <<V2, "selection">>)
    /\ s.args[2].plain = r.id

\* matches_stanza_v2, once the desktop's own key is the recipient's: the
\* selector opens with the desktop's key and names this pairing's identity.
Matches(r, desktop, s) ==
    /\ desktop = r.selection
    /\ s.tag = V2
    /\ Open(DeriveKey(Agree(desktop, Ephemeral(s)), Ephemeral(s), r.selection,
                      <<V2, "selection">>),
            SelectionData(Ephemeral(s), r, s.body), s.args[2]) = r.id

\* unwrap_file_key and tag::unwrap, and the same steps on the phone with a key
\* that never leaves its hardware.
UnwrapFileKey(phone, s) ==
    LET e == Ephemeral(s)
        shared == Agree(phone, e)
    IN  IF e = Bad THEN Bad
        ELSE IF s.tag = Tag
        THEN IF TagMatches(phone, s) THEN Open(Schedule(shared, e, phone), <<>>, s.body)
             ELSE Bad
        ELSE Open(DeriveKey(shared, e, phone, <<s.tag, "file-key">>),
                  AssociatedData(s.tag, e, phone), s.body)
=============================================================================
