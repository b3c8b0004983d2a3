------------------------------ MODULE DeviceKey ------------------------------
(***************************************************************************)
(* LMApiaryDeviceCrypto: the device key that the server sends, sealed      *)
(* under a project key, and how it is opened.                              *)
(*                                                                         *)
(* A byte is a record that says what it is: a byte of the data, of the     *)
(* signature of a project key, of the initialization vector, of a MAC over *)
(* the bytes before it, or a byte masked with the keystream of a key and a *)
(* vector.  The positions, lengths, paddings and cuts are those of the     *)
(* code.  CommonCrypto is external and ideal: different inputs give        *)
(* different bytes, and a byte masked twice alike is the byte.             *)
(***************************************************************************)
EXTENDS Integers, Sequences

CONSTANTS
    ProjectKeys,   \* the project keys in use
    OurKey,        \* the one this instance was made with
    Lengths,       \* how long the data that is sealed may be
    Assertions     \* TRUE: a build with NSAssert (Debug)

ASSUME KeyAssumption == OurKey \in ProjectKeys
ASSUME LengthAssumption == Lengths \subseteq Nat /\ Assertions \in BOOLEAN

VARIABLES
    sealed,      \* external: the length and the key the text was made with, {} before
    text,        \* the text sent: its bytes and how many "=" follow; {} for nil
    changed,     \* external: bytes of the text were lost or changed on the way
    deviceKey,   \* _deviceKey: {} for nil
    deviceID,    \* _deviceID is set
    outcome      \* of setDeviceID:, "none" before

vars == <<sealed, text, changed, deviceKey, deviceID, outcome>>

----------------------------------------------------------------------------
(* Bytes.                                                                  *)

Zero == [is |-> "zero"]
Junk == [is |-> "junk"]
Data(length) == [n \in 1 .. length |-> [is |-> "data", n |-> n]]
Vector == [n \in 1 .. 8 |-> [is |-> "vector", n |-> n]]

\* projectKeySignature, and the MAC of _hmacLength bytes, which no reader of its
\* bytes tells from one over the same bytes behind the lead byte and eight zeros.
Sign(key) == [n \in 1 .. 4 |-> [is |-> "sign", key |-> key, n |-> n]]
HMACLength == 4
MAC(key, bytes) == [n \in 1 .. HMACLength |-> [is |-> "mac", key |-> key, over |-> bytes, n |-> n]]

\* paddedData: zeros up to a whole number of blocks
Block == 16
PaddedLength(n) == IF n % Block = 0 THEN n ELSE n + (Block - (n % Block))
Padded(bytes) == [n \in 1 .. PaddedLength(Len(bytes)) |->
                     IF n <= Len(bytes) THEN bytes[n] ELSE Zero]

Mask(byte, stream) ==
    IF byte.is = "masked" /\ byte.with = stream THEN byte.byte
    ELSE [is |-> "masked", byte |-> byte, with |-> stream]

\* performCrypto: CTR mode, whose output is as long as its input, cut to length.  The
\* assertion wants it to be longer.
Raises(bytes, length) == Assertions /\ ~(Len(bytes) > length)
PerformCrypto(bytes, length, key, iv) ==
    [n \in 1 .. length |-> Mask(bytes[n], [key |-> key, iv |-> iv, n |-> n])]

----------------------------------------------------------------------------
(* encryptAndEncodeData: and decryptEncodedString:                         *)

Header(key) == << Zero >> \o Sign(key) \o Vector

Frame(data, key) ==
    LET low == Header(key) \o PerformCrypto(Padded(data), Len(data), key, Padded(Vector))
    IN  low \o MAC(key, low)

\* Base64 writes four characters for three bytes; the last one or two bytes take two or
\* three, and "=" to make four.
Characters(length) == (4 * length + 2) \div 3
FullPadding(length) == (3 - (length % 3)) % 3

\* Padding is added to the text before it is decoded, as many as its length exceeds a
\* multiple of four.  Text of any other length than whole fours decodes to nil, which
\* has no bytes.
AddedPadding_Whole(n) == 4 - (n % 4)     \* mutant: four more when none are missing
AddedPadding(n) == n % 4

Decoded(t) ==
    IF t.pads + AddedPadding(Characters(Len(t.bytes)) + t.pads) = FullPadding(Len(t.bytes))
    THEN t.bytes ELSE << >>

Verified_Header(bytes) == SubSeq(bytes, 2, 5) = Sign(OurKey)  \* mutant: no MAC
Verified(bytes) ==
    LET low == Len(bytes) - HMACLength
    IN  /\ SubSeq(bytes, 2, 5) = Sign(OurKey)
        /\ SubSeq(bytes, low + 1, Len(bytes)) = MAC(OurKey, SubSeq(bytes, 1, low))

\* The data starts after the header.
Size(bytes) == Len(bytes) - HMACLength - 13

\* The first byte of nothing is not initialized: whatever it is, nothing is refused.
Accepted(bytes) ==
    /\ Len(bytes) > 12
    /\ bytes[1] = Zero
    /\ Size(bytes) >= 0
    /\ Verified(bytes)

Masked(bytes) == Padded(SubSeq(bytes, 14, 13 + Size(bytes)))

Opened_Whole(bytes) ==           \* mutant: not cut to its length
    PerformCrypto(Masked(bytes), Len(Masked(bytes)), OurKey, Padded(SubSeq(bytes, 6, 13)))
Opened(bytes) ==
    PerformCrypto(Masked(bytes), Size(bytes), OurKey, Padded(SubSeq(bytes, 6, 13)))

----------------------------------------------------------------------------
Init ==
    /\ sealed = {} /\ text = {} /\ changed = FALSE
    /\ deviceKey = {} /\ deviceID = FALSE /\ outcome = "none"

\* encryptAndEncodeData: in this program
Encrypt(length) ==
    /\ sealed = {} /\ outcome = "none"
    /\ sealed' = {[length |-> length, key |-> OurKey]}
    /\ IF Raises(Padded(Data(length)), length)
       THEN outcome' = "raised" /\ UNCHANGED text
       ELSE /\ LET bytes == Frame(Data(length), OurKey)
               IN  text' = {[bytes |-> bytes, pads |-> FullPadding(Len(bytes))]}
            /\ UNCHANGED outcome
    /\ UNCHANGED <<changed, deviceKey, deviceID>>

\* The same at the server, which may leave the "=" out.
ServerSeals(length, key) ==
    /\ sealed = {} /\ outcome = "none"
    /\ sealed' = {[length |-> length, key |-> key]}
    /\ LET bytes == Frame(Data(length), key)
       IN  \E pads \in {0, FullPadding(Len(bytes))} : text' = {[bytes |-> bytes, pads |-> pads]}
    /\ UNCHANGED <<changed, deviceKey, deviceID, outcome>>

\* A text is cut short, or a byte of it is changed, on the way.
Change ==
    /\ ~changed /\ outcome = "none"
    /\ \E t \in text :
           \/ \E n \in 0 .. Len(t.bytes) - 1 :
                  \E pads \in {0, FullPadding(n)} :
                      text' = {[bytes |-> SubSeq(t.bytes, 1, n), pads |-> pads]}
           \/ \E n \in 1 .. Len(t.bytes) : text' = {[t EXCEPT !.bytes[n] = Junk]}
    /\ changed' = TRUE
    /\ UNCHANGED <<sealed, deviceKey, deviceID, outcome>>

\* setDeviceID:deviceKey:error: with the text that came
SetDeviceID ==
    /\ outcome = "none"
    /\ \E t \in text :
           LET bytes == Decoded(t)
           IN  \/ /\ ~Accepted(bytes)
                  /\ deviceKey' = {} /\ outcome' = "refused" /\ UNCHANGED deviceID
               \/ /\ Accepted(bytes) /\ Raises(Masked(bytes), Size(bytes))
                  /\ outcome' = "raised" /\ UNCHANGED <<deviceKey, deviceID>>
               \/ /\ Accepted(bytes) /\ ~Raises(Masked(bytes), Size(bytes))
                  /\ deviceKey' = {Opened(bytes)} /\ deviceID' = TRUE /\ outcome' = "set"
    /\ UNCHANGED <<sealed, text, changed>>

\* A registration without a key: nil is not a text to decode.
KeyMissing ==
    /\ outcome = "none" /\ text = {}
    /\ outcome' = "raised"
    /\ UNCHANGED <<sealed, text, changed, deviceKey, deviceID>>

Next == \/ \E length \in Lengths : Encrypt(length) \/ \E key \in ProjectKeys : ServerSeals(length, key)
        \/ Change \/ SetDeviceID \/ KeyMissing

Spec == Init /\ [][Next]_vars

----------------------------------------------------------------------------
TypeOK ==
    /\ sealed \subseteq [length : Lengths, key : ProjectKeys]
    /\ \A t \in text : Len(t.bytes) \in Nat /\ t.pads \in 0 .. 2
    /\ \A k \in deviceKey : Len(k) \in Lengths
    /\ changed \in BOOLEAN /\ deviceID \in BOOLEAN
    /\ outcome \in {"none", "set", "refused", "raised"}

\* What is opened is what was sealed, and under our key: a text that was cut or changed
\* anywhere, or that was made for another project, is never taken for a device key.
OpensOnlyWhatWasSealed ==
    outcome = "set" =>
        /\ deviceID /\ ~changed
        /\ \E s \in sealed : s.key = OurKey /\ deviceKey = {Data(s.length)}

\* The other way round: what was sealed under our key and came unchanged, with the
\* padding it should have, is opened, but for the lengths the assertion does not like.
WholeTextOpens ==
    (outcome = "refused" /\ ~changed) =>
        \/ \E s \in sealed : s.key # OurKey
        \/ \E t \in text : t.pads # FullPadding(Len(t.bytes))

(* Why they hold: what is known of the text on its way.                    *)

\* t is the text of what was sealed or, if it was changed, the beginning of it, or all of
\* it but for one byte.
Sent(t, s) ==
    LET frame == Frame(Data(s.length), s.key)
    IN  IF ~changed THEN t.bytes = frame
        ELSE \/ \E n \in 0 .. Len(frame) - 1 : t.bytes = SubSeq(frame, 1, n)
             \/ \E n \in 1 .. Len(frame) : t.bytes = [frame EXCEPT ![n] = Junk]

TextInv ==
    /\ (outcome = "none" /\ text = {}) => sealed = {} /\ ~changed
    /\ \A t \in text : DOMAIN t = {"bytes", "pads"} /\ \E s \in sealed : Sent(t, s)

\* A text on its way is what encryptAndEncodeData: or the server sealed or, if it was
\* changed, the beginning of it or all but a byte, and a device key is as long as what was
\* sealed.  Inductive, together with the two properties.
KeyInv == TypeOK /\ TextInv
=============================================================================
