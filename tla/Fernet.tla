------------------------------- MODULE Fernet -------------------------------
(***************************************************************************)
(* encrypt_value and decrypt_value of gclaw-config: a secret as a Fernet   *)
(* token, byte by byte in layout and symbolic in content.  A byte of a     *)
(* header, a cipher text or an HMAC stands for what it was made from, so   *)
(* that it equals no byte made otherwise.  A token is the bytes under its  *)
(* base64url text, which is read with its padding or without.  In the code *)
(* blocks have 16 bytes, the HMAC 32, the time 8 and the vector 16; a raw  *)
(* key is two halves of 16 bytes, and a key for signing or enciphering is  *)
(* the sequence of the halves it has.                                      *)
(***************************************************************************)
EXTENDS Naturals, Sequences

CONSTANTS
    BlockLen,  \* bytes of an AES block
    MacLen,    \* bytes of the HMAC
    StampLen,  \* bytes of the time
    IvLen      \* bytes of the initialisation vector

ASSUME FernetAssumption ==
    /\ BlockLen \in Nat \ {0} /\ MacLen \in Nat \ {0}
    /\ StampLen \in Nat /\ IvLen \in Nat

(* What decrypt_value returns. *)
Ok(text) == <<text>>
Failed == <<>>

(* The raw key is a digest of host and user, and like it different for     *)
(* each of them.                                                           *)
DeriveKey(identity) == <<<<identity, "first">>, <<identity, "last">>>>

(* All of the raw key signs, its last half enciphers. *)
SigningKey(raw) == raw
EncryptionKey(raw) == <<raw[2]>>

(* Byte number i of something of a kind, made from its ingredients.        *)
Byte(kind, of, i) == [kind |-> kind, of |-> of, at |-> i]

(* What sets two encryptions of one text apart, the time and the random    *)
(* vector, is their salt.                                                  *)
Version == Byte("version", <<>>, 1)
Stamp(salt) == [i \in 1 .. StampLen |-> Byte("stamp", <<salt>>, i)]
Iv(salt) == [i \in 1 .. IvLen |-> Byte("iv", <<salt>>, i)]
Hmac(key, signed) == [i \in 1 .. MacLen |-> Byte("mac", <<key, signed>>, i)]

(* PKCS7: at least one byte is added, and each tells how many there are.   *)
PaddedLen(n) == (n \div BlockLen + 1) * BlockLen

Padded(text) ==
    [i \in 1 .. PaddedLen(Len(text)) |->
        IF i <= Len(text) THEN text[i] ELSE PaddedLen(Len(text)) - Len(text)]

IsPadding(bytes, n) ==
    /\ n \in 1 .. BlockLen /\ n <= Len(bytes)
    /\ \A i \in Len(bytes) - n + 1 .. Len(bytes) : bytes[i] = n

Unpadded(bytes) ==
    LET n == bytes[Len(bytes)]
    IN IF IsPadding(bytes, n) THEN Ok(SubSeq(bytes, 1, Len(bytes) - n)) ELSE Failed

(* AES in CBC mode.  What is no cipher text of this key and vector comes   *)
(* out as bytes without padding.                                           *)
Encipher(key, iv, bytes) ==
    [i \in 1 .. Len(bytes) |-> Byte("cipher", <<key, iv, bytes>>, i)]

Decipher(key, iv, cipher) ==
    IF cipher[1].kind = "cipher" /\ cipher = Encipher(key, iv, cipher[1].of[3])
    THEN Unpadded(cipher[1].of[3]) ELSE Failed

-----------------------------------------------------------------------------
SignedPart(encryption, text, salt) ==
    <<Version>> \o Stamp(salt) \o Iv(salt) \o Encipher(encryption, Iv(salt), Padded(text))

(* A token made with two keys. *)
Sealed(signing, encryption, text, salt) ==
    SignedPart(encryption, text, salt) \o Hmac(signing, SignedPart(encryption, text, salt))

EncryptValue(raw, text, salt) == Sealed(SigningKey(raw), EncryptionKey(raw), text, salt)

HeadLen == 1 + StampLen + IvLen

DecryptValue(raw, token) ==
    LET hmacOffset == Len(token) - MacLen
        signed == SubSeq(token, 1, hmacOffset)
    IN IF /\ Len(token) >= HeadLen + BlockLen + MacLen
          /\ token[1] = Version
          /\ SubSeq(token, hmacOffset + 1, Len(token)) = Hmac(SigningKey(raw), signed)
       THEN Decipher(EncryptionKey(raw), SubSeq(token, StampLen + 2, HeadLen),
                     SubSeq(token, HeadLen + 1, hmacOffset))
       ELSE Failed
=============================================================================
