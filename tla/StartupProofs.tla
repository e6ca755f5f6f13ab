--------------------------- MODULE StartupProofs ---------------------------
(***************************************************************************)
(* The start of the shell, for every search path, every content of the     *)
(* configuration, any number of keys, models and blocks.  The invariant    *)
(* has one part for the loader, one for the download, one for the shell.   *)
(* The tokens the keys are saved as come first.                            *)
(***************************************************************************)
EXTENDS StartupProperties, SequenceTheorems, TLAPS

-----------------------------------------------------------------------------
(* What encrypt_value makes is what decrypt_value opens, with the raw key  *)
(* it was made with and no other, for every text and all sizes of block,   *)
(* HMAC, time and vector.                                                  *)

LEMMA Division ==
    ASSUME NEW n \in Nat
    PROVE  /\ n \div BlockLen \in Nat
           /\ (n \div BlockLen) * BlockLen <= n /\ n < (n \div BlockLen) * BlockLen + BlockLen
  BY FernetAssumption

(* Between one byte and a block is added. *)
LEMMA PaddingAdded ==
    ASSUME NEW n \in Nat
    PROVE  /\ PaddedLen(n) \in Nat /\ PaddedLen(n) - n \in 1 .. BlockLen
           /\ PaddedLen(n) >= BlockLen
  <1>1. PaddedLen(n) = (n \div BlockLen) * BlockLen + BlockLen
    BY FernetAssumption, Division DEF PaddedLen
  <1> DEFINE q == (n \div BlockLen) * BlockLen
  <1>2. q \in Nat
    <2>1. \A x, y \in Nat : x * y \in Nat
      OBVIOUS
    <2> QED BY <2>1, FernetAssumption, Division
  <1>3. q <= n /\ n < q + BlockLen /\ PaddedLen(n) = q + BlockLen
    BY <1>1, Division
  <1> HIDE DEF q
  <1> QED BY <1>2, <1>3, FernetAssumption

LEMMA PaddedProperties ==
    ASSUME NEW text \in Seq(Nat)
    PROVE  /\ Padded(text) \in Seq(Nat) /\ Len(Padded(text)) = PaddedLen(Len(text))
           /\ Unpadded(Padded(text)) = Ok(text)
  <1> DEFINE l == Len(text)
             m == PaddedLen(l)
             b == Padded(text)
  <1>1. l \in Nat /\ m \in Nat /\ m - l \in 1 .. BlockLen /\ m > l
    <2>1. l \in Nat
      OBVIOUS
    <2>2. m \in Nat /\ m - l \in 1 .. BlockLen
      BY <2>1, PaddingAdded
    <2> QED BY <2>1, <2>2, FernetAssumption
  <1>2. b = [i \in 1 .. m |-> IF i <= l THEN text[i] ELSE m - l]
    BY DEF Padded
  <1> HIDE DEF l, m, b
  <1>3. b \in [1 .. m -> Nat]
    <2>1. \A i \in 1 .. m : (IF i <= l THEN text[i] ELSE m - l) \in Nat
      BY <1>1 DEF l
    <2> QED BY <1>2, <2>1
  <1>4. b \in Seq(Nat) /\ Len(b) = m
    BY <1>1, <1>3
  <1>5. \A i \in 1 .. m : b[i] = IF i <= l THEN text[i] ELSE m - l
    BY <1>2
  <1>6. b[Len(b)] = m - l
    BY <1>1, <1>4, <1>5
  <1>7. IsPadding(b, m - l)
    BY <1>1, <1>4, <1>5 DEF IsPadding
  <1>8. SubSeq(b, 1, Len(b) - (m - l)) = text
    <2>1. Len(b) - (m - l) = l
      BY <1>1, <1>4
    <2>2. \A i \in 1 .. l : b[i] \in Nat /\ b[i] = text[i]
      BY <1>1, <1>3, <1>5
    <2>3. /\ SubSeq(b, 1, l) \in Seq(Nat) /\ Len(SubSeq(b, 1, l)) = l
          /\ \A i \in 1 .. l : SubSeq(b, 1, l)[i] = b[i]
      BY <1>1, <1>4
    <2>4. SubSeq(b, 1, l) = text
      BY <2>2, <2>3, SeqEqual DEF l
    <2> QED BY <2>1, <2>4
  <1> QED BY <1>4, <1>6, <1>7, <1>8 DEF Unpadded, b, m, l

(* Two parts, put together, come apart again. *)
Joined(s, t) ==
    /\ Len(s \o t) = Len(s) + Len(t)
    /\ SubSeq(s \o t, 1, Len(s)) = s
    /\ SubSeq(s \o t, Len(s) + 1, Len(s) + Len(t)) = t

(* The leading part of a sequence has its first elements. *)
LEMMA Leading ==
    ASSUME NEW S, NEW s \in Seq(S), NEW n \in 0 .. Len(s)
    PROVE  \A i \in 1 .. n : s[i] = SubSeq(s, 1, n)[i]
  OBVIOUS

(* Joined holds of any two sequences. *)
LEMMA Apart ==
    ASSUME NEW S, NEW s \in Seq(S), NEW t \in Seq(S)
    PROVE  s \o t \in Seq(S) /\ Joined(s, t)
  <1> DEFINE st == s \o t
  <1>1. /\ st \in Seq(S) /\ Len(st) = Len(s) + Len(t)
        /\ \A i \in 1 .. Len(s) + Len(t) : st[i] = IF i <= Len(s) THEN s[i] ELSE t[i - Len(s)]
    BY ConcatProperties
  <1>2. Len(s) \in Nat /\ Len(t) \in Nat
    OBVIOUS
  <1> HIDE DEF st
  <1>3. SubSeq(st, 1, Len(s)) = s
    <2>1. \A i \in 1 .. Len(s) : st[i] = s[i] /\ st[i] \in S
      BY <1>1, <1>2
    <2>2. /\ SubSeq(st, 1, Len(s)) \in Seq(S) /\ Len(SubSeq(st, 1, Len(s))) = Len(s)
          /\ \A i \in 1 .. Len(s) : SubSeq(st, 1, Len(s))[i] = st[i]
      BY <1>1, <1>2
    <2> QED BY <2>1, <2>2, SeqEqual
  <1>4. SubSeq(st, Len(s) + 1, Len(s) + Len(t)) = t
    <2> DEFINE u == SubSeq(st, Len(s) + 1, Len(s) + Len(t))
    <2>1. \A i \in 1 .. Len(t) : Len(s) + i \in 1 .. Len(s) + Len(t) /\ st[Len(s) + i] = t[i]
      BY <1>1, <1>2
    <2>2. u \in Seq(S) /\ Len(u) = Len(t) /\ \A i \in 1 .. Len(t) : u[i] = st[Len(s) + i]
      BY <1>1, <1>2
    <2> HIDE DEF u
    <2>3. u = t
      BY <2>1, <2>2, SeqEqual
    <2> QED BY <2>3 DEF u
  <1> QED BY <1>1, <1>3, <1>4 DEF st, Joined

(* Sequences that agree up to a place have the same parts up to there. *)
LEMMA SamePart ==
    ASSUME NEW S, NEW s \in Seq(S), NEW t \in Seq(S), NEW m \in Nat \ {0}, NEW n \in Nat,
           n <= Len(s), n <= Len(t), \A i \in 1 .. n : s[i] = t[i]
    PROVE  SubSeq(s, m, n) = SubSeq(t, m, n)
  <1> DEFINE x == SubSeq(s, m, n)
             y == SubSeq(t, m, n)
             l == IF m <= n THEN n - m + 1 ELSE 0
  <1>1. \A i \in m .. n : i \in 1 .. n /\ s[i] \in S /\ t[i] \in S
    OBVIOUS
  <1>2. x \in Seq(S) /\ Len(x) = l /\ \A i \in 1 .. n - m + 1 : x[i] = s[m + i - 1]
    BY <1>1, SubSeqProperties
  <1>3. y \in Seq(S) /\ Len(y) = l /\ \A i \in 1 .. n - m + 1 : y[i] = t[m + i - 1]
    BY <1>1, SubSeqProperties
  <1> HIDE DEF x, y
  <1>4. \A i \in 1 .. l : i \in 1 .. n - m + 1 /\ m + i - 1 \in 1 .. n
    OBVIOUS
  <1>5. x = y
    BY <1>2, <1>3, <1>4, SeqEqual
  <1> QED BY <1>5 DEF x, y

-----------------------------------------------------------------------------
(* The bytes of a token. *)
Cells(signing, encryption, text, salt) ==
    {Version}
        \cup {Stamp(salt)[i] : i \in 1 .. StampLen} \cup {Iv(salt)[i] : i \in 1 .. IvLen}
        \cup {Encipher(encryption, Iv(salt), Padded(text))[i] : i \in 1 .. PaddedLen(Len(text))}
        \cup {Hmac(signing, SignedPart(encryption, text, salt))[i] : i \in 1 .. MacLen}

(* The parts of a token are where decrypt_value looks for them. *)
LaidOut(token, signing, encryption, text, salt) ==
    LET offset == Len(token) - MacLen
        signed == SubSeq(token, 1, offset)
    IN /\ Len(token) >= HeadLen + BlockLen + MacLen
       /\ token[1] = Version
       /\ SubSeq(token, offset + 1, Len(token)) = Hmac(signing, signed)
       /\ SubSeq(token, StampLen + 2, HeadLen) = Iv(salt)
       /\ SubSeq(token, HeadLen + 1, offset) = Encipher(encryption, Iv(salt), Padded(text))

LEMMA Layout ==
    ASSUME NEW signing, NEW encryption, NEW text \in Seq(Nat), NEW salt
    PROVE  LaidOut(Sealed(signing, encryption, text, salt), signing, encryption, text, salt)
  <1> DEFINE token == Sealed(signing, encryption, text, salt)
             C == Cells(signing, encryption, text, salt)
             v == <<Version>>
             st == Stamp(salt)
             iv == Iv(salt)
             e == Encipher(encryption, Iv(salt), Padded(text))
             s == SignedPart(encryption, text, salt)
             h == Hmac(signing, s)
  <1>0. MacLen \in Nat /\ StampLen \in Nat /\ IvLen \in Nat /\ BlockLen \in Nat
    BY FernetAssumption
  <1>1. v \in Seq(C) /\ Len(v) = 1 /\ v[1] = Version
    BY DEF Cells
  <1>2. st \in Seq(C) /\ Len(st) = StampLen
    <2>1. st \in [1 .. StampLen -> C]
      BY DEF Stamp, Cells
    <2> QED BY <1>0, <2>1
  <1>3. iv \in Seq(C) /\ Len(iv) = IvLen
    <2>1. iv \in [1 .. IvLen -> C]
      BY DEF Iv, Cells
    <2> QED BY <1>0, <2>1
  <1>4. e \in Seq(C) /\ Len(e) = PaddedLen(Len(text)) /\ Len(e) >= BlockLen
    <2>1. Len(Padded(text)) = PaddedLen(Len(text)) /\ PaddedLen(Len(text)) \in Nat
          /\ PaddedLen(Len(text)) >= BlockLen
      BY PaddedProperties, PaddingAdded
    <2>2. e \in [1 .. PaddedLen(Len(text)) -> C]
      BY <2>1 DEF Encipher, Cells
    <2> QED BY <2>1, <2>2
  <1>5. h \in Seq(C) /\ Len(h) = MacLen
    <2>1. h \in [1 .. MacLen -> C]
      BY DEF Hmac, Cells
    <2> QED BY <1>0, <2>1
  <1>6. s = v \o st \o iv \o e /\ token = s \o h
    BY DEF SignedPart, Sealed
  <1> HIDE DEF C, v, st, iv, e, s, h, token
  <1> DEFINE a == v \o st
             b == a \o iv
  <1>7. a \in Seq(C) /\ Len(a) = 1 + StampLen /\ SubSeq(a, 1, 1) = v
    <2>1. v \o st \in Seq(C) /\ Joined(v, st)
      BY <1>1, <1>2, Apart
    <2> QED BY <1>1, <1>2, <2>1 DEF Joined
  <1> HIDE DEF a
  <1>8. /\ b \in Seq(C) /\ Len(b) = HeadLen /\ SubSeq(b, 1, 1 + StampLen) = a
        /\ SubSeq(b, 1 + StampLen + 1, HeadLen) = iv
    <2>1. a \o iv \in Seq(C) /\ Joined(a, iv)
      BY <1>3, <1>7, Apart
    <2> QED BY <1>0, <1>3, <1>7, <2>1 DEF HeadLen, Joined
  <1>9. s = b \o e
    BY <1>6 DEF a, b
  <1> HIDE DEF b
  <1>10. /\ s \in Seq(C) /\ Len(s) = HeadLen + Len(e) /\ SubSeq(s, 1, HeadLen) = b
         /\ SubSeq(s, HeadLen + 1, Len(s)) = e
    <2>1. b \o e \in Seq(C) /\ Joined(b, e)
      BY <1>4, <1>8, Apart
    <2> QED BY <1>4, <1>8, <1>9, <2>1 DEF Joined
  <1>11. /\ token \in Seq(C) /\ Len(token) = Len(s) + MacLen
         /\ SubSeq(token, 1, Len(s)) = s
         /\ SubSeq(token, Len(s) + 1, Len(token)) = h
    <2>1. s \o h \in Seq(C) /\ Joined(s, h)
      BY <1>5, <1>10, Apart
    <2> QED BY <1>5, <1>6, <2>1 DEF Joined
  <1>12. HeadLen \in Nat /\ HeadLen >= 1 /\ HeadLen = 1 + StampLen + IvLen /\ Len(e) \in Nat
         /\ Len(s) \in Nat /\ Len(s) >= HeadLen + BlockLen
    BY <1>0, <1>4, <1>10 DEF HeadLen
  <1>13. \A i \in 1 .. Len(s) : token[i] = s[i]
    <2>1. Len(s) <= Len(token)
      BY <1>5, <1>11, <1>12
    <2> QED BY <1>11, <1>12, <2>1, Leading
  <1>14. \A i \in 1 .. HeadLen : token[i] = b[i]
    <2>1. \A i \in 1 .. HeadLen : s[i] = b[i]
      BY <1>10, <1>12, Leading
    <2>2. \A i \in 1 .. HeadLen : i \in 1 .. Len(s)
      BY <1>0, <1>12
    <2> QED BY <1>13, <2>1, <2>2
  <1>15. token[1] = Version
    <2>1. b[1] = a[1]
      BY <1>0, <1>7, <1>8, <1>12
    <2>2. a[1] = v[1]
      BY <1>0, <1>7
    <2> QED BY <1>1, <1>12, <1>14, <2>1, <2>2
  <1>16. SubSeq(token, StampLen + 2, HeadLen) = iv
    <2>1. SubSeq(token, StampLen + 2, HeadLen) = SubSeq(b, StampLen + 2, HeadLen)
      <3> DEFINE m == StampLen + 2
                 n == HeadLen
      <3>1. m \in Nat \ {0} /\ n \in Nat /\ n <= Len(token) /\ n <= Len(b)
        BY <1>0, <1>8, <1>11, <1>12
      <3>2. token \in Seq(C) /\ b \in Seq(C) /\ \A i \in 1 .. n : token[i] = b[i]
        BY <1>8, <1>11, <1>14
      <3> HIDE DEF m, n
      <3>3. SubSeq(token, m, n) = SubSeq(b, m, n)
        BY <3>1, <3>2, SamePart
      <3> QED BY <3>3 DEF m, n
    <2> QED BY <1>0, <1>8, <2>1
  <1>17. SubSeq(token, HeadLen + 1, Len(s)) = e
    <2>1. SubSeq(token, HeadLen + 1, Len(s)) = SubSeq(s, HeadLen + 1, Len(s))
      <3> DEFINE m == HeadLen + 1
                 n == Len(s)
      <3>1. /\ m \in Nat \ {0} /\ n \in Nat /\ n <= Len(token) /\ n <= Len(s)
            /\ token \in Seq(C) /\ s \in Seq(C) /\ \A i \in 1 .. n : token[i] = s[i]
        BY <1>0, <1>10, <1>11, <1>12, <1>13
      <3> HIDE DEF m, n
      <3>2. SubSeq(token, m, n) = SubSeq(s, m, n)
        BY <3>1, SamePart
      <3> QED BY <3>2 DEF m, n
    <2> QED BY <1>10, <2>1
  <1>18. Len(token) - MacLen = Len(s) /\ Len(token) >= HeadLen + BlockLen + MacLen
    BY <1>0, <1>11, <1>12
  <1> QED BY <1>11, <1>15, <1>16, <1>17, <1>18 DEF LaidOut, iv, e, h, token

(* A token signed and enciphered with the keys decrypt_value uses gives    *)
(* its text, the empty one and one that fills its last block included.     *)
LEMMA Unsealed ==
    ASSUME NEW raw, NEW text \in Seq(Nat), NEW salt
    PROVE  DecryptValue(raw, Sealed(SigningKey(raw), EncryptionKey(raw), text, salt)) = Ok(text)
  <1> DEFINE signing == SigningKey(raw)
             encryption == EncryptionKey(raw)
             token == Sealed(signing, encryption, text, salt)
             e == Encipher(encryption, Iv(salt), Padded(text))
  <1>1. /\ Len(token) >= HeadLen + BlockLen + MacLen
        /\ token[1] = Version
        /\ SubSeq(token, Len(token) - MacLen + 1, Len(token))
             = Hmac(signing, SubSeq(token, 1, Len(token) - MacLen))
        /\ SubSeq(token, StampLen + 2, HeadLen) = Iv(salt)
        /\ SubSeq(token, HeadLen + 1, Len(token) - MacLen) = e
    BY Layout DEF LaidOut
  <1>2. e[1] = Byte("cipher", <<encryption, Iv(salt), Padded(text)>>, 1)
    <2>1. 1 \in 1 .. Len(Padded(text))
      BY PaddedProperties, PaddingAdded, FernetAssumption
    <2> QED BY <2>1 DEF Encipher
  <1>3. e[1].kind = "cipher" /\ e[1].of[3] = Padded(text)
    BY <1>2 DEF Byte
  <1>4. Decipher(encryption, Iv(salt), e) = Ok(text)
    BY <1>3, PaddedProperties DEF Decipher
  <1> QED BY <1>1, <1>4 DEF DecryptValue

(* A token signed with anything else is an error, whatever is in it. *)
LEMMA Refused ==
    ASSUME NEW raw, NEW signing, signing # SigningKey(raw), NEW encryption,
           NEW text \in Seq(Nat), NEW salt
    PROVE  DecryptValue(raw, Sealed(signing, encryption, text, salt)) = Failed
  <1> DEFINE token == Sealed(signing, encryption, text, salt)
             signed == SubSeq(token, 1, Len(token) - MacLen)
             key == SigningKey(raw)
  <1>1. SubSeq(token, Len(token) - MacLen + 1, Len(token)) = Hmac(signing, signed)
    BY Layout DEF LaidOut
  <1>2. Hmac(signing, signed)[1] # Hmac(key, signed)[1]
    <2>1. 1 \in 1 .. MacLen
      BY FernetAssumption
    <2>2. Hmac(signing, signed)[1].of[1] = signing /\ Hmac(key, signed)[1].of[1] = key
      BY <2>1 DEF Hmac, Byte
    <2> QED BY <2>2
  <1> QED BY <1>1, <1>2 DEF DecryptValue

(* Every text encrypt_value has made a token of, decrypt_value gets back.  *)
THEOREM RoundTrip ==
    ASSUME NEW raw, NEW text \in Seq(Nat), NEW salt
    PROVE  DecryptValue(raw, EncryptValue(raw, text, salt)) = Ok(text)
  BY Unsealed DEF EncryptValue

(* A token of encrypt_value on another machine is an error. *)
THEOREM OtherMachine ==
    ASSUME NEW raw, NEW other, raw # other, NEW text \in Seq(Nat), NEW salt
    PROVE  DecryptValue(raw, EncryptValue(other, text, salt)) = Failed
  BY Refused DEF EncryptValue, SigningKey

(* A token signed with half a raw key, as config.rs says the specification *)
(* has it, is an error on every machine, the one that made it included.    *)
THEOREM HalfKeyRefused ==
    ASSUME NEW identity, NEW own, NEW text \in Seq(Nat), NEW salt
    PROVE  LET raw == DeriveKey(identity)
           IN DecryptValue(DeriveKey(own), Sealed(<<raw[1]>>, <<raw[2]>>, text, salt)) = Failed
  <1> DEFINE raw == DeriveKey(identity)
  <1>1. Len(<<raw[1]>>) = 1 /\ Len(DeriveKey(own)) = 2
    BY DEF DeriveKey
  <1>2. <<raw[1]>> # SigningKey(DeriveKey(own))
    <2> DEFINE half == <<raw[1]>>
               whole == SigningKey(DeriveKey(own))
    <2>1. Len(half) = 1 /\ Len(whole) = 2
      BY <1>1 DEF SigningKey
    <2> HIDE DEF half, whole
    <2>2. half # whole
      BY <2>1
    <2> QED BY <2>2 DEF half, whole
  <1>3. ASSUME NEW first, NEW last, first # SigningKey(DeriveKey(own))
        PROVE  DecryptValue(DeriveKey(own), Sealed(first, last, text, salt)) = Failed
    BY <1>3, Refused
  <1> HIDE DEF raw
  <1>4. DecryptValue(DeriveKey(own), Sealed(<<raw[1]>>, <<raw[2]>>, text, salt)) = Failed
    BY <1>2, <1>3
  <1> QED BY <1>4 DEF raw

-----------------------------------------------------------------------------
(* The state. *)

(* What a key is once it has been through decryption. *)
Meant(k) == IF Opens(k) THEN k.secret ELSE k.plain

Stages == {"idle", "find", "read", "decrypt", "ok", "err"}

(* Paths passed over were without a file at some moment since the call;    *)
(* the keys done are as they were saved, the others still plain.           *)
ConfigInv ==
    /\ files \in [Paths -> Contents \cup {Torn, Absent}]
    /\ stage \in Stages
    /\ paths \in {Places, <<Named>>}
    /\ at \in 1 .. Len(paths) + 1
    /\ stage \in {"read", "decrypt", "ok"} => at <= Len(paths)
    /\ held \subseteq {p \in Paths : files[p] # Absent}
    /\ \A i \in 1 .. at - 1 : paths[i] \notin held
    /\ stage \in {"decrypt", "ok"} =>
         /\ saved \in Contents
         /\ keys \in [KeyNames -> Seq(Nat)]
         /\ \A n \in KeyNames :
              keys[n] = IF n \in todo THEN saved.keys[n].plain ELSE Meant(saved.keys[n])
    /\ stage = "ok" => todo = {}

(* What is about to get its final name is whole or cut short. *)
DownloadInv ==
    /\ disk \in [Names -> 0 .. Blocks \cup {NoFile}]
    /\ tmp \in [Names -> 0 .. Blocks \cup {NoFile}]
    /\ nth \in 0 .. Len(Files)
    /\ success \in BOOLEAN
    /\ cut \subseteq Names
    /\ \A f \in Names : disk[f] \in {NoFile, Blocks} \/ f \in cut
    /\ nth # 0 /\ doing \in {"copy", "rename"} => tmp[File] \in 0 .. Blocks
    /\ nth # 0 /\ doing = "rename" => tmp[File] = Blocks \/ File \in cut
    /\ nth # 0 /\ success => \A i \in 1 .. nth - 1 : disk[Files[i]] # NoFile
    /\ OkMeansAllThere

ShellInv ==
    /\ loaded \in Seq(0 .. Blocks)
    /\ Len(loaded) <= Len(Models)
    /\ \A i \in DOMAIN loaded : loaded[i] = Blocks \/ Models[i] \in cut

Inv == ConfigInv /\ DownloadInv /\ ShellInv

-----------------------------------------------------------------------------
LEMMA Path == \A i \in DOMAIN Places : Places[i] \in Paths
  BY DEF Paths

LEMMA PathsAreSequences ==
    ASSUME paths \in {Places, <<Named>>}
    PROVE  /\ Len(paths) \in Nat /\ \A i \in 1 .. Len(paths) : paths[i] \in Paths
  <1>1. Named \in Paths
    BY DEF Paths
  <1>2. CASE paths = Places
    <2>1. DOMAIN Places = 1 .. Len(Places) /\ Len(Places) \in Nat
      BY ConfigurationAssumption
    <2> QED BY <1>2, <2>1, Path
  <1>3. CASE paths = <<Named>>
    BY <1>1, <1>3
  <1> QED BY <1>2, <1>3

(* A token that opens holds its secret, and any other is refused. *)
LEMMA Opened ==
    ASSUME NEW k \in SavedKey
    PROVE  LET token == Token(k)
               text == DecryptValue(DeriveKey(Here), token)
           IN Meant(k) = IF token = <<>> \/ text = Failed THEN k.plain ELSE text[1]
  <1> DEFINE own == DeriveKey(Here)
             raw == DeriveKey(k.by)
             signing == IF k.signing = "half" THEN <<raw[1]>> ELSE raw
             token == Sealed(signing, <<raw[2]>>, k.secret, k.salt)
  <1>0. k.secret \in Seq(Nat)
    BY ConfigurationAssumption DEF SavedKey
  <1>1. CASE k.by = Nobody
    BY <1>1, ConfigurationAssumption DEF Token, Meant, Opens
  <1>2. CASE Opens(k)
    <2>1. raw = own /\ signing = SigningKey(own) /\ <<raw[2]>> = EncryptionKey(own)
      BY <1>2 DEF Opens, SigningKey, EncryptionKey
    <2>2. DecryptValue(own, token) = Ok(k.secret)
      BY <1>0, <2>1, Unsealed
    <2>3. token # <<>>
      <3>1. Len(token) >= HeadLen + BlockLen + MacLen
        BY <1>0, Layout DEF LaidOut
      <3>2. Len(<<>>) = 0
        OBVIOUS
      <3> HIDE DEF token
      <3> QED BY <3>1, <3>2, FernetAssumption DEF HeadLen
    <2>4. Token(k) = token
      BY <1>2, ConfigurationAssumption DEF Token, Opens
    <2>5. Ok(k.secret) # Failed /\ Ok(k.secret)[1] = k.secret
      BY DEF Ok, Failed
    <2>6. Meant(k) = k.secret
      BY <1>2 DEF Meant
    <2> HIDE DEF token, own
    <2>7. Meant(k) = IF token = <<>> \/ DecryptValue(own, token) = Failed
                     THEN k.plain ELSE DecryptValue(own, token)[1]
      BY <2>2, <2>3, <2>5, <2>6
    <2> QED BY <2>4, <2>7 DEF own
  <1>3. CASE k.by # Nobody /\ ~Opens(k)
    <2>1. signing # SigningKey(own)
      <3>1. CASE k.signing = "half"
        <4>1. Len(<<raw[1]>>) = 1 /\ Len(own) = 2
          BY DEF DeriveKey
        <4> QED BY <3>1, <4>1 DEF SigningKey
      <3>2. CASE k.signing # "half"
        <4>1. k.by # Here
          BY <1>3, <3>2 DEF Opens, SavedKey, Signings
        <4>2. raw[1][1] = k.by /\ own[1][1] = Here
          BY DEF DeriveKey
        <4>3. raw # own
          BY <4>1, <4>2
        <4> QED BY <3>2, <4>3 DEF SigningKey
      <3> QED BY <3>1, <3>2
    <2>2. DecryptValue(own, token) = Failed
      <3> HIDE DEF signing, own
      <3> QED BY <1>0, <2>1, Refused
    <2>3. Token(k) = token
      BY <1>3 DEF Token
    <2>4. Meant(k) = k.plain
      BY <1>3 DEF Meant
    <2> HIDE DEF token, own
    <2>5. Meant(k) = IF token = <<>> \/ DecryptValue(own, token) = Failed
                     THEN k.plain ELSE DecryptValue(own, token)[1]
      BY <2>2, <2>4
    <2> QED BY <2>3, <2>5 DEF own
  <1> QED BY <1>1, <1>2, <1>3

LEMMA KeysAreTexts ==
    ASSUME NEW c \in Contents, NEW n \in KeyNames
    PROVE  c.keys[n] \in SavedKey /\ c.keys[n].plain \in Seq(Nat) /\ Meant(c.keys[n]) \in Seq(Nat)
  <1>1. c.keys[n] \in SavedKey
    BY ConfigurationAssumption
  <1> QED BY <1>1, ConfigurationAssumption DEF SavedKey, Meant, Opens

-----------------------------------------------------------------------------
LEMMA ConfigStarts == ConfigInit => ConfigInv
  <1> SUFFICES ASSUME ConfigInit PROVE ConfigInv
    OBVIOUS
  <1>1. Len(Places) \in Nat
    BY ConfigurationAssumption
  <1> QED BY <1>1, ConfigurationAssumption DEF ConfigInit, ConfigInv, Stages

LEMMA ConfigSteps ==
    ASSUME ConfigInv, (\E e \in BOOLEAN : LoadConfig(e)) \/ Loads \/ Drop \/ GWrites
    PROVE  ConfigInv'
  <1> USE DEF ConfigInv
  <1>p. Len(paths) \in Nat /\ \A i \in 1 .. Len(paths) : paths[i] \in Paths
    BY PathsAreSequences
  <1>1. ASSUME NEW e \in BOOLEAN, LoadConfig(e) PROVE ConfigInv'
    <2>1. paths' \in {Places, <<Named>>} /\ Len(paths') \in Nat
      BY <1>1, ConfigurationAssumption DEF LoadConfig, SearchPath
    <2> QED BY <1>1, <2>1 DEF LoadConfig, Stages
  <1>2. CASE Exists
    BY <1>2, <1>p DEF Exists, Stages
  <1>3. CASE NotThere
    <2>1. at' = at + 1 /\ at' \in 1 .. Len(paths) + 1 /\ paths[at] \notin held
      BY <1>3, <1>p DEF NotThere
    <2>2. \A i \in 1 .. at : paths[i] \notin held
      BY <2>1
    <2> QED BY <1>3, <1>p, <2>1, <2>2 DEF NotThere
  <1>4. CASE CannotRead
    BY <1>4 DEF CannotRead, Stages
  <1>5. CASE ReadFile
    <2>1. saved' \in Contents
      BY <1>5, <1>p DEF ReadFile
    <2>2. \A n \in KeyNames : saved'.keys[n].plain \in Seq(Nat)
      BY <2>1, KeysAreTexts
    <2> QED BY <1>5, <2>1, <2>2 DEF ReadFile, Stages
  <1>6. ASSUME NEW n \in KeyNames, Decrypt(n) PROVE ConfigInv'
    <2> DEFINE k == saved.keys[n]
               token == Token(k)
               text == DecryptValue(DeriveKey(Here), token)
    <2>1. stage = "decrypt" /\ saved \in Contents /\ n \in todo /\ keys[n] = k.plain
      BY <1>6 DEF Decrypt
    <2>2. Meant(k) = IF token = <<>> \/ text = Failed THEN k.plain ELSE text[1]
      BY <2>1, KeysAreTexts, Opened
    <2>3. Meant(k) \in Seq(Nat)
      BY <2>1, KeysAreTexts
    <2>4. /\ keys' = IF token = <<>> \/ text = Failed THEN keys ELSE [keys EXCEPT ![n] = text[1]]
          /\ todo' = todo \ {n}
          /\ UNCHANGED <<files, stage, paths, at, saved, held, writes>>
      BY <1>6 DEF Decrypt
    <2> HIDE DEF k, token, text
    <2>5. keys' = [keys EXCEPT ![n] = Meant(k)]
      BY <2>1, <2>2, <2>4
    <2>6. \A m \in KeyNames :
             keys'[m] = IF m \in todo' THEN saved.keys[m].plain ELSE Meant(saved.keys[m])
      BY <2>1, <2>4, <2>5 DEF k
    <2> QED BY <2>1, <2>3, <2>4, <2>5, <2>6
  <1>7. CASE Validate
    BY <1>7 DEF Validate, Stages
  <1>8. CASE Drop
    <2>1. Len(Places) \in Nat
      BY ConfigurationAssumption
    <2> QED BY <1>8, <2>1 DEF Drop, Stages
  <1>9. CASE GWrites
    BY <1>9 DEF GWrites
  <1> QED BY <1>1, <1>2, <1>3, <1>4, <1>5, <1>6, <1>7, <1>8, <1>9 DEF Loads

LEMMA ConfigStays == ConfigInv /\ UNCHANGED configVars => ConfigInv'
  BY DEF ConfigInv, configVars

-----------------------------------------------------------------------------
LEMMA FileIsThere == DownloadInv /\ nth # 0 => File \in Names /\ nth \in 1 .. Len(Files)
  BY DownloadAssumption DEF DownloadInv, File, Names

LEMMA DownloadStarts == DownloadInit => DownloadInv
  BY DownloadAssumption DEF DownloadInit, DownloadInv, OkMeansAllThere

(* download_file() returns s with the file in place when s is TRUE. *)
LEMMA ReturnKeeps ==
    ASSUME DownloadInv, nth # 0, NEW s \in BOOLEAN, Returns(s),
           disk' \in [Names -> 0 .. Blocks \cup {NoFile}],
           \A f \in Names : disk[f] # NoFile => disk'[f] # NoFile,
           s => disk'[File] # NoFile
    PROVE  /\ nth' \in 0 .. Len(Files) /\ success' \in BOOLEAN /\ doing' = "check"
           /\ nth' # 0 /\ success' => \A i \in 1 .. nth' - 1 : disk'[Files[i]] # NoFile
           /\ OkMeansAllThere'
  <1>1. nth \in 1 .. Len(Files) /\ Len(Files) \in Nat /\ DOMAIN Files = 1 .. Len(Files)
    BY DownloadAssumption DEF DownloadInv
  <1>2. success' => \A i \in 1 .. nth : disk'[Files[i]] # NoFile
    <2>1. ASSUME success', NEW i \in 1 .. nth PROVE disk'[Files[i]] # NoFile
      <3>1. success /\ s
        BY <2>1 DEF Returns
      <3>2. CASE i = nth
        BY <3>1, <3>2 DEF File
      <3>3. CASE i \in 1 .. nth - 1
        BY <1>1, <3>1, <3>3 DEF DownloadInv, Names
      <3> QED BY <1>1, <3>2, <3>3
    <2> QED BY <2>1
  <1>3. success' \in BOOLEAN /\ doing' = "check"
    BY DEF Returns, DownloadInv
  <1>4. CASE nth = Len(Files)
    <2>1. nth' = 0 /\ exit' = (IF success' THEN "ok" ELSE "failed")
      BY <1>4 DEF Returns
    <2>2. success' => \A f \in Names : disk'[f] # NoFile
      BY <1>1, <1>2, <1>4 DEF Names
    <2>3. exit' = "ok" => success'
      BY <2>1
    <2>4. OkMeansAllThere'
      BY <2>2, <2>3 DEF OkMeansAllThere
    <2>5. nth' \in 0 .. Len(Files)
      BY <1>1, <2>1
    <2> QED BY <1>3, <2>1, <2>4, <2>5
  <1>5. CASE nth # Len(Files)
    <2>1. nth' = nth + 1 /\ exit' = exit
      BY <1>5 DEF Returns
    <2>2. nth' \in 0 .. Len(Files) /\ nth' - 1 = nth
      <3> DEFINE n == Len(Files)
                 k == nth
                 m == nth'
      <3>1. n \in Nat /\ k \in 1 .. n /\ k # n
        BY <1>1, <1>5
      <3>2. m = k + 1
        BY <2>1
      <3> HIDE DEF k, m, n
      <3>3. m \in 0 .. n /\ m - 1 = k
        BY <3>1, <3>2
      <3> QED BY <3>3 DEF k, m, n
    <2>3. exit = "ok" => \A f \in Names : disk'[f] # NoFile
      BY DEF OkMeansAllThere, DownloadInv
    <2>4. OkMeansAllThere'
      BY <2>1, <2>3 DEF OkMeansAllThere
    <2>5. success' => \A i \in 1 .. nth' - 1 : disk'[Files[i]] # NoFile
      BY <1>2, <2>2
    <2> QED BY <1>3, <2>2, <2>4, <2>5
  <1> QED BY <1>4, <1>5

LEMMA DownloadSteps ==
    ASSUME DownloadInv, DownloadNext
    PROVE  DownloadInv' /\ cut \subseteq cut'
  <1>b. Blocks \in Nat /\ NoFile \notin Nat /\ Len(Files) \in Nat
    BY DownloadAssumption
  <1>f. nth # 0 => File \in Names /\ nth \in 1 .. Len(Files)
    BY FileIsThere
  <1>1. CASE StartScript
    <2>1. Len(Files) # 0
      BY <1>b, DownloadAssumption
    <2>2. nth' = 1 /\ nth' \in 0 .. Len(Files) /\ doing' = "check" /\ success' \in BOOLEAN
      BY <1>1, <1>b, <2>1 DEF StartScript
    <2>3. \A i \in 1 .. nth' - 1 : disk'[Files[i]] # NoFile
      BY <2>2
    <2>4. UNCHANGED <<disk, tmp, exit, cut>>
      BY <1>1 DEF StartScript
    <2> QED BY <2>2, <2>3, <2>4 DEF DownloadInv, OkMeansAllThere
  <1>2. CASE Skip
    <2>1. /\ nth' \in 0 .. Len(Files) /\ success' \in BOOLEAN /\ doing' = "check"
          /\ nth' # 0 /\ success' => \A i \in 1 .. nth' - 1 : disk'[Files[i]] # NoFile
          /\ OkMeansAllThere'
      BY <1>2, <1>f, ReturnKeeps DEF Skip, DownloadInv
    <2> QED BY <1>2, <2>1 DEF Skip, DownloadInv
  <1>3. CASE Request
    BY <1>3, <1>b, <1>f DEF Request, DownloadInv, OkMeansAllThere, File
  <1>4. CASE CopyBlock
    <2>1. tmp[File] + 1 \in 0 .. Blocks
      BY <1>4, <1>b DEF CopyBlock, DownloadInv
    <2> QED BY <1>4, <1>f, <2>1 DEF CopyBlock, DownloadInv, OkMeansAllThere, File
  <1>5. CASE StreamEnds
    <2>1. tmp[File] < Blocks \/ tmp[File] = Blocks
      BY <1>5, <1>b DEF StreamEnds, DownloadInv
    <2> QED BY <1>5, <1>f, <2>1 DEF StreamEnds, DownloadInv, OkMeansAllThere, File
  <1>6. CASE Rename
    <2>1. tmp[File] \in 0 .. Blocks /\ (tmp[File] = Blocks \/ File \in cut)
      BY <1>6 DEF Rename, DownloadInv
    <2>2. /\ disk' \in [Names -> 0 .. Blocks \cup {NoFile}] /\ disk'[File] # NoFile
          /\ \A f \in Names : disk[f] # NoFile => disk'[f] # NoFile
      BY <1>6, <1>b, <1>f, <2>1 DEF Rename, DownloadInv
    <2>3. /\ nth' \in 0 .. Len(Files) /\ success' \in BOOLEAN /\ doing' = "check"
          /\ nth' # 0 /\ success' => \A i \in 1 .. nth' - 1 : disk'[Files[i]] # NoFile
          /\ OkMeansAllThere'
      BY <1>6, <2>2, ReturnKeeps DEF Rename
    <2> QED BY <1>6, <1>f, <2>1, <2>2, <2>3 DEF Rename, DownloadInv
  <1>7. CASE CleanUp
    <2>1. /\ nth' \in 0 .. Len(Files) /\ success' \in BOOLEAN /\ doing' = "check"
          /\ nth' # 0 /\ success' => \A i \in 1 .. nth' - 1 : disk'[Files[i]] # NoFile
          /\ OkMeansAllThere'
      BY <1>7, ReturnKeeps DEF CleanUp, DownloadInv
    <2> QED BY <1>7, <1>f, <2>1 DEF CleanUp, DownloadInv
  <1>8. CASE Fails
    BY <1>8 DEF Fails, DownloadInv, OkMeansAllThere
  <1>9. CASE Killed
    BY <1>9, <1>b DEF Killed, DownloadInv, OkMeansAllThere
  <1> QED BY <1>1, <1>2, <1>3, <1>4, <1>5, <1>6, <1>7, <1>8, <1>9
          DEF DownloadNext, Downloads

LEMMA DownloadStays == DownloadInv /\ UNCHANGED downloadVars => DownloadInv' /\ cut' = cut
  BY DEF DownloadInv, OkMeansAllThere, File, downloadVars

-----------------------------------------------------------------------------
LEMMA ShellStays ==
    ASSUME ShellInv, cut \subseteq cut', loaded' \in {loaded, <<>>}
    PROVE  ShellInv'
  <1>1. CASE loaded' = loaded
    BY <1>1 DEF ShellInv
  <1>2. CASE loaded' = <<>>
    <2>1. Len(loaded') = 0 /\ DOMAIN loaded' = {} /\ loaded' \in Seq(0 .. Blocks)
      BY <1>2
    <2>2. Len(Models) \in Nat
      BY ModelsAssumption
    <2> QED BY <2>1, <2>2 DEF ShellInv
  <1> QED BY <1>1, <1>2

LEMMA ShellLoads ==
    ASSUME ShellInv, DownloadInv, LoadModel
    PROVE  ShellInv'
  <1> DEFINE n == Len(loaded)
             file == disk[Models[n + 1]]
  <1>1. n \in Nat /\ n < Len(Models) /\ Len(Models) \in Nat /\ loaded \in Seq(0 .. Blocks)
    BY ModelsAssumption DEF LoadModel, ShellInv
  <1>2. Models[n + 1] \in Names
    BY <1>1, ModelsAssumption
  <1>3. file \in 0 .. Blocks /\ (file = Blocks \/ Models[n + 1] \in cut) /\ cut' = cut
    BY <1>2 DEF LoadModel, DownloadInv, Becomes, downloadVars
  <1>4. loaded' = Append(loaded, file)
    BY DEF LoadModel
  <1> HIDE DEF file
  <1>5. /\ loaded' \in Seq(0 .. Blocks) /\ Len(loaded') = n + 1 /\ loaded'[n + 1] = file
        /\ \A i \in 1 .. n : loaded'[i] = loaded[i]
    BY <1>1, <1>3, <1>4
  <1>6. DOMAIN loaded' = 1 .. n + 1 /\ DOMAIN loaded = 1 .. n
    BY <1>1, <1>5
  <1> QED BY <1>1, <1>3, <1>5, <1>6 DEF ShellInv

LEMMA NextInv == Inv /\ [StartupNext]_startupVars => Inv'
  <1> SUFFICES ASSUME Inv, [StartupNext]_startupVars PROVE Inv'
    OBVIOUS
  <1> USE DEF Inv
  <1>1. CASE StartShell
    <2>1. ConfigInv' /\ UNCHANGED downloadVars /\ loaded' = <<>>
      BY <1>1, ConfigSteps, ConfigStays DEF StartShell, Becomes
    <2> QED BY <2>1, DownloadStays, ShellStays
  <1>2. CASE Configured
    <2>1. ConfigInv' /\ UNCHANGED downloadVars /\ loaded' = loaded
      BY <1>2, ConfigSteps DEF Configured, Becomes
    <2> QED BY <2>1, DownloadStays, ShellStays
  <1>3. CASE LoadModel
    <2>1. UNCHANGED configVars /\ UNCHANGED downloadVars
      BY <1>3 DEF LoadModel, Becomes
    <2> QED BY <1>3, <2>1, ConfigStays, DownloadStays, ShellLoads
  <1>4. CASE ModelsLoaded \/ Connect
    <2>1. UNCHANGED configVars /\ UNCHANGED downloadVars /\ loaded' = loaded
      BY <1>4 DEF ModelsLoaded, Connect, Becomes
    <2> QED BY <2>1, ConfigStays, DownloadStays, ShellStays
  <1>5. CASE ShellEnds
    <2>1. ConfigInv' /\ UNCHANGED downloadVars /\ loaded' = <<>>
      BY <1>5, ConfigSteps, ConfigStays DEF ShellEnds, Becomes
    <2> QED BY <2>1, DownloadStays, ShellStays
  <1>6. CASE OthersLoad
    <2>1. ConfigInv' /\ UNCHANGED downloadVars /\ loaded' = loaded
      BY <1>6, ConfigSteps DEF OthersLoad
    <2> QED BY <2>1, DownloadStays, ShellStays
  <1>7. CASE (Loads \/ GWrites) /\ UNCHANGED <<downloadVars, shell, loaded>>
    <2>1. ConfigInv' /\ UNCHANGED downloadVars /\ loaded' = loaded
      BY <1>7, ConfigSteps
    <2> QED BY <2>1, DownloadStays, ShellStays
  <1>8. CASE DownloadNext /\ UNCHANGED <<configVars, shell, loaded>>
    <2>1. DownloadInv' /\ cut \subseteq cut' /\ UNCHANGED configVars /\ loaded' = loaded
      BY <1>8, DownloadSteps
    <2> QED BY <2>1, ConfigStays, ShellStays
  <1>9. CASE UNCHANGED startupVars
    <2>1. UNCHANGED configVars /\ UNCHANGED downloadVars /\ loaded' = loaded
      BY <1>9 DEF startupVars
    <2> QED BY <2>1, ConfigStays, DownloadStays, ShellStays
  <1> QED BY <1>1, <1>2, <1>3, <1>4, <1>5, <1>6, <1>7, <1>8, <1>9
          DEF StartupNext, ShellStarts

LEMMA Invariance == StartupSpec => []Inv
  <1>1. StartupInit => Inv
    BY ConfigStarts, DownloadStarts, ModelsAssumption DEF StartupInit, Inv, ShellInv
  <1> QED BY <1>1, NextInv, PTL DEF StartupSpec

-----------------------------------------------------------------------------
(* Each key of a configuration that is returned is its secret if its token *)
(* opens and its plain text otherwise, for any number of keys and machines *)
(* and any lengths of text and block.                                      *)
THEOREM KeysApart == StartupSpec => []EachKeyOnItsOwn
  <1>1. Inv => EachKeyOnItsOwn
    BY DEF Inv, ConfigInv, EachKeyOnItsOwn, Meant
  <1> QED BY <1>1, Invariance, PTL

(* No path that keeps its file is passed over, however many there are.     *)
THEOREM FirstFound == StartupSpec => []FirstPlaceWins
  <1>1. ASSUME Inv, stage \in {"read", "decrypt", "ok"}, paths # <<Named>>,
               NEW i \in DOMAIN Places, NEW j \in DOMAIN Places, paths[at] = Places[j], i < j
        PROVE  Places[i] \notin held
    <2>1. paths = Places /\ at \in DOMAIN Places /\ DOMAIN Places = 1 .. Len(Places)
      BY <1>1, ConfigurationAssumption DEF Inv, ConfigInv
    <2>2. at = j
      BY <1>1, <2>1, ConfigurationAssumption
    <2>3. i \in 1 .. at - 1
      BY <1>1, <2>1, <2>2, ConfigurationAssumption
    <2> QED BY <1>1, <2>1, <2>3 DEF Inv, ConfigInv
  <1>2. Inv => FirstPlaceWins
    BY <1>1 DEF FirstPlaceWins
  <1> QED BY <1>2, Invariance, PTL

(* However often the script is killed and run again, and whenever a shell  *)
(* starts: no part of a file unless its transfer was cut short.            *)
THEOREM Whole == StartupSpec => []WholeUnlessCut
  <1>1. Inv => WholeUnlessCut
    BY DEF Inv, DownloadInv, ShellInv, WholeUnlessCut
  <1> QED BY <1>1, Invariance, PTL

(* The script reports success only with every file in its place. *)
THEOREM AllThere == StartupSpec => []OkMeansAllThere
  <1>1. Inv => OkMeansAllThere
    BY DEF Inv, DownloadInv
  <1> QED BY <1>1, Invariance, PTL
=============================================================================
