----------------------------- MODULE CipherProofs -----------------------------
(***************************************************************************)
(* Proofs about Cipher, for any key, salt table and salt pool, and any     *)
(* operation on bytes that is its own inverse.                             *)
(*                                                                         *)
(* The transform is an involution because the mask of a position does not  *)
(* depend on the byte there; what makes the packet readable is that both   *)
(* sides then come to the same key, which the tail carries.                *)
(***************************************************************************)
EXTENDS Cipher, TLAPS

(* The digest of a client's packet is four bytes, whatever it is of.       *)
DigestIsBytes ==
    \A opcode, sequence, k \in Byte : \A hidden \in Seq(Byte) :
      Digest(opcode, sequence, hidden, k) \in Byte

-----------------------------------------------------------------------------
LEMMA XorByte == ASSUME NEW x \in Byte, NEW y \in Byte
                 PROVE  ByteXor(x, y) \in Byte /\ ByteXor(ByteXor(x, y), y) = x
  BY XorAssumption

LEMMA Remainder == ASSUME NEW n \in Int PROVE n % 1024 \in 0 .. 1023
  OBVIOUS

(* The parts of CryptoAssumption, one by one                               *)
LEMMA KeySequence == Key \in Seq(Byte)
  BY CryptoAssumption

LEMMA KeyNotEmpty == Len(Key) > 0
  BY CryptoAssumption

LEMMA SaltTable == Salts \in [Byte -> Byte]
  BY CryptoAssumption

LEMMA SaltPool == KeySalts \in [0 .. 1023 -> Byte]
  BY CryptoAssumption

LEMMA GeneratedKey ==
    ASSUME NEW a \in Nat, NEW b \in Nat
    PROVE  GenerateKey(a, b) \in Seq(Byte) /\ Len(GenerateKey(a, b)) = 9
  <1> DEFINE index(i) == ((i - 1) * (9 * (i - 1) + b * b) + a) % 1024
             salt(i)  == KeySalts[index(i)]
  <1>1. ASSUME NEW i \in 1 .. 9 PROVE salt(i) \in Byte
    <2>1. b * b \in Int
      OBVIOUS
    <2>2. PICK c \in Int : c = b * b
      BY <2>1
    <2>3. (i - 1) * (9 * (i - 1) + c) + a \in Int
      OBVIOUS
    <2>4. index(i) \in 0 .. 1023
      BY <2>2, <2>3, Remainder
    <2> HIDE DEF index
    <2> QED BY <2>4, SaltPool
  <1> HIDE DEF salt
  <1>2. [i \in 1 .. 9 |-> salt(i)] \in Seq(Byte) /\ Len([i \in 1 .. 9 |-> salt(i)]) = 9
    BY <1>1
  <1>3. GenerateKey(a, b) = [i \in 1 .. 9 |-> salt(i)]
    BY DEF GenerateKey, KEY_LENGTH, salt, index
  <1> QED BY <1>2, <1>3

LEMMA KeyIsKey ==
    ASSUME NEW type, NEW a \in Nat, NEW b \in Nat
    PROVE  KeyOf(type, a, b) \in Seq(Byte) /\ Len(KeyOf(type, a, b)) > 0
  <1>1. Key \in Seq(Byte) /\ Len(Key) > 0
    BY KeySequence, KeyNotEmpty
  <1>2. GenerateKey(a, b) \in Seq(Byte) /\ Len(GenerateKey(a, b)) > 0
    <2>1. GenerateKey(a, b) \in Seq(Byte) /\ Len(GenerateKey(a, b)) = 9
      BY GeneratedKey, Zenon
    <2> QED BY <2>1
  <1>3. KeyOf(type, a, b) \in {Key, GenerateKey(a, b)}
    BY DEF KeyOf
  <1> QED BY <1>1, <1>2, <1>3

LEMMA MaskIsByte ==
    ASSUME NEW i \in Nat \ {0}, NEW key \in Seq(Byte), Len(key) > 0, NEW sequence \in Byte
    PROVE  Mask(i, key, sequence) \in Byte
  <1>1. Len(Key) \in Nat \ {0} /\ Len(key) \in Nat \ {0}
    BY KeySequence, KeyNotEmpty
  <1>2. SaltIndex(i) \in Byte
    <2>1. PICK n \in Int : n = (i - 1) \div Len(Key)
      BY <1>1
    <2>2. n % 256 \in 0 .. 255
      OBVIOUS
    <2> QED BY <2>1, <2>2 DEF SaltIndex, Byte
  <1>3. key[((i - 1) % Len(key)) + 1] \in Byte
    <2>1. (i - 1) % Len(key) \in 0 .. (Len(key) - 1)
      BY <1>1
    <2>2. ((i - 1) % Len(key)) + 1 \in 1 .. Len(key)
      BY <2>1, <1>1
    <2> QED BY <2>2
  <1>4. Salts[SaltIndex(i)] \in Byte /\ Salts[sequence] \in Byte
    BY <1>2, SaltTable
  <1> QED BY <1>3, <1>4, XorAssumption DEF Mask

LEMMA TransformIsBytes ==
    ASSUME NEW buffer \in Seq(Byte), NEW key \in Seq(Byte), Len(key) > 0, NEW sequence \in Byte
    PROVE  /\ Transform(buffer, key, sequence) \in Seq(Byte)
           /\ Len(Transform(buffer, key, sequence)) = Len(buffer)
           /\ \A i \in 1 .. Len(buffer) :
                Transform(buffer, key, sequence)[i] = ByteXor(buffer[i], Mask(i, key, sequence))
  <1> DEFINE out(i) == ByteXor(buffer[i], Mask(i, key, sequence))
  <1>1. ASSUME NEW i \in 1 .. Len(buffer) PROVE out(i) \in Byte
    <2>1. buffer[i] \in Byte /\ Mask(i, key, sequence) \in Byte
      BY MaskIsByte
    <2> QED BY <2>1, XorAssumption
  <1>2. Transform(buffer, key, sequence) = [i \in 1 .. Len(buffer) |-> out(i)]
    BY DEF Transform
  <1> HIDE DEF out
  <1>3. Len(buffer) \in Nat
    OBVIOUS
  <1>4. [i \in 1 .. Len(buffer) |-> out(i)] \in Seq(Byte)
        /\ Len([i \in 1 .. Len(buffer) |-> out(i)]) = Len(buffer)
    BY <1>1, <1>3
  <1> QED BY <1>2, <1>4 DEF out

(* _transform undoes itself ("the cipher is its own inverse"), whatever    *)
(* the key, the length of the buffer and the sequence number.              *)
THEOREM TransformInvolution ==
    ASSUME NEW buffer \in Seq(Byte), NEW key \in Seq(Byte), Len(key) > 0, NEW sequence \in Byte
    PROVE  Transform(Transform(buffer, key, sequence), key, sequence) = buffer
  <1> DEFINE once  == Transform(buffer, key, sequence)
             twice == Transform(once, key, sequence)
  <1>1. /\ once \in Seq(Byte) /\ Len(once) = Len(buffer)
        /\ \A i \in 1 .. Len(buffer) : once[i] = ByteXor(buffer[i], Mask(i, key, sequence))
    BY TransformIsBytes
  <1> HIDE DEF once
  <1>2. /\ twice \in Seq(Byte) /\ Len(twice) = Len(once)
        /\ \A i \in 1 .. Len(once) : twice[i] = ByteXor(once[i], Mask(i, key, sequence))
    BY <1>1, TransformIsBytes
  <1> HIDE DEF twice
  <1>3. ASSUME NEW i \in 1 .. Len(buffer) PROVE twice[i] = buffer[i]
    <2>1. buffer[i] \in Byte /\ Mask(i, key, sequence) \in Byte
      BY MaskIsByte
    <2>2. twice[i] = ByteXor(ByteXor(buffer[i], Mask(i, key, sequence)), Mask(i, key, sequence))
      BY <1>1, <1>2
    <2> QED BY <2>1, <2>2, XorAssumption
  <1>4. twice = buffer
    BY <1>1, <1>2, <1>3
  <1> QED BY <1>4 DEF twice, once
-----------------------------------------------------------------------------
(* The random value of a packet, split into two bytes and put together     *)
LEMMA Halves ==
    ASSUME NEW a \in RandomA
    PROVE  /\ a % 256 \in Byte /\ a \div 256 \in Byte
           /\ (a \div 256) % 256 = a \div 256
           /\ (a \div 256) * 256 + (a % 256) = a
  <1>1. a \in Nat /\ 256 <= a /\ a <= 65534
    BY DEF RandomA
  <1>2. a % 256 \in 0 .. 255
    BY <1>1
  <1>3. a = 256 * (a \div 256) + (a % 256) /\ a \div 256 \in Int
    BY <1>1
  <1>4. PICK q \in Int : q = a \div 256
    BY <1>3
  <1>5. PICK r \in 0 .. 255 : r = a % 256
    BY <1>2
  <1>6. a = 256 * q + r
    BY <1>3, <1>4, <1>5
  <1>7. q \in 0 .. 255
    BY <1>1, <1>6
  <1>8. q % 256 = q
    BY <1>7
  <1> QED BY <1>4, <1>5, <1>6, <1>7, <1>8 DEF Byte

LEMMA Hidden == ASSUME NEW x \in Byte, NEW k \in Byte
                PROVE  ByteXor(ByteXor(x, k), k) = x
  BY XorAssumption

LEMMA BytesSmall == \A k \in {0, 116, 36, 100, 112, 35, 13, 3, 11, 7} : k \in Byte
  BY DEF Byte

LEMMA Joined ==
    ASSUME NEW S, NEW s \in Seq(S), NEW t \in Seq(S)
    PROVE  /\ s \o t \in Seq(S)
           /\ Len(s \o t) = Len(s) + Len(t)
           /\ \A k \in 1 .. Len(s) : (s \o t)[k] = s[k]
           /\ \A k \in 1 .. Len(t) : (s \o t)[Len(s) + k] = t[k]
  OBVIOUS

(* A body and a tail put together, and taken apart                         *)
LEMMA BodyOf ==
    ASSUME NEW S, NEW body \in Seq(S), NEW tail \in Seq(S)
    PROVE  /\ Body(body \o tail, Len(tail)) = body
           /\ \A k \in 1 .. Len(tail) : (body \o tail)[Len(body) + k] = tail[k]
           /\ Len(body \o tail) = Len(body) + Len(tail)
  <1>1. Len(body \o tail) = Len(body) + Len(tail)
    OBVIOUS
  <1>2. \A k \in 1 .. Len(tail) : (body \o tail)[Len(body) + k] = tail[k]
    OBVIOUS
  <1>3. SubSeq(body \o tail, 1, Len(body)) = body
    <2>1. \A k \in 1 .. Len(body) : (body \o tail)[k] = body[k]
      OBVIOUS
    <2>2. SubSeq(body \o tail, 1, Len(body)) \in Seq(S)
          /\ Len(SubSeq(body \o tail, 1, Len(body))) = Len(body)
      BY <1>1
    <2>3. \A k \in 1 .. Len(body) : SubSeq(body \o tail, 1, Len(body))[k] = body[k]
      BY <1>1, <2>1
    <2> QED BY <2>2, <2>3
  <1>4. Len(body \o tail) - Len(tail) = Len(body)
    BY <1>1
  <1> QED BY <1>1, <1>2, <1>3, <1>4 DEF Body

(* What the server encrypts, the client reads: server_encrypt of any body  *)
(* of any opcode under any sequence number and random values, then         *)
(* client_decrypt.                                                         *)
THEOREM ClientReadsServer ==
    ASSUME NEW body \in Seq(Byte), NEW opcode \in Byte, NEW sequence \in Byte,
           NEW a \in RandomA, NEW b \in RandomB
    PROVE  LET packet == ServerEncrypt(body, opcode, sequence, a, b)
           IN  /\ packet \in Seq(Byte)
               /\ ~TooShort(packet, opcode)
               /\ ClientDecrypt(packet, opcode, sequence) = body
  <1> DEFINE type   == ServerType(opcode)
             key    == KeyOf(type, a, b)
             hidden == Transform(body, key, sequence)
             tail   == <<ByteXor(a % 256, 116), ByteXor(b, 36), ByteXor(a \div 256, 100)>>
             packet == ServerEncrypt(body, opcode, sequence, a, b)
  <1>1. CASE type = "NONE"
    <2>1. packet = body
      BY <1>1 DEF ServerEncrypt
    <2> QED BY <1>1, <2>1 DEF TooShort, ClientDecrypt
  <1>2. CASE type # "NONE"
    <2>1. key \in Seq(Byte) /\ Len(key) > 0
      <3>1. a \in Nat /\ b \in Nat
        BY DEF RandomA, RandomB
      <3> QED BY <3>1, KeyIsKey
    <2>2. hidden \in Seq(Byte) /\ Transform(hidden, key, sequence) = body
      <3> HIDE DEF key
      <3> QED BY <2>1, TransformIsBytes, TransformInvolution
    <2>3. /\ a % 256 \in Byte /\ a \div 256 \in Byte
          /\ (a \div 256) * 256 + (a % 256) = a /\ b \in Byte
      BY Halves DEF RandomB, Byte
    <2>4. tail \in Seq(Byte) /\ Len(tail) = 3
      <3>1. ByteXor(a % 256, 116) \in Byte /\ ByteXor(b, 36) \in Byte
            /\ ByteXor(a \div 256, 100) \in Byte
        BY <2>3, BytesSmall, XorAssumption
      <3> QED BY <3>1
    <2>5. packet = hidden \o tail
      BY <1>2 DEF ServerEncrypt
    <2> HIDE DEF hidden, tail, key, packet
    <2>6. /\ Body(packet, 3) = hidden
          /\ \A k \in 1 .. 3 : packet[Len(hidden) + k] = tail[k]
          /\ packet \in Seq(Byte)
          /\ Len(packet) = Len(hidden) + 3
      <3>1. /\ Body(hidden \o tail, Len(tail)) = hidden
            /\ \A k \in 1 .. Len(tail) : (hidden \o tail)[Len(hidden) + k] = tail[k]
            /\ Len(hidden \o tail) = Len(hidden) + Len(tail)
        BY <2>2, <2>4, BodyOf
      <3>2. packet \in Seq(Byte)
        BY <2>2, <2>4, <2>5
      <3> QED BY <2>4, <2>5, <3>1, <3>2
    <2>7. Len(packet) - 3 = Len(hidden) /\ Len(packet) >= 3
      BY <2>2, <2>6
    <2>8. /\ ByteXor(packet[Len(packet) - 3 + 1], 116) = a % 256
          /\ ByteXor(packet[Len(packet) - 3 + 2], 36) = b
          /\ ByteXor(packet[Len(packet) - 3 + 3], 100) = a \div 256
      <3>1. /\ packet[Len(packet) - 3 + 1] = tail[1]
            /\ packet[Len(packet) - 3 + 2] = tail[2]
            /\ packet[Len(packet) - 3 + 3] = tail[3]
        BY <2>6, <2>7
      <3> QED BY <2>3, <3>1, BytesSmall, Hidden DEF tail
    <2>9. ClientDecrypt(packet, opcode, sequence) = Transform(Body(packet, 3), key, sequence)
      BY <1>2, <2>3, <2>8 DEF ClientDecrypt, key
    <2> QED BY <2>2, <2>6, <2>7, <2>9 DEF TooShort, packet
  <1> QED BY <1>1, <1>2

LEMMA PaddingIsBytes ==
    ASSUME NEW type, NEW opcode \in Byte
    PROVE  /\ Padding(type, opcode) \in Seq(Byte)
           /\ Len(Padding(type, opcode)) = IF type = "NORMAL" THEN 1 ELSE 2
  BY BytesSmall DEF Padding

(* What the client encrypts, the server reads: client_encrypt of any body  *)
(* of any opcode under any sequence number and random values, whatever the *)
(* digest, then server_decrypt, which drops the zero and the opcode that   *)
(* were encrypted with the body.                                           *)
THEOREM ServerReadsClient ==
    ASSUME NEW body \in Seq(Byte), NEW opcode \in Byte, NEW sequence \in Byte,
           NEW a \in RandomA, NEW b \in RandomB, DigestIsBytes
    PROVE  LET packet == ClientEncrypt(body, opcode, sequence, a, b)
           IN  /\ packet \in Seq(Byte)
               /\ ServerDecrypt(packet, opcode, sequence) = body
  <1> DEFINE type   == ClientType(opcode)
             key    == KeyOf(type, a, b)
             padded == body \o Padding(type, opcode)
             hidden == Transform(padded, key, sequence)
             digest == [k \in 1 .. 4 |-> Digest(opcode, sequence, hidden, <<13, 3, 11, 7>>[k])]
             ends   == <<ByteXor(a % 256, 112), ByteXor(b, 35), ByteXor((a \div 256) % 256, 116)>>
             packet == ClientEncrypt(body, opcode, sequence, a, b)
             extra  == IF type = "NORMAL" THEN 1 ELSE 2
  <1>1. CASE type = "NONE"
    <2>1. packet = body
      BY <1>1 DEF ClientEncrypt
    <2> QED BY <1>1, <2>1 DEF ServerDecrypt
  <1>2. CASE type # "NONE"
    <2>1. key \in Seq(Byte) /\ Len(key) > 0
      <3>1. a \in Nat /\ b \in Nat
        BY DEF RandomA, RandomB
      <3> QED BY <3>1, KeyIsKey
    <2>2. padded \in Seq(Byte) /\ Len(padded) = Len(body) + extra
          /\ \A k \in 1 .. Len(body) : padded[k] = body[k]
      <3>1. Padding(type, opcode) \in Seq(Byte) /\ Len(Padding(type, opcode)) = extra
        BY PaddingIsBytes
      <3> DEFINE pad == Padding(type, opcode)
      <3> HIDE DEF pad, extra
      <3>2. pad \in Seq(Byte) /\ Len(pad) = extra
        BY <3>1 DEF pad
      <3>3. body \o pad \in Seq(Byte) /\ Len(body \o pad) = Len(body) + Len(pad)
            /\ \A k \in 1 .. Len(body) : (body \o pad)[k] = body[k]
        BY <3>2, Joined
      <3> QED BY <3>2, <3>3 DEF pad
    <2>3. /\ a % 256 \in Byte /\ a \div 256 \in Byte /\ (a \div 256) % 256 = a \div 256
          /\ (a \div 256) * 256 + (a % 256) = a /\ b \in Byte
      BY Halves DEF RandomB, Byte
    <2>4. ends \in Seq(Byte) /\ Len(ends) = 3
      <3>1. ByteXor(a % 256, 112) \in Byte /\ ByteXor(b, 35) \in Byte
            /\ ByteXor((a \div 256) % 256, 116) \in Byte
        BY <2>3, BytesSmall, XorAssumption
      <3> QED BY <3>1
    <2>5. /\ hidden \in Seq(Byte) /\ Len(hidden) = Len(padded)
          /\ \A k \in 1 .. Len(padded) : hidden[k] = ByteXor(padded[k], Mask(k, key, sequence))
      <3> HIDE DEF key, padded
      <3> QED BY <2>1, <2>2, TransformIsBytes
    <2>6. digest \in Seq(Byte) /\ Len(digest) = 4
      <3> DEFINE at(k) == Digest(opcode, sequence, hidden, <<13, 3, 11, 7>>[k])
      <3>1. ASSUME NEW k \in 1 .. 4 PROVE at(k) \in Byte
        <4>1. <<13, 3, 11, 7>>[k] \in Byte
          BY BytesSmall
        <4> HIDE DEF hidden
        <4> QED BY <2>5, <4>1 DEF DigestIsBytes
      <3>2. digest = [k \in 1 .. 4 |-> at(k)]
        OBVIOUS
      <3> HIDE DEF at
      <3>3. [k \in 1 .. 4 |-> at(k)] \in Seq(Byte) /\ Len([k \in 1 .. 4 |-> at(k)]) = 4
        BY <3>1
      <3> QED BY <3>2, <3>3
    <2>7. packet = hidden \o digest \o ends
      BY <1>2 DEF ClientEncrypt
    <2> HIDE DEF hidden, digest, ends, key, packet, padded
    <2>8. /\ packet \in Seq(Byte)
          /\ Len(packet) = Len(body) + extra + 7
          /\ \A k \in 1 .. Len(hidden) : packet[k] = hidden[k]
          /\ \A k \in 1 .. 3 : packet[Len(hidden) + 4 + k] = ends[k]
      <3>1. hidden \o digest \in Seq(Byte) /\ Len(hidden \o digest) = Len(hidden) + 4
            /\ \A k \in 1 .. Len(hidden) : (hidden \o digest)[k] = hidden[k]
        <4>1. hidden \in Seq(Byte) /\ digest \in Seq(Byte)
          BY <2>5, <2>6
        <4>2. hidden \o digest \in Seq(Byte) /\ Len(hidden \o digest) = Len(hidden) + Len(digest)
              /\ \A k \in 1 .. Len(hidden) : (hidden \o digest)[k] = hidden[k]
          BY <4>1, Joined
        <4> QED BY <2>6, <4>2
      <3> DEFINE front == hidden \o digest
      <3>2. packet = front \o ends
        BY <2>7
      <3> HIDE DEF front
      <3>3. front \in Seq(Byte) /\ Len(front) = Len(hidden) + 4
            /\ \A k \in 1 .. Len(hidden) : front[k] = hidden[k]
        BY <3>1 DEF front
      <3>4. /\ front \o ends \in Seq(Byte)
            /\ Len(front \o ends) = Len(front) + Len(ends)
            /\ \A k \in 1 .. Len(front) : (front \o ends)[k] = front[k]
            /\ \A k \in 1 .. Len(ends) : (front \o ends)[Len(front) + k] = ends[k]
        <4>1. front \in Seq(Byte) /\ ends \in Seq(Byte)
          BY <2>4, <3>3
        <4> QED BY <4>1, Joined
      <3>5. Len(packet) = Len(body) + extra + 7
        BY <2>2, <2>4, <2>5, <3>2, <3>3, <3>4
      <3>6. \A k \in 1 .. Len(hidden) : packet[k] = hidden[k]
        BY <2>5, <3>2, <3>3, <3>4
      <3>7. \A k \in 1 .. 3 : packet[Len(hidden) + 4 + k] = ends[k]
        BY <2>4, <3>2, <3>3, <3>4
      <3> QED BY <3>2, <3>4, <3>5, <3>6, <3>7
    <2>9. /\ ByteXor(packet[Len(packet) - 7 + 5], 112) = a % 256
          /\ ByteXor(packet[Len(packet) - 7 + 6], 35) = b
          /\ ByteXor(packet[Len(packet) - 7 + 7], 116) = a \div 256
      <3>1. /\ packet[Len(packet) - 7 + 5] = ends[1]
            /\ packet[Len(packet) - 7 + 6] = ends[2]
            /\ packet[Len(packet) - 7 + 7] = ends[3]
        BY <2>2, <2>5, <2>8
      <3> QED BY <2>3, <3>1, BytesSmall, Hidden DEF ends
    <2>10. ServerDecrypt(packet, opcode, sequence)
             = Transform(Body(packet, 7 + extra), key, sequence)
      BY <1>2, <2>3, <2>9 DEF ServerDecrypt, key
    <2>11. Body(packet, 7 + extra) = Transform(body, key, sequence)
      <3>1. /\ Transform(body, key, sequence) \in Seq(Byte)
            /\ Len(Transform(body, key, sequence)) = Len(body)
            /\ \A k \in 1 .. Len(body) :
                 Transform(body, key, sequence)[k] = ByteXor(body[k], Mask(k, key, sequence))
        BY <2>1, TransformIsBytes
      <3>2. /\ Body(packet, 7 + extra) \in Seq(Byte)
            /\ Len(Body(packet, 7 + extra)) = Len(body)
            /\ \A k \in 1 .. Len(body) : Body(packet, 7 + extra)[k] = packet[k]
        BY <2>8 DEF Body
      <3>3. \A k \in 1 .. Len(body) : packet[k] = ByteXor(body[k], Mask(k, key, sequence))
        BY <2>2, <2>5, <2>8
      <3> QED BY <3>1, <3>2, <3>3
    <2> QED BY <2>1, <2>8, <2>10, <2>11, TransformInvolution DEF packet
  <1> QED BY <1>1, <1>2
=============================================================================
