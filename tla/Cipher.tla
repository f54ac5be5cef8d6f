------------------------------- MODULE Cipher -------------------------------
(***************************************************************************)
(* src/population_tracker/crypto.py: how one Crypto object turns the body  *)
(* of a packet into what is on the wire, and back.                         *)
(*                                                                         *)
(* Packets of the client and of the server have tails of different length  *)
(* and different constants, and each side reads what the other wrote.      *)
(* Sequences count from 1 here and from 0 in the code.                     *)
(***************************************************************************)
EXTENDS Integers, Sequences

CONSTANTS
    ByteXor(_, _),           \* exclusive or of two bytes
    Key,                 \* self.key
    Salts,               \* self._salts: the salt table of self.seed
    KeySalts,            \* self._key_salts
    Digest(_, _, _, _)   \* a byte of the MD5 digest of a client's packet

Byte == 0 .. 255

ASSUME XorAssumption ==
    \A x, y \in Byte : ByteXor(x, y) \in Byte /\ ByteXor(ByteXor(x, y), y) = x

(* The server chooses the key, and the code does not check that there is   *)
(* one: with an empty key _transform divides by zero, which is a crash of  *)
(* the read loop in Client.                                                *)
ASSUME CryptoAssumption ==
    /\ Key \in Seq(Byte) /\ Len(Key) > 0
    /\ Salts \in [Byte -> Byte]
    /\ KeySalts \in [0 .. 1023 -> Byte]

KEY_LENGTH == 9

(* The random values of a packet: random.randint(256, 65534) and           *)
(* random.randint(100, 254)                                                *)
RandomA == 256 .. 65534
RandomB == 100 .. 254
-----------------------------------------------------------------------------
ClientNone   == {0, 16, 72}
ClientNormal == {2, 3, 4, 11, 38, 45, 58, 66, 67, 75, 87, 98, 104, 113, 115, 123}
ServerNone   == {0, 3, 64, 126}
ServerNormal == {1, 2, 10, 86, 96, 98, 102, 111}

Encryption(opcode, none, normal) ==
    IF opcode \in none THEN "NONE" ELSE IF opcode \in normal THEN "NORMAL" ELSE "MD5"

ClientType(opcode) == Encryption(opcode, ClientNone, ClientNormal)
ServerType(opcode) == Encryption(opcode, ServerNone, ServerNormal)

GenerateKey(a, b) ==
    [i \in 1 .. KEY_LENGTH |-> KeySalts[((i - 1) * (9 * (i - 1) + b * b) + a) % 1024]]

KeyOf(type, a, b) == IF type = "NORMAL" THEN Key ELSE GenerateKey(a, b)

(* The salt changes after as many bytes as the object's own key has, even  *)
(* when the packet has a key of its own.                                   *)
SaltIndex(i) == ((i - 1) \div Len(Key)) % 256

Mask(i, key, sequence) ==
    LET salted == ByteXor(Salts[SaltIndex(i)], key[((i - 1) % Len(key)) + 1])
    IN  IF SaltIndex(i) = sequence THEN salted ELSE ByteXor(salted, Salts[sequence])

Transform(buffer, key, sequence) ==
    [i \in 1 .. Len(buffer) |-> ByteXor(buffer[i], Mask(i, key, sequence))]

(* The first bytes of a packet, without its tail                           *)
Body(packet, tail) == SubSeq(packet, 1, Len(packet) - tail)
-----------------------------------------------------------------------------
(* From the server to the client: a tail of three bytes, in which both     *)
(* random values of the packet are hidden.                                 *)

ServerEncrypt(body, opcode, sequence, a, b) ==
    LET type == ServerType(opcode) IN
    IF type = "NONE" THEN body
    ELSE Transform(body, KeyOf(type, a, b), sequence)
           \o <<ByteXor(a % 256, 116), ByteXor(b, 36), ByteXor(a \div 256, 100)>>

TooShort(packet, opcode) == ServerType(opcode) # "NONE" /\ Len(packet) < 3

ClientDecrypt(packet, opcode, sequence) ==
    LET type == ServerType(opcode)
        n    == Len(packet) - 3
        a    == ByteXor(packet[n + 3], 100) * 256 + ByteXor(packet[n + 1], 116)
        b    == ByteXor(packet[n + 2], 36)
    IN  IF type = "NONE" THEN packet
        ELSE Transform(Body(packet, 3), KeyOf(type, a, b), sequence)
-----------------------------------------------------------------------------
(* From the client to the server: a zero, in an MD5 packet also the        *)
(* opcode, encrypted with the body; then four bytes of a digest and the    *)
(* three of the tail.                                                      *)

Padding(type, opcode) == IF type = "NORMAL" THEN <<0>> ELSE <<0, opcode>>

ClientEncrypt(body, opcode, sequence, a, b) ==
    LET type   == ClientType(opcode)
        hidden == Transform(body \o Padding(type, opcode), KeyOf(type, a, b), sequence)
    IN  IF type = "NONE" THEN body
        ELSE hidden
               \o [k \in 1 .. 4 |-> Digest(opcode, sequence, hidden, <<13, 3, 11, 7>>[k])]
               \o <<ByteXor(a % 256, 112), ByteXor(b, 35), ByteXor((a \div 256) % 256, 116)>>

(* server_decrypt of what the client wrote, which is never too short: its  *)
(* ValueError for a shorter body is left out.                              *)
ServerDecrypt(packet, opcode, sequence) ==
    LET type == ClientType(opcode)
        n    == Len(packet) - 7
        a    == ByteXor(packet[n + 7], 116) * 256 + ByteXor(packet[n + 5], 112)
        b    == ByteXor(packet[n + 6], 35)
    IN  IF type = "NONE" THEN packet
        ELSE Transform(Body(packet, IF type = "NORMAL" THEN 8 ELSE 9),
                       KeyOf(type, a, b), sequence)
=============================================================================
