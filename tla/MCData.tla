------------------------------- MODULE MCData -------------------------------
(* Instances of DataPath for TLC: the bytes are all 256, the key is the    *)
(* default one and the salt table is the first, which is the identity.     *)
EXTENDS DataPath, Bitwise

XorTable == [x \in Byte |-> [y \in Byte |-> x ^^ y]]
XorByte(x, y) == XorTable[x][y]

DefaultKey == <<85, 114, 107, 99, 110, 73, 116, 110, 73>>
FirstSalts == [x \in Byte |-> x]
SomeKeySalts == [i \in 0 .. 1023 |-> (i * i + 48) % 103]
SomeDigest(opcode, sequence, hidden, k) == (opcode + sequence + Len(hidden) + k) % 256

Member(name, class, guilded, status, own) ==
    [name |-> <<name>>, class |-> class, isGuilded |-> guilded, status |-> status, own |-> own]

(* The tracker is "M"; the server calls it "m".                            *)
ProbeName == <<77>>
Own       == Member(109, 0, FALSE, 0, TRUE)
Awake     == Member(97, 1, TRUE, 0, FALSE)
Away      == Member(98, 1, FALSE, 2, FALSE)
Hunter    == Member(66, 6, TRUE, 5, FALSE)

SomeWorlds == {<<>>, <<Awake, Own, Away>>, <<Hunter, Own>>}

(* The sequence number of the list is 0: the byte wraps.                   *)
OneDraw == {[sequence |-> 255, a |-> 65534, b |-> 254]}

(* Tables at first use: none, and one whose first row is older than the    *)
(* column active.                                                          *)
Counts(total, active) ==
    [f \in Fields |-> IF f = "active" THEN active
                      ELSE IF f \in {"total", "monk"} THEN total ELSE 0]

OldTables ==
    {<<>>, <<[at |-> 0, counts |-> Counts(2, NULL)], [at |-> 1, counts |-> Counts(5, 3)]>>}
=============================================================================
