----------------------------- MODULE DataProofs -----------------------------
(***************************************************************************)
(* Proofs about DataPath, for any worlds, faults and tables of an earlier  *)
(* version, any number of runs, and any way of cutting the stream.         *)
(*                                                                         *)
(* parse_frames, parse_world_list and the sums of export are loops: what   *)
(* holds after each of their turns is shown by induction over the turns    *)
(* (UpTo, from the well-founded order of the numbers).  That the bytes of  *)
(* the digest are bytes is a hypothesis (DigestIsBytes, CipherProofs).     *)
(***************************************************************************)
EXTENDS DataPath, CipherProofs, FiniteSetTheorems, SequenceTheorems

(* A set of numbers has a least one.                                       *)
LEMMA Least ==
    ASSUME NEW T, T \subseteq Nat, T # {}
    PROVE  \E x \in T : \A y \in T : x <= y
<1>1. PICK x \in T : \A y \in T : ~(<<y, x>> \in OpToRel(<, Nat))
  BY NatLessThanWellFounded, WFMin
<1>2. \A y \in T : ~(y < x)
  BY <1>1 DEF OpToRel
<1> QED BY <1>2

(* Induction, over a set: the theorem of the library takes a predicate.    *)
LEMMA Induction ==
    ASSUME NEW S, S \subseteq Nat, 0 \in S, \A n \in S : n + 1 \in S
    PROVE  Nat \subseteq S
<1> SUFFICES ASSUME Nat \ S # {} PROVE FALSE
  OBVIOUS
<1>1. PICK x \in Nat \ S : \A y \in Nat \ S : x <= y
  BY Least
<1>2. x - 1 \in Nat
  BY <1>1
<1>3. x - 1 \in S
  BY <1>1, <1>2
<1> QED BY <1>3, <1>1

LEMMA UpTo ==
    ASSUME NEW m \in Nat, NEW S, 0 \in S, \A n \in 0 .. m - 1 : n \in S => n + 1 \in S
    PROVE  0 .. m \subseteq S
<1> DEFINE T == {n \in Nat : n <= m => n \in S}
<1>1. T \subseteq Nat /\ 0 \in T
  OBVIOUS
<1>2. ASSUME NEW n \in T PROVE n + 1 \in T
  OBVIOUS
<1>3. Nat \subseteq T
  <2> HIDE DEF T
  <2> QED BY <1>1, <1>2, Induction
<1> QED BY <1>3

(* A loop of n turns, each of which makes the next state of the last one   *)
IsLoop(f, n, start, step) == f[0] = start /\ \A k \in 1 .. n : f[k] = step[<<k, f[k - 1]>>]

LEMMA Loop ==
    ASSUME NEW V, NEW m \in Nat, NEW start \in V, NEW step \in [(1 .. m) \X V -> V]
    PROVE  \E f \in [0 .. m -> V] : IsLoop(f, m, start, step)
<1> DEFINE Runs(n, f) == IsLoop(f, n, start, step)
           S == {n \in 0 .. m : \E f \in [0 .. n -> V] : Runs(n, f)}
<1>1. 0 \in S
  <2> DEFINE g == [n \in 0 .. 0 |-> start]
  <2>1. g \in [0 .. 0 -> V] /\ g[0] = start
    OBVIOUS
  <2>2. Runs(0, g)
    BY <2>1 DEF IsLoop
  <2>3. 0 \in 0 .. m
    OBVIOUS
  <2> HIDE DEF g, Runs
  <2> QED BY <2>1, <2>2, <2>3
<1>2. ASSUME NEW n \in 0 .. m - 1, n \in S PROVE n + 1 \in S
  <2>1. PICK f \in [0 .. n -> V] : Runs(n, f)
    BY <1>2
  <2> DEFINE g == [k \in 0 .. n + 1 |-> IF k <= n THEN f[k] ELSE step[<<n + 1, f[n]>>]]
  <2>2. f[n] \in V /\ step[<<n + 1, f[n]>>] \in V
    <3>1. f[n] \in V
      OBVIOUS
    <3>2. <<n + 1, f[n]>> \in (1 .. m) \X V
      BY <3>1
    <3> QED BY <3>1, <3>2
  <2>3. g \in [0 .. n + 1 -> V]
    BY <2>2
  <2>4. g[0] = start
    BY <2>1 DEF IsLoop
  <2>5. ASSUME NEW k \in 1 .. n + 1 PROVE g[k] = step[<<k, g[k - 1]>>]
    <3>1. k - 1 \in 0 .. n /\ g[k - 1] = f[k - 1]
      OBVIOUS
    <3>2. CASE k <= n
      <4>1. g[k] = f[k] /\ k \in 1 .. n
        BY <3>2
      <4>2. f[k] = step[<<k, f[k - 1]>>]
        BY <2>1, <4>1 DEF IsLoop
      <4> QED BY <3>1, <4>1, <4>2
    <3>3. CASE k = n + 1
      <4>1. g[k] = step[<<n + 1, f[n]>>] /\ k - 1 = n
        BY <3>3
      <4> QED BY <3>1, <3>3, <4>1
    <3>4. k <= n \/ k = n + 1
      OBVIOUS
    <3> QED BY <3>2, <3>3, <3>4
  <2>6. Runs(n + 1, g)
    <3> HIDE DEF g
    <3> QED BY <2>4, <2>5 DEF IsLoop
  <2>7. n + 1 \in 0 .. m
    OBVIOUS
  <2> HIDE DEF g, Runs
  <2> QED BY <2>3, <2>6, <2>7
<1>3. m \in S
  <2> HIDE DEF S
  <2> QED BY <1>1, <1>2, UpTo
<1> QED BY <1>3
-----------------------------------------------------------------------------
Below(S, x) == {y \in S : y < x}

(* The number of elements below an element tells its place.                *)
LEMMA Ranks ==
    ASSUME NEW S \in SUBSET Int, IsFiniteSet(S)
    PROVE  /\ Cardinality(S) \in Nat
           /\ \A x \in S : Cardinality(Below(S, x)) \in 0 .. Cardinality(S) - 1
           /\ \A x, y \in S : x < y => Cardinality(Below(S, x)) < Cardinality(Below(S, y))
<1>0. \A x \in S : x \in Int
  OBVIOUS
<1>1. Cardinality(S) \in Nat
  BY FS_CardinalityType
<1>2. \A x \in S : IsFiniteSet(Below(S, x)) /\ Cardinality(Below(S, x)) \in Nat
  BY FS_Subset, FS_CardinalityType DEF Below
<1>3. ASSUME NEW x \in S, NEW T, IsFiniteSet(T), Below(S, x) \subseteq T, x \in T
      PROVE  Cardinality(Below(S, x)) < Cardinality(T)
  <2>1. x \notin Below(S, x)
    BY DEF Below
  <2>2. IsFiniteSet(Below(S, x) \cup {x})
        /\ Cardinality(Below(S, x) \cup {x}) = Cardinality(Below(S, x)) + 1
    BY <1>2, <2>1, FS_AddElement
  <2>3. Below(S, x) \cup {x} \in SUBSET T
    BY <1>3
  <2>4. Cardinality(Below(S, x) \cup {x}) <= Cardinality(T)
    BY <1>3, <2>3, FS_Subset
  <2>5. Cardinality(T) \in Nat
    BY <1>3, FS_CardinalityType
  <2> QED BY <1>2, <2>2, <2>4, <2>5
<1>4. ASSUME NEW x \in S PROVE Cardinality(Below(S, x)) < Cardinality(S)
  <2>1. Below(S, x) \subseteq S
    BY DEF Below
  <2> QED BY <2>1, <1>3
<1>5. ASSUME NEW x \in S, NEW y \in S, x < y
      PROVE  Cardinality(Below(S, x)) < Cardinality(Below(S, y))
  <2>1. ASSUME NEW z \in Below(S, x) PROVE z \in Below(S, y)
    <3>1. z \in S /\ z < x
      BY DEF Below
    <3>2. z \in Int /\ x \in Int /\ y \in Int
      BY <1>0, <3>1
    <3>3. z < y
      BY <3>1, <3>2, <1>5
    <3> QED BY <3>1, <3>3 DEF Below
  <2>2. x \in Below(S, y)
    BY <1>5 DEF Below
  <2> QED BY <2>1, <2>2, <1>2, <1>3
<1> QED BY <1>1, <1>2, <1>4, <1>5

LEMMA Initial ==
    ASSUME NEW n \in Nat
    PROVE  IsFiniteSet(0 .. n - 1) /\ Cardinality(0 .. n - 1) = n
<1>1. IsFiniteSet(0 .. n - 1)
      /\ Cardinality(0 .. n - 1) = IF 0 > n - 1 THEN 0 ELSE (n - 1) - 0 + 1
  BY FS_Interval
<1> QED BY <1>1

(* Nth is the element with k - 1 elements below it; it goes up with k; and *)
(* every element is the k-th for some k.                                   *)
LEMMA NthExists ==
    ASSUME NEW S \in SUBSET Int, IsFiniteSet(S), NEW k \in 1 .. Cardinality(S)
    PROVE  Nth(S, k) \in S /\ Cardinality(Below(S, Nth(S, k))) = k - 1
<1>0. Cardinality(S) \in Nat
  BY FS_CardinalityType
<1>1. \E x \in S : Cardinality(Below(S, x)) = k - 1
  <2> SUFFICES ASSUME \A x \in S : Cardinality(Below(S, x)) # k - 1 PROVE FALSE
    OBVIOUS
  <2> DEFINE f == [x \in S |-> Cardinality(Below(S, x))]
             T == (0 .. Cardinality(S) - 1) \ {k - 1}
  <2>1. f \in [S -> T]
    BY Ranks
  <2>2. IsFiniteSet(T) /\ Cardinality(T) = Cardinality(S) - 1
    <3>1. IsFiniteSet(0 .. Cardinality(S) - 1)
          /\ Cardinality(0 .. Cardinality(S) - 1) = Cardinality(S)
      BY <1>0, Initial
    <3>2. k - 1 \in 0 .. Cardinality(S) - 1
      BY <1>0
    <3>3. IsFiniteSet(T) /\ Cardinality(T) = Cardinality(0 .. Cardinality(S) - 1) - 1
      BY <3>1, <3>2, FS_RemoveElement
    <3> QED BY <3>1, <3>3
  <2>3. PICK x, y \in S : x # y /\ f[x] = f[y]
    <3>1. Cardinality(T) < Cardinality(S)
      BY <1>0, <2>2
    <3> HIDE DEF f, T
    <3> QED BY <2>1, <2>2, <3>1, FS_PigeonHole
  <2>4. Cardinality(Below(S, x)) = Cardinality(Below(S, y))
    BY <2>3
  <2>5. Cardinality(Below(S, x)) \in Int /\ Cardinality(Below(S, y)) \in Int
    BY Ranks
  <2>6. x < y \/ y < x
    BY <2>3
  <2> QED BY <2>4, <2>5, <2>6, Ranks
<1> QED BY <1>1 DEF Nth, Below

LEMMA NthUp ==
    ASSUME NEW S \in SUBSET Int, IsFiniteSet(S),
           NEW k \in 1 .. Cardinality(S), NEW l \in 1 .. Cardinality(S), k < l
    PROVE  Nth(S, k) < Nth(S, l)
<1>1. /\ Nth(S, k) \in S /\ Cardinality(Below(S, Nth(S, k))) = k - 1
      /\ Nth(S, l) \in S /\ Cardinality(Below(S, Nth(S, l))) = l - 1
  BY NthExists
<1>2. Cardinality(S) \in Nat
  BY FS_CardinalityType
<1>3. Nth(S, k) # Nth(S, l)
  BY <1>1, <1>2
<1>4. ~(Nth(S, l) < Nth(S, k))
  <2> SUFFICES ASSUME Nth(S, l) < Nth(S, k) PROVE FALSE
    OBVIOUS
  <2>1. Cardinality(Below(S, Nth(S, l))) < Cardinality(Below(S, Nth(S, k)))
    BY <1>1, Ranks
  <2> QED BY <1>1, <1>2, <2>1
<1>5. Nth(S, k) \in Int /\ Nth(S, l) \in Int
  BY <1>1
<1> QED BY <1>3, <1>4, <1>5

LEMMA NthOnto ==
    ASSUME NEW S \in SUBSET Int, IsFiniteSet(S), NEW x \in S
    PROVE  \E k \in 1 .. Cardinality(S) : Nth(S, k) = x
<1> DEFINE k == Cardinality(Below(S, x)) + 1
<1>1. k \in 1 .. Cardinality(S) /\ Cardinality(S) \in Nat
  BY Ranks
<1>2. Nth(S, k) \in S /\ Cardinality(Below(S, Nth(S, k))) = k - 1
  <2> HIDE DEF k
  <2> QED BY <1>1, NthExists
<1>3. Cardinality(Below(S, x)) \in Int
  BY Ranks
<1>4. Cardinality(Below(S, Nth(S, k))) = Cardinality(Below(S, x))
  BY <1>2, <1>3
<1>5. Nth(S, k) = x
  <2>1. ~(Nth(S, k) < x) /\ ~(x < Nth(S, k))
    <3>1. Cardinality(Below(S, Nth(S, k))) \in Int
      BY <1>2, Ranks
    <3>2. Nth(S, k) < x => Cardinality(Below(S, Nth(S, k))) < Cardinality(Below(S, x))
      BY <1>2, Ranks
    <3>3. x < Nth(S, k) => Cardinality(Below(S, x)) < Cardinality(Below(S, Nth(S, k)))
      BY <1>2, Ranks
    <3> HIDE DEF k
    <3> QED BY <3>1, <3>2, <3>3, <1>3, <1>4
  <2>2. Nth(S, k) \in Int /\ x \in Int
    BY <1>2
  <2> QED BY <2>1, <2>2
<1> QED BY <1>1, <1>5
-----------------------------------------------------------------------------
FrameSet == [opcode : Byte, sequence : Byte, body : Seq(Byte)]
ParseStates == [frames : Seq(FrameSet), left : Seq(Byte), raised : {"no", "ValueError", "IndexError"}]

LEMMA ByteIs == 0 \in Byte /\ \A b \in Byte : b \in Nat /\ b <= 255
  BY DEF Byte

(* A part of bytes is bytes.                                               *)
LEMMA SubBytes ==
    ASSUME NEW s \in Seq(Byte), NEW m \in Nat \ {0}, NEW n \in Int, n <= Len(s)
    PROVE  /\ SubSeq(s, m, n) \in Seq(Byte)
           /\ Len(SubSeq(s, m, n)) = IF m <= n THEN n - m + 1 ELSE 0
           /\ \A i \in 1 .. n - m + 1 : SubSeq(s, m, n)[i] = s[m + i - 1]
<1>1. \A i \in m .. n : s[i] \in Byte
  OBVIOUS
<1> QED BY <1>1, SubSeqProperties

LEMMA TotalType ==
    ASSUME NEW bytes \in Seq(Byte), Len(bytes) > 3
    PROVE  Total(bytes) \in Int /\ Total(bytes) >= 3
<1>1. bytes[2] \in Byte /\ bytes[3] \in Byte
  OBVIOUS
<1>2. bytes[2] \in Nat /\ bytes[3] \in Nat
  BY <1>1, ByteIs
<1>3. Total(bytes) = bytes[2] * 256 + bytes[2 + 1] + 3
  BY DEF Total, Uint16, HEADER_LENGTH
<1> QED BY <1>2, <1>3

(* One turn of parse_frames, from any bytes, gives frames of bytes and     *)
(* leaves bytes.                                                           *)
LEMMA ParseTurnType ==
    ASSUME NEW s \in ParseStates
    PROVE  ParseTurn(s) \in ParseStates
<1> DEFINE bytes == s.left
<1>1. bytes \in Seq(Byte) /\ Len(bytes) \in Nat
  BY DEF ParseStates
<1>2. CASE s.raised # "no" \/ Len(bytes) <= HEADER_LENGTH \/ Len(bytes) < Total(bytes)
  BY <1>2 DEF ParseTurn
<1>3. CASE /\ ~(s.raised # "no" \/ Len(bytes) <= HEADER_LENGTH \/ Len(bytes) < Total(bytes))
           /\ bytes[1] # SIGNATURE
  <2>1. ParseTurn(s) = [s EXCEPT !.frames = <<>>, !.raised = "ValueError"]
    BY <1>3 DEF ParseTurn
  <2>2. ParseTurn(s) = [frames |-> <<>>, left |-> s.left, raised |-> "ValueError"]
    BY <2>1 DEF ParseStates
  <2> QED BY <1>1, <2>2 DEF ParseStates
<1>4. CASE /\ ~(s.raised # "no" \/ Len(bytes) <= HEADER_LENGTH \/ Len(bytes) < Total(bytes))
           /\ bytes[1] = SIGNATURE
           /\ ServerType(bytes[4]) # "NONE" /\ Len(bytes) < 5
  <2>1. ParseTurn(s) = [s EXCEPT !.frames = <<>>, !.raised = "IndexError"]
    BY <1>4 DEF ParseTurn
  <2>2. ParseTurn(s) = [frames |-> <<>>, left |-> s.left, raised |-> "IndexError"]
    BY <2>1 DEF ParseStates
  <2> QED BY <1>1, <2>2 DEF ParseStates
<1>5. CASE /\ ~(s.raised # "no" \/ Len(bytes) <= HEADER_LENGTH \/ Len(bytes) < Total(bytes))
           /\ bytes[1] = SIGNATURE
           /\ ~(ServerType(bytes[4]) # "NONE" /\ Len(bytes) < 5)
  <2>1. ParseTurn(s) = [s EXCEPT !.frames = Append(@, FrameAt(bytes)),
                                 !.left = Rest(bytes, Total(bytes))]
    BY <1>5 DEF ParseTurn
  <2>2. Total(bytes) \in Int /\ Total(bytes) >= 3 /\ Total(bytes) <= Len(bytes)
    BY <1>1, <1>5, TotalType DEF HEADER_LENGTH
  <2>3. bytes[4] \in Byte /\ 0 \in Byte
    <3>1. 4 \in 1 .. Len(bytes)
      BY <1>1, <1>5 DEF HEADER_LENGTH
    <3> HIDE DEF bytes
    <3> QED BY <1>1, <3>1, ByteIs
  <2>4. ServerType(bytes[4]) # "NONE" => bytes[5] \in Byte
    BY <1>1, <1>5
  <2>5. SubSeq(bytes, 6, Total(bytes)) \in Seq(Byte) /\ SubSeq(bytes, 5, Total(bytes)) \in Seq(Byte)
    BY <1>1, <2>2, SubBytes
  <2>6. FrameAt(bytes) \in FrameSet
    BY <2>3, <2>4, <2>5 DEF FrameAt, FrameSet
  <2>7. Rest(bytes, Total(bytes)) \in Seq(Byte)
    BY <1>1, <2>2, SubBytes DEF Rest
  <2>8. ParseTurn(s) = [frames |-> Append(s.frames, FrameAt(bytes)),
                        left |-> Rest(bytes, Total(bytes)), raised |-> s.raised]
    BY <2>1 DEF ParseStates
  <2>9. Append(s.frames, FrameAt(bytes)) \in Seq(FrameSet)
    BY <2>6, AppendProperties DEF ParseStates
  <2> QED BY <2>7, <2>8, <2>9 DEF ParseStates
<1> QED BY <1>2, <1>3, <1>4, <1>5

Fresh(bytes) == [frames |-> <<>>, left |-> bytes, raised |-> "no"]

(* parse_frames is that many turns, one after the other.                   *)
LEMMA ParseLoop ==
    ASSUME NEW bytes \in Seq(Byte)
    PROVE  \E after \in [0 .. Len(bytes) -> ParseStates] :
             /\ after[0] = Fresh(bytes)
             /\ \A n \in 1 .. Len(bytes) : after[n] = ParseTurn(after[n - 1])
             /\ ParseFrames(bytes) = after[Len(bytes)]
<1> DEFINE m == Len(bytes)
           start == [frames |-> <<>>, left |-> bytes, raised |-> "no"]
           step == [x \in (1 .. m) \X ParseStates |-> ParseTurn(x[2])]
           Eq(f) == f = [n \in 0 .. m |-> IF n = 0 THEN start ELSE ParseTurn(f[n - 1])]
           after == CHOOSE f : Eq(f)
<1>1. m \in Nat /\ start \in ParseStates
  BY DEF ParseStates
<1>2. step \in [(1 .. m) \X ParseStates -> ParseStates]
  BY ParseTurnType
<1>3. PICK f \in [0 .. m -> ParseStates] :
        f[0] = start /\ \A n \in 1 .. m : f[n] = step[<<n, f[n - 1]>>]
  <2> HIDE DEF m, start, step, Eq, after
  <2>1. \E f \in [0 .. m -> ParseStates] : IsLoop(f, m, start, step)
    BY <1>1, <1>2, Loop
  <2> QED BY <2>1 DEF IsLoop
<1>4. ASSUME NEW n \in 1 .. m PROVE step[<<n, f[n - 1]>>] = ParseTurn(f[n - 1])
  <2>1. n - 1 \in 0 .. m
    BY <1>1
  <2>2. f[n - 1] \in ParseStates
    BY <2>1
  <2> QED BY <2>2
<1>5. Eq(f)
  <2> HIDE DEF start, step
  <2> QED BY <1>1, <1>3, <1>4
<1>6. Eq(after)
  <2> HIDE DEF Eq
  <2> QED BY <1>5
<1>7. after[0] = start /\ \A n \in 1 .. m : after[n] = ParseTurn(after[n - 1])
  <2> HIDE DEF start, after
  <2> QED BY <1>1, <1>6
<1>8. ParseFrames(bytes) = after[m]
  BY DEF ParseFrames
<1>9. \A n \in 0 .. m : after[n] \in ParseStates
  <2> DEFINE S == {n \in 0 .. m : after[n] \in ParseStates}
  <2> HIDE DEF after, start
  <2>1. 0 \in S
    BY <1>1, <1>7
  <2>2. ASSUME NEW n \in 0 .. m - 1, n \in S PROVE n + 1 \in S
    <3>1. after[n + 1] = ParseTurn(after[n])
      BY <1>1, <1>7
    <3> QED BY <1>1, <2>2, <3>1, ParseTurnType
  <2>3. 0 .. m \subseteq S
    <3> HIDE DEF S
    <3> QED BY <1>1, <2>1, <2>2, UpTo
  <2> QED BY <2>3
<1>10. after \in [0 .. m -> ParseStates]
  <2> HIDE DEF after, start
  <2> QED BY <1>6, <1>9
<1> HIDE DEF after
<1> QED BY <1>7, <1>8, <1>10 DEF Fresh
-----------------------------------------------------------------------------
MemberSet == [class : 0 .. 7, isGuilded : BOOLEAN, status : Byte, name : Seq(Byte)]
EntryStates == [at : Nat \ {0}, members : Seq(MemberSet), raised : {"no", "ValueError"}]

(* One entry of parse_world_list, likewise.                                *)
LEMMA EntryTurnType ==
    ASSUME NEW data \in Seq(Byte), NEW s \in EntryStates
    PROVE  EntryTurn(data, s) \in EntryStates
<1> DEFINE i == s.at
           name == i + 5 + data[i + 3]
<1>1. i \in Nat \ {0} /\ s.members \in Seq(MemberSet) /\ s.raised \in {"no", "ValueError"}
  BY DEF EntryStates
<1>2. CASE s.raised # "no"
  BY <1>2 DEF EntryTurn
<1>3. CASE s.raised = "no" /\ ~EntryFits(data, i)
  <2>1. EntryTurn(data, s) = [s EXCEPT !.raised = "ValueError"]
    BY <1>3 DEF EntryTurn
  <2>2. EntryTurn(data, s) = [at |-> s.at, members |-> s.members, raised |-> "ValueError"]
    BY <2>1 DEF EntryStates
  <2> QED BY <1>1, <2>2 DEF EntryStates
<1>4. CASE s.raised = "no" /\ EntryFits(data, i)
  <2>0. i + 3 <= Len(data) /\ name <= Len(data) /\ name + data[name] <= Len(data)
    BY <1>4 DEF EntryFits
  <2>1. data[i] \in Byte /\ data[i + 2] \in Byte /\ data[i + 3] \in Byte
    BY <1>1, <2>0
  <2>2. name \in Nat \ {0}
    <3> HIDE DEF i
    <3>1. data[i + 3] \in Nat
      BY <2>1, ByteIs
    <3> QED BY <1>1, <3>1
  <2>3. data[name] \in Byte
    <3> HIDE DEF name
    <3> QED BY <2>0, <2>2
  <2>4. String8(data, name) \in Seq(Byte)
    <3> HIDE DEF name
    <3> QED BY <2>0, <2>2, <2>3, ByteIs, SubBytes DEF String8
  <2>5. MemberAt(data, i) \in MemberSet
    <3>1. data[i] % 8 \in 0 .. 7
      <4>1. data[i] \in Nat
        BY <2>1, ByteIs
      <4> QED BY <4>1
    <3>2. MemberAt(data, i) = [class |-> data[i] % 8, isGuilded |-> (data[i] \div 8) % 2 # 0,
                               status |-> data[i + 2], name |-> String8(data, name)]
      BY DEF MemberAt
    <3> QED BY <2>1, <2>4, <3>1, <3>2 DEF MemberSet
  <2>6. EntryTurn(data, s) = [s EXCEPT !.at = name + data[name] + 1,
                                       !.members = Append(@, MemberAt(data, i))]
    BY <1>4 DEF EntryTurn
  <2>7. EntryTurn(data, s) = [at |-> name + data[name] + 1,
                              members |-> Append(s.members, MemberAt(data, i)), raised |-> s.raised]
    <3> HIDE DEF name
    <3> QED BY <2>6 DEF EntryStates
  <2>8. Append(s.members, MemberAt(data, i)) \in Seq(MemberSet)
    BY <1>1, <2>5, AppendProperties
  <2>9. name + data[name] + 1 \in Nat \ {0}
    <3> HIDE DEF name
    <3> QED BY <2>2, <2>3, ByteIs
  <2> HIDE DEF name, i
  <2> QED BY <1>1, <2>7, <2>8, <2>9 DEF EntryStates
<1> QED BY <1>1, <1>2, <1>3, <1>4

FirstEntry == [at |-> 5, members |-> <<>>, raised |-> "no"]

(* The loop over the entries.                                              *)
LEMMA EntryLoop ==
    ASSUME NEW data \in Seq(Byte), NEW m \in Nat
    PROVE  \E after \in [0 .. m -> EntryStates] :
             /\ after[0] = FirstEntry
             /\ \A n \in 1 .. m : after[n] = EntryTurn(data, after[n - 1])
             /\ Entries(data, m) = after[m]
<1> DEFINE start == [at |-> 5, members |-> <<>>, raised |-> "no"]
           step == [x \in (1 .. m) \X EntryStates |-> EntryTurn(data, x[2])]
           Eq(f) == f = [n \in 0 .. m |-> IF n = 0 THEN start ELSE EntryTurn(data, f[n - 1])]
           after == CHOOSE f : Eq(f)
<1>1. start \in EntryStates
  BY DEF EntryStates
<1>2. step \in [(1 .. m) \X EntryStates -> EntryStates]
  BY EntryTurnType
<1>3. PICK f \in [0 .. m -> EntryStates] :
        f[0] = start /\ \A n \in 1 .. m : f[n] = step[<<n, f[n - 1]>>]
  <2> HIDE DEF start, step, Eq, after
  <2>1. \E f \in [0 .. m -> EntryStates] : IsLoop(f, m, start, step)
    BY <1>1, <1>2, Loop
  <2> QED BY <2>1 DEF IsLoop
<1>4. ASSUME NEW n \in 1 .. m PROVE step[<<n, f[n - 1]>>] = EntryTurn(data, f[n - 1])
  <2>1. n - 1 \in 0 .. m
    OBVIOUS
  <2>2. f[n - 1] \in EntryStates
    BY <2>1
  <2> QED BY <2>2
<1>5. Eq(f)
  <2> HIDE DEF start, step
  <2>1. \A n \in 1 .. m : f[n] = EntryTurn(data, f[n - 1])
    BY <1>3, <1>4
  <2>2. \A n \in 0 .. m : f[n] = IF n = 0 THEN start ELSE EntryTurn(data, f[n - 1])
    BY <1>3, <2>1
  <2> QED BY <2>2
<1>6. Eq(after)
  <2> HIDE DEF Eq
  <2> QED BY <1>5
<1>7. after[0] = start /\ \A n \in 1 .. m : after[n] = EntryTurn(data, after[n - 1])
  <2> HIDE DEF start, after
  <2> QED BY <1>1, <1>6
<1>8. Entries(data, m) = after[m]
  BY DEF Entries
<1>9. \A n \in 0 .. m : after[n] \in EntryStates
  <2> DEFINE S == {n \in 0 .. m : after[n] \in EntryStates}
  <2> HIDE DEF after, start
  <2>1. 0 \in S
    BY <1>1, <1>7
  <2>2. ASSUME NEW n \in 0 .. m - 1, n \in S PROVE n + 1 \in S
    <3>1. after[n + 1] = EntryTurn(data, after[n])
      BY <1>1, <1>7
    <3> QED BY <1>1, <2>2, <3>1, EntryTurnType
  <2>3. 0 .. m \subseteq S
    <3> HIDE DEF S
    <3> QED BY <1>1, <2>1, <2>2, UpTo
  <2> QED BY <2>3
<1>10. after \in [0 .. m -> EntryStates]
  <2> HIDE DEF after, start
  <2> QED BY <1>6, <1>9
<1> HIDE DEF after
<1> QED BY <1>7, <1>8, <1>10 DEF FirstEntry

Parsings == [raised : {"no", "ValueError"}, count : Nat, members : Seq(MemberSet)]

(* parse_world_list of any bytes gives a count and members, or raises.     *)
LEMMA ParseWorldListType ==
    ASSUME NEW data \in Seq(Byte)
    PROVE  ParseWorldList(data) \in Parsings
<1>1. CASE Len(data) < 4
  BY <1>1 DEF ParseWorldList, Parsings
<1>2. CASE ~(Len(data) < 4)
  <2>1. \A k \in 1 .. 4 : data[k] \in Nat
    <3>1. \A k \in 1 .. 4 : data[k] \in Byte
      BY <1>2
    <3> QED BY <3>1, ByteIs
  <2>2. Uint16(data, 1) \in Nat /\ Uint16(data, 3) \in Nat
    <3>1. Uint16(data, 1) = data[1] * 256 + data[2] /\ Uint16(data, 3) = data[3] * 256 + data[4]
      BY DEF Uint16
    <3>2. data[1] \in Nat /\ data[2] \in Nat /\ data[3] \in Nat /\ data[4] \in Nat
      BY <2>1
    <3> DEFINE a == data[1]  b == data[2]  c == data[3]  d == data[4]
    <3>3. Uint16(data, 1) = a * 256 + b /\ Uint16(data, 3) = c * 256 + d
      BY <3>1
    <3>4. a \in Nat /\ b \in Nat /\ c \in Nat /\ d \in Nat
      BY <3>2
    <3> HIDE DEF a, b, c, d
    <3> QED BY <3>3, <3>4
  <2>3. Entries(data, Uint16(data, 3)) \in EntryStates
    <3> DEFINE m == Uint16(data, 3)
    <3>1. m \in Nat
      BY <2>2
    <3> HIDE DEF m
    <3>2. PICK after \in [0 .. m -> EntryStates] :
            /\ after[0] = FirstEntry
            /\ \A n \in 1 .. m : after[n] = EntryTurn(data, after[n - 1])
            /\ Entries(data, m) = after[m]
      BY <3>1, EntryLoop
    <3>3. m \in 0 .. m
      BY <3>1
    <3>4. Entries(data, m) \in EntryStates
      BY <3>2, <3>3
    <3> QED BY <3>4 DEF m
  <2>4. ParseWorldList(data) = [raised |-> Entries(data, Uint16(data, 3)).raised, count |-> Uint16(data, 1),
                                members |-> Entries(data, Uint16(data, 3)).members]
    BY <1>2 DEF ParseWorldList
  <2> QED BY <2>2, <2>3, <2>4 DEF Parsings, EntryStates
<1> QED BY <1>1, <1>2
-----------------------------------------------------------------------------
DrawSet == [sequence : Byte, a : RandomA, b : RandomB]

(* The first sequence number and the random values of a run                *)
LEMMA DrawType == NoDraw \in DrawSet /\ Draws \subseteq DrawSet
<1>1. 0 \in Byte /\ 256 \in RandomA /\ 100 \in RandomB
  BY DEF Byte, RandomA, RandomB
<1>2. NoDraw \in DrawSet
  BY <1>1 DEF NoDraw, DrawSet
<1>3. Draws \subseteq DrawSet
  BY DrawAssumption DEF DrawSet
<1> QED BY <1>2, <1>3

(* What the server and the client write is bytes.                          *)
LEMMA TwoBytesType ==
    ASSUME NEW n \in Nat
    PROVE  /\ TwoBytes(n) \in Seq(Byte) /\ Len(TwoBytes(n)) = 2
           /\ TwoBytes(n)[1] = (n \div 256) % 256 /\ TwoBytes(n)[2] = n % 256
<1>1. (n \div 256) % 256 \in Byte /\ n % 256 \in Byte
  <2>1. PICK q \in Int : q = n \div 256
    OBVIOUS
  <2>2. q % 256 \in 0 .. 255 /\ n % 256 \in 0 .. 255
    BY <2>1
  <2> QED BY <2>1, <2>2 DEF Byte
<1> QED BY <1>1 DEF TwoBytes

LEMMA BuildFrameType ==
    ASSUME NEW type, NEW opcode \in Byte, NEW body \in Seq(Byte), NEW sequence \in Byte
    PROVE  BuildFrame(type, opcode, body, sequence) \in Seq(Byte)
<1>1. Len(body) + 1 \in Nat /\ Len(body) + 2 \in Nat
  OBVIOUS
<1>2. TwoBytes(Len(body) + 1) \in Seq(Byte) /\ TwoBytes(Len(body) + 2) \in Seq(Byte)
  BY <1>1, TwoBytesType
<1>3. <<SIGNATURE>> \in Seq(Byte) /\ <<opcode>> \in Seq(Byte) /\ <<opcode, sequence>> \in Seq(Byte)
  BY DEF SIGNATURE, Byte
<1> QED BY <1>2, <1>3, ConcatProperties DEF BuildFrame

LEMMA PieceType ==
    ASSUME NEW opcode \in Byte, NEW body \in Seq(Byte), NEW sequence \in Byte, NEW d \in DrawSet
    PROVE  LET p == Piece(opcode, body, sequence, d)
           IN  /\ p = [opcode |-> opcode, body |-> body, bytes |-> p.bytes]
               /\ p.bytes \in Seq(Byte)
<1> DEFINE sent == ServerEncrypt(body, opcode, sequence, d.a, d.b)
<1>1. d.a \in RandomA /\ d.b \in RandomB
  BY DEF DrawSet
<1>2. sent \in Seq(Byte)
  BY <1>1, ClientReadsServer
<1>3. BuildFrame(ServerType(opcode), opcode, sent, sequence) \in Seq(Byte)
  <2> HIDE DEF sent
  <2> QED BY <1>2, BuildFrameType
<1>4. Piece(opcode, body, sequence, d) =
        [opcode |-> opcode, body |-> body, bytes |-> BuildFrame(ServerType(opcode), opcode, sent, sequence)]
  BY DEF Piece
<1> HIDE DEF sent
<1> QED BY <1>3, <1>4

LEMMA SmallBytes ==
    /\ \A c \in 0 .. 7 : c + 8 \in Byte /\ c + 0 \in Byte
    /\ \A n \in Nat : n < 256 => n \in Byte
    /\ 255 \in Byte
BY DEF Byte

LEMMA EntryBytesType ==
    ASSUME NEW m \in Person, Len(m.name) < 256
    PROVE  EntryBytes(m) \in Seq(Byte)
<1>1. m.class + (IF m.isGuilded THEN 8 ELSE 0) \in Byte
  <2>1. m.class \in 0 .. 7
    BY DEF Person
  <2>2. m.class + 8 \in Byte /\ m.class + 0 \in Byte
    BY <2>1, SmallBytes
  <2> QED BY <2>2
<1>2. m.status \in Byte /\ m.name \in Seq(Byte)
  BY DEF Person
<1>3. Len(m.name) \in Byte /\ 255 \in Byte /\ 0 \in Byte
  <2>1. Len(m.name) \in Nat
    BY <1>2
  <2> QED BY <2>1, SmallBytes, ByteIs
<1>4. <<m.class + (IF m.isGuilded THEN 8 ELSE 0), 255, m.status, 0, 0, Len(m.name)>> \in Seq(Byte)
  BY <1>1, <1>2, <1>3
<1> QED BY <1>2, <1>4, ConcatProperties DEF EntryBytes

(* The parts one after the other                                           *)
LEMMA JointsLoop ==
    ASSUME NEW parts \in Seq(Seq(Byte))
    PROVE  /\ Joints(parts) \in [0 .. Len(parts) -> Seq(Byte)]
           /\ Joints(parts)[0] = <<>>
           /\ \A k \in 1 .. Len(parts) : Joints(parts)[k] = Joints(parts)[k - 1] \o parts[k]
<1> DEFINE m == Len(parts)
           start == <<>>
           turn(k, x) == x \o parts[k]
           step == [x \in (1 .. m) \X Seq(Byte) |-> turn(x[1], x[2])]
           Eq(f) == f = [k \in 0 .. m |-> IF k = 0 THEN start ELSE turn(k, f[k - 1])]
           upTo == CHOOSE f : Eq(f)
<1>0. m \in Nat /\ start \in Seq(Byte)
  OBVIOUS
<1>1. \A k \in 1 .. m : parts[k] \in Seq(Byte)
  OBVIOUS
<1>2. step \in [(1 .. m) \X Seq(Byte) -> Seq(Byte)]
  <2>1. ASSUME NEW x \in (1 .. m) \X Seq(Byte) PROVE x[2] \o parts[x[1]] \in Seq(Byte)
    <3>1. x[2] \in Seq(Byte) /\ parts[x[1]] \in Seq(Byte)
      BY <1>1
    <3> QED BY <3>1, ConcatProperties
  <2> QED BY <2>1
<1>3. PICK f \in [0 .. m -> Seq(Byte)] :
        f[0] = start /\ \A k \in 1 .. m : f[k] = step[<<k, f[k - 1]>>]
  <2> HIDE DEF m, start, step, turn, Eq, upTo
  <2>1. \E f \in [0 .. m -> Seq(Byte)] : IsLoop(f, m, start, step)
    BY <1>0, <1>2, Loop
  <2> QED BY <2>1 DEF IsLoop
<1>4. ASSUME NEW k \in 1 .. m PROVE step[<<k, f[k - 1]>>] = turn(k, f[k - 1])
  <2>1. k - 1 \in 0 .. m
    BY <1>0
  <2>2. f[k - 1] \in Seq(Byte)
    BY <2>1
  <2> QED BY <2>2
<1>5. Eq(f)
  <2> HIDE DEF m, start, step, turn, upTo
  <2>1. \A k \in 1 .. m : f[k] = turn(k, f[k - 1])
    BY <1>3, <1>4
  <2>2. \A k \in 0 .. m : f[k] = IF k = 0 THEN start ELSE turn(k, f[k - 1])
    BY <1>3, <2>1
  <2> QED BY <2>2
<1>6. Eq(upTo)
  <2> HIDE DEF Eq
  <2> QED BY <1>5
<1>7. upTo[0] = start /\ \A k \in 1 .. m : upTo[k] = turn(k, upTo[k - 1])
  <2> HIDE DEF upTo, m, start, turn
  <2> QED BY <1>0, <1>6
<1>8. Joints(parts) = upTo
  BY DEF Joints
<1>9. \A k \in 0 .. m : upTo[k] \in Seq(Byte)
  <2> DEFINE S == {k \in 0 .. m : upTo[k] \in Seq(Byte)}
  <2> HIDE DEF upTo, m, start, turn
  <2>1. 0 \in S
    BY <1>0, <1>7
  <2>2. ASSUME NEW k \in 0 .. m - 1, k \in S PROVE k + 1 \in S
    <3>1. upTo[k + 1] = turn(k + 1, upTo[k])
      BY <1>0, <1>7
    <3>2. parts[k + 1] \in Seq(Byte) /\ upTo[k] \in Seq(Byte)
      BY <1>0, <1>1, <2>2
    <3>3. upTo[k + 1] \in Seq(Byte)
      BY <3>1, <3>2, ConcatProperties DEF turn
    <3> QED BY <1>0, <3>3
  <2>3. 0 .. m \subseteq S
    <3> HIDE DEF S
    <3> QED BY <1>0, <2>1, <2>2, UpTo
  <2> QED BY <2>3
<1>10. upTo \in [0 .. m -> Seq(Byte)]
  <2> HIDE DEF upTo, m, start, turn
  <2> QED BY <1>6, <1>9
<1> HIDE DEF upTo
<1> QED BY <1>7, <1>8, <1>10

(* Some of the elements of a sequence, in their order                      *)
LEMMA ThoseType ==
    ASSUME NEW X, NEW s \in Seq(X), NEW S \in SUBSET DOMAIN s
    PROVE  /\ Those(s, S) \in Seq(X)
           /\ Len(Those(s, S)) = Cardinality(S)
           /\ DOMAIN Those(s, S) = 1 .. Cardinality(S)
           /\ Cardinality(S) \in 0 .. Len(s)
           /\ S \in SUBSET Int /\ IsFiniteSet(S)
           /\ \A k \in 1 .. Cardinality(S) : Nth(S, k) \in S /\ Those(s, S)[k] = s[Nth(S, k)]
<1>1. S \in SUBSET (1 .. Len(s)) /\ Len(s) \in Nat
  OBVIOUS
<1>2. IsFiniteSet(1 .. Len(s)) /\ Cardinality(1 .. Len(s)) = Len(s)
  <2>1. Cardinality(1 .. Len(s)) = IF 1 > Len(s) THEN 0 ELSE Len(s) - 1 + 1
    BY <1>1, FS_Interval
  <2>2. IsFiniteSet(1 .. Len(s))
    BY <1>1, FS_Interval
  <2> QED BY <1>1, <2>1, <2>2
<1>3. IsFiniteSet(S) /\ Cardinality(S) <= Len(s)
  BY <1>1, <1>2, FS_Subset
<1>4. Cardinality(S) \in Nat
  BY <1>3, FS_CardinalityType
<1>5. S \in SUBSET Int
  BY <1>1
<1>6. \A k \in 1 .. Cardinality(S) : Nth(S, k) \in S
  BY <1>3, <1>5, NthExists
<1>7. \A k \in 1 .. Cardinality(S) : s[Nth(S, k)] \in X
  BY <1>1, <1>6
<1> QED BY <1>1, <1>3, <1>4, <1>5, <1>6, <1>7 DEF Those
-----------------------------------------------------------------------------
LEMMA ModByte == \A n \in Nat : n % 256 \in Byte
BY DEF Byte

LEMMA OneZeroed ==
    ASSUME NEW s \in Seq(Byte)
    PROVE  [s EXCEPT ![1] = 0] \in Seq(Byte)
<1>1. CASE Len(s) > 0
  <2>1. 1 \in 1 .. Len(s)
    BY <1>1
  <2> QED BY <2>1, ByteIs, ExceptSeq
<1>2. CASE Len(s) = 0
  <2>1. s = <<>>
    BY <1>2
  <2>2. [s EXCEPT ![1] = 0] = s
    BY <2>1
  <2> QED BY <2>2
<1> QED BY <1>1, <1>2

Named(shown) == shown \in Seq(Person) /\ \A i \in DOMAIN shown : Len(shown[i].name) < 256

(* A list that the server may send names people of the world, with names   *)
(* whose length fits one byte.                                             *)
LEMMA ShownType ==
    ASSUME NEW world \in Worlds \cup {<<>>}, NEW shown \in Shown(world)
    PROVE  Named(shown) /\ Len(world) \in Nat
<1>1. Named(world)
  <2>1. CASE world \in Worlds
    BY <2>1, WorldAssumption DEF Named
  <2>2. CASE world = <<>>
    BY <2>2 DEF Named
  <2> QED BY <2>1, <2>2
<1>2. OthersIn(world) \in SUBSET DOMAIN world
  BY DEF OthersIn
<1>3. CASE shown = world
  BY <1>1, <1>3 DEF Named
<1>4. CASE shown = Those(world, OthersIn(world))
  <2>1. world \in Seq(Person)
    BY <1>1 DEF Named
  <2>2. /\ shown \in Seq(Person)
        /\ DOMAIN shown = 1 .. Cardinality(OthersIn(world))
        /\ \A k \in 1 .. Cardinality(OthersIn(world)) :
             Nth(OthersIn(world), k) \in OthersIn(world) /\ shown[k] = world[Nth(OthersIn(world), k)]
    BY <1>2, <1>4, <2>1, ThoseType
  <2>3. ASSUME NEW k \in DOMAIN shown PROVE Len(shown[k].name) < 256
    <3>1. shown[k] = world[Nth(OthersIn(world), k)] /\ Nth(OthersIn(world), k) \in DOMAIN world
      BY <1>2, <2>2
    <3> QED BY <1>1, <3>1 DEF Named
  <2> QED BY <2>1, <2>2, <2>3 DEF Named
<1> QED BY <1>1, <1>3, <1>4 DEF Shown, Named

EntryParts(shown) == [i \in DOMAIN shown |-> EntryBytes(shown[i])]

LEMMA EntryPartsType ==
    ASSUME NEW shown, Named(shown)
    PROVE  /\ EntryParts(shown) \in Seq(Seq(Byte)) /\ Len(EntryParts(shown)) = Len(shown)
           /\ \A i \in 1 .. Len(shown) : EntryParts(shown)[i] = EntryBytes(shown[i])
<1>1. shown \in Seq(Person) /\ Len(shown) \in Nat /\ DOMAIN shown = 1 .. Len(shown)
  BY DEF Named
<1>2. ASSUME NEW i \in 1 .. Len(shown) PROVE EntryBytes(shown[i]) \in Seq(Byte)
  BY <1>1, EntryBytesType DEF Named
<1> DEFINE e(i) == EntryBytes(shown[i])
<1> HIDE DEF e
<1>3. [i \in 1 .. Len(shown) |-> e(i)] \in Seq(Seq(Byte)) /\ Len([i \in 1 .. Len(shown) |-> e(i)]) = Len(shown)
  BY <1>1, <1>2 DEF e
<1> QED BY <1>1, <1>3 DEF EntryParts, e

LEMMA ListBytesType ==
    ASSUME NEW shown, Named(shown)
    PROVE  ListBytes(shown) \in Seq(Byte)
<1>1. EntryParts(shown) \in Seq(Seq(Byte)) /\ Len(EntryParts(shown)) = Len(shown) /\ Len(shown) \in Nat
  BY EntryPartsType DEF Named
<1>2. Joints(EntryParts(shown)) \in [0 .. Len(shown) -> Seq(Byte)]
  BY <1>1, JointsLoop
<1>3. ListBytes(shown) = Joints(EntryParts(shown))[Len(shown)]
  BY DEF ListBytes, EntryParts
<1> QED BY <1>1, <1>2, <1>3

LEMMA BodyType ==
    ASSUME NEW count \in Nat, NEW shown, Named(shown)
    PROVE  WorldListBody(count, shown) \in Seq(Byte) /\ Len(WorldListBody(count, shown)) = 4 + Len(ListBytes(shown))
<1>1. /\ TwoBytes(count) \in Seq(Byte) /\ Len(TwoBytes(count)) = 2
      /\ TwoBytes(Len(shown)) \in Seq(Byte) /\ Len(TwoBytes(Len(shown))) = 2
  <2>1. Len(shown) \in Nat
    BY DEF Named
  <2> QED BY <2>1, TwoBytesType
<1>2. ListBytes(shown) \in Seq(Byte)
  BY ListBytesType
<1>3. TwoBytes(count) \o TwoBytes(Len(shown)) \in Seq(Byte) /\ Len(TwoBytes(count) \o TwoBytes(Len(shown))) = 4
  <2> DEFINE s == TwoBytes(count)  t == TwoBytes(Len(shown))
  <2>1. s \in Seq(Byte) /\ t \in Seq(Byte) /\ Len(s) = 2 /\ Len(t) = 2
    BY <1>1
  <2> HIDE DEF s, t
  <2>2. s \o t \in Seq(Byte) /\ Len(s \o t) = Len(s) + Len(t)
    BY <2>1, ConcatProperties
  <2>3. s \o t \in Seq(Byte) /\ Len(s \o t) = 4
    BY <2>1, <2>2
  <2> QED BY <2>3 DEF s, t
<1>4. WorldListBody(count, shown) = (TwoBytes(count) \o TwoBytes(Len(shown))) \o ListBytes(shown)
  BY DEF WorldListBody
<1> DEFINE s == TwoBytes(count) \o TwoBytes(Len(shown))
<1>5. s \in Seq(Byte) /\ Len(s) = 4 /\ WorldListBody(count, shown) = s \o ListBytes(shown)
  BY <1>3, <1>4
<1> HIDE DEF s
<1>6. s \o ListBytes(shown) \in Seq(Byte) /\ Len(s \o ListBytes(shown)) = Len(s) + Len(ListBytes(shown))
  BY <1>2, <1>5, ConcatProperties
<1> QED BY <1>5, <1>6

Pieced == [opcode : Byte \cup {-1}, body : Seq(Byte), bytes : Seq(Byte)]
Sayings == [opcode : Byte \cup {-1}, body : Seq(Byte), end : Nat]

(* What the server sends, piece by piece                                   *)
LEMMA PieceIsPieced ==
    ASSUME NEW opcode \in Byte, NEW body \in Seq(Byte), NEW sequence \in Byte, NEW d \in DrawSet
    PROVE  Piece(opcode, body, sequence, d) \in Pieced
BY PieceType DEF Pieced

LEMMA JunkIsPieced ==
    ASSUME NEW bytes \in Seq(Byte)
    PROVE  Junk(bytes) \in Pieced
BY DEF Pieced, Junk

LEMMA ListPieceType ==
    ASSUME NEW world \in Worlds \cup {<<>>}, NEW shown \in Shown(world), NEW fault, NEW d \in DrawSet
    PROVE  ListPiece(world, shown, fault, d) \in Pieced
<1> DEFINE body  == WorldListBody(Len(world), shown)
           cut   == IF fault = "truncated" THEN SubSeq(body, 1, Len(body) - 1) ELSE body
           piece == Piece(WORLD_LIST, cut, (d.sequence + 1) % 256, d)
<1>1. body \in Seq(Byte) /\ Len(body) \in Nat
  <2>1. body \in Seq(Byte)
    BY ShownType, BodyType
  <2> QED BY <2>1
<1>2. cut \in Seq(Byte)
  <2> HIDE DEF body
  <2> QED BY <1>1, SubBytes
<1>3. (d.sequence + 1) % 256 \in Byte /\ WORLD_LIST \in Byte
  <2>1. d.sequence \in Nat
    BY ByteIs DEF DrawSet
  <2>2. d.sequence + 1 \in Nat
    BY <2>1
  <2>3. WORLD_LIST \in Byte
    BY DEF Byte, WORLD_LIST
  <2> QED BY <2>2, <2>3, ModByte
<1>4. piece \in Pieced
  <2> HIDE DEF cut
  <2> QED BY <1>2, <1>3, PieceIsPieced
<1>5. [piece.bytes EXCEPT ![1] = 0] \in Seq(Byte)
  <2>1. piece.bytes \in Seq(Byte)
    BY <1>4 DEF Pieced
  <2> HIDE DEF piece
  <2> QED BY <2>1, OneZeroed
<1>6. Junk([piece.bytes EXCEPT ![1] = 0]) \in Pieced
  <2> HIDE DEF piece
  <2> QED BY <1>5, JunkIsPieced
<1>7. ListPiece(world, shown, fault, d) = IF fault = "signature" THEN Junk([piece.bytes EXCEPT ![1] = 0]) ELSE piece
  BY DEF ListPiece
<1> HIDE DEF piece
<1> QED BY <1>4, <1>6, <1>7

LEMMA PiecesType ==
    ASSUME NEW world \in Worlds \cup {<<>>}, NEW shown \in Shown(world), NEW fault, NEW d \in DrawSet
    PROVE  Pieces(world, shown, fault, d) \in Seq(Pieced)
<1>1. /\ Unhandled \in Byte /\ HEARTBEAT \in Byte /\ 0 \in Byte
      /\ <<7>> \in Seq(Byte) /\ <<3, 200>> \in Seq(Byte)
      /\ <<SIGNATURE, 0, 0>> \in Seq(Byte) /\ <<SIGNATURE, 0, 1, HEARTBEAT>> \in Seq(Byte)
      /\ <<0, 0, 0, 0>> \in Seq(Byte)
  BY DEF Byte, Unhandled, HEARTBEAT, SIGNATURE
<1>2. d.sequence \in Byte
  BY DEF DrawSet
<1>3. Piece(Unhandled, <<7>>, 0, d) \in Pieced /\ Piece(HEARTBEAT, <<3, 200>>, d.sequence, d) \in Pieced
  BY <1>1, <1>2, PieceIsPieced
<1>4. /\ Junk(<<SIGNATURE, 0, 0>>) \in Pieced /\ Junk(<<SIGNATURE, 0, 1, HEARTBEAT>>) \in Pieced
      /\ Junk(<<0, 0, 0, 0>>) \in Pieced
  BY <1>1, JunkIsPieced
<1>5. ListPiece(world, shown, fault, d) \in Pieced
  BY ListPieceType
<1> DEFINE first  == <<Piece(Unhandled, <<7>>, 0, d), Piece(HEARTBEAT, <<3, 200>>, d.sequence, d)>>
           second == CASE fault = "zero"  -> <<Junk(<<SIGNATURE, 0, 0>>)>>
                       [] fault = "short" -> <<Junk(<<SIGNATURE, 0, 1, HEARTBEAT>>)>>
                       [] OTHER           -> <<>>
           third  == <<ListPiece(world, shown, fault, d)>>
           fourth == IF fault = "trailing" THEN <<Junk(<<0, 0, 0, 0>>)>> ELSE <<>>
<1>6. first \in Seq(Pieced)
  BY <1>3
<1>7. second \in Seq(Pieced)
  <2>1. <<Junk(<<SIGNATURE, 0, 0>>)>> \in Seq(Pieced) /\ <<Junk(<<SIGNATURE, 0, 1, HEARTBEAT>>)>> \in Seq(Pieced)
        /\ <<>> \in Seq(Pieced)
    BY <1>4
  <2> QED BY <2>1
<1>8. third \in Seq(Pieced)
  BY <1>5
<1>9. fourth \in Seq(Pieced)
  BY <1>4
<1>10. Pieces(world, shown, fault, d) = first \o second \o third \o fourth
  BY DEF Pieces
<1> HIDE DEF first, second, third, fourth
<1>11. first \o second \o third \o fourth \in Seq(Pieced)
  <2>1. first \o second \in Seq(Pieced)
    BY <1>6, <1>7, ConcatProperties
  <2>2. first \o second \o third \in Seq(Pieced)
    BY <2>1, <1>8, ConcatProperties
  <2> QED BY <2>2, <1>9, ConcatProperties
<1> QED BY <1>10, <1>11

(* The stream after each piece                                             *)
LEMMA StreamType ==
    ASSUME NEW pieces \in Seq(Pieced)
    PROVE  /\ Stream(pieces) \in [0 .. Len(pieces) -> Seq(Byte)]
           /\ Stream(pieces)[0] = <<>>
           /\ \A k \in 1 .. Len(pieces) : Stream(pieces)[k] = Stream(pieces)[k - 1] \o pieces[k].bytes
<1>1. Len(pieces) \in Nat /\ DOMAIN pieces = 1 .. Len(pieces)
  OBVIOUS
<1> DEFINE parts == [k \in 1 .. Len(pieces) |-> pieces[k].bytes]
<1>2. \A k \in 1 .. Len(pieces) : pieces[k].bytes \in Seq(Byte)
  <2>1. \A k \in 1 .. Len(pieces) : pieces[k] \in Pieced
    OBVIOUS
  <2> QED BY <2>1 DEF Pieced
<1>3. parts \in Seq(Seq(Byte)) /\ Len(parts) = Len(pieces)
  BY <1>1, <1>2
<1>4. \A k \in 1 .. Len(pieces) : parts[k] = pieces[k].bytes
  OBVIOUS
<1>5. Stream(pieces) = Joints(parts)
  BY <1>1 DEF Stream
<1> HIDE DEF parts
<1>6. /\ Joints(parts) \in [0 .. Len(parts) -> Seq(Byte)]
      /\ Joints(parts)[0] = <<>>
      /\ \A k \in 1 .. Len(parts) : Joints(parts)[k] = Joints(parts)[k - 1] \o parts[k]
  BY <1>3, JointsLoop
<1> QED BY <1>3, <1>4, <1>5, <1>6

(* A packet of the client is bytes if the digest is.                       *)
LEMMA SendType ==
    ASSUME NEW opcode \in Byte, NEW body \in Seq(Byte), NEW packets \in Seq(Seq(Byte)), NEW d \in DrawSet,
           DigestIsBytes
    PROVE  Send(opcode, body, packets, d) \in Seq(Seq(Byte))
<1> DEFINE sequence == Len(packets) % 256
           sent == ClientEncrypt(body, opcode, sequence, d.a, d.b)
<1>1. sequence \in Byte
  <2>1. Len(packets) \in Nat
    OBVIOUS
  <2> QED BY <2>1, ModByte
<1>2. d.a \in RandomA /\ d.b \in RandomB
  BY DEF DrawSet
<1>3. sent \in Seq(Byte)
  <2> HIDE DEF sequence
  <2> QED BY <1>1, <1>2, ServerReadsClient
<1>4. BuildFrame(ClientType(opcode), opcode, sent, sequence) \in Seq(Byte)
  <2> HIDE DEF sent, sequence
  <2> QED BY <1>1, <1>3, BuildFrameType
<1>5. Send(opcode, body, packets, d) = Append(packets, BuildFrame(ClientType(opcode), opcode, sent, sequence))
  BY DEF Send
<1> HIDE DEF sent, sequence
<1> QED BY <1>4, <1>5, AppendProperties

(* client_decrypt of any bytes that are not too short gives bytes.         *)
LEMMA DecryptType ==
    ASSUME NEW packet \in Seq(Byte), NEW opcode \in Byte, NEW sequence \in Byte, ~TooShort(packet, opcode)
    PROVE  ClientDecrypt(packet, opcode, sequence) \in Seq(Byte)
<1> DEFINE type == ServerType(opcode)
           n == Len(packet) - 3
           a == ByteXor(packet[n + 3], 100) * 256 + ByteXor(packet[n + 1], 116)
           b == ByteXor(packet[n + 2], 36)
<1>1. CASE type = "NONE"
  BY <1>1 DEF ClientDecrypt
<1>2. CASE type # "NONE"
  <2>1. Len(packet) >= 3 /\ Len(packet) \in Nat
    BY <1>2 DEF TooShort
  <2>2. packet[n + 1] \in Byte /\ packet[n + 2] \in Byte /\ packet[n + 3] \in Byte
    BY <2>1
  <2>3. /\ ByteXor(packet[n + 3], 100) \in Byte /\ ByteXor(packet[n + 1], 116) \in Byte
        /\ ByteXor(packet[n + 2], 36) \in Byte
    BY <2>2, BytesSmall, XorByte
  <2>4. a \in Nat /\ b \in Nat
    <3> DEFINE x == ByteXor(packet[n + 3], 100)
               y == ByteXor(packet[n + 1], 116)
    <3>1. x \in Nat /\ y \in Nat /\ b \in Nat
      BY <2>3, ByteIs
    <3>2. a = x * 256 + y
      OBVIOUS
    <3> HIDE DEF x, y, a, b
    <3> QED BY <3>1, <3>2
  <2>5. KeyOf(type, a, b) \in Seq(Byte) /\ Len(KeyOf(type, a, b)) > 0
    <3> HIDE DEF a, b, type
    <3> QED BY <2>4, KeyIsKey
  <2>6. Body(packet, 3) \in Seq(Byte)
    BY <2>1, SubBytes DEF Body
  <2>7. Transform(Body(packet, 3), KeyOf(type, a, b), sequence) \in Seq(Byte)
    <3> HIDE DEF a, b, type
    <3> QED BY <2>5, <2>6, TransformIsBytes
  <2>8. ClientDecrypt(packet, opcode, sequence) = Transform(Body(packet, 3), KeyOf(type, a, b), sequence)
    BY <1>2 DEF ClientDecrypt
  <2> QED BY <2>7, <2>8
<1> QED BY <1>1, <1>2
-----------------------------------------------------------------------------
HandledSet == [opcode : Handlers, body : Seq(Byte)]
ListSet    == [count : Nat, members : Seq(MemberSet)]
DispatchStates == [phase : {"reading", "list", "raised"}, handled : Seq(HandledSet),
                   said : Seq(Seq(Byte)), list : ListSet]

(* Dispatch of any frame leaves the client with values of their types.     *)
LEMMA DispatchType ==
    ASSUME NEW s \in DispatchStates, NEW frame \in FrameSet, draw \in DrawSet, DigestIsBytes
    PROVE  Dispatch(s, frame) \in DispatchStates
<1> DEFINE body  == ClientDecrypt(frame.body, frame.opcode, frame.sequence)
           entry == [opcode |-> frame.opcode, body |-> body]
           found == ParseWorldList(body)
<1>1. /\ s.phase \in {"reading", "list", "raised"} /\ s.handled \in Seq(HandledSet)
      /\ s.said \in Seq(Seq(Byte)) /\ s.list \in ListSet
      /\ s = [phase |-> s.phase, handled |-> s.handled, said |-> s.said, list |-> s.list]
  BY DEF DispatchStates
<1>2. frame.opcode \in Byte /\ frame.sequence \in Byte /\ frame.body \in Seq(Byte)
  BY DEF FrameSet
<1>3. CASE s.phase # "reading" \/ frame.opcode \notin Handlers
  BY <1>3 DEF Dispatch
<1>4. CASE s.phase = "reading" /\ frame.opcode \in Handlers /\ TooShort(frame.body, frame.opcode)
  <2>1. Dispatch(s, frame) = [s EXCEPT !.phase = "raised"]
    BY <1>4 DEF Dispatch
  <2>2. Dispatch(s, frame) = [phase |-> "raised", handled |-> s.handled, said |-> s.said, list |-> s.list]
    BY <1>1, <2>1
  <2> QED BY <1>1, <2>2 DEF DispatchStates
<1>5. CASE s.phase = "reading" /\ frame.opcode \in Handlers /\ ~TooShort(frame.body, frame.opcode)
  <2>1. body \in Seq(Byte)
    BY <1>2, <1>5, DecryptType
  <2>2. entry \in HandledSet
    <3> HIDE DEF body
    <3> QED BY <1>5, <2>1 DEF HandledSet
  <2>3. Append(s.handled, entry) \in Seq(HandledSet)
    <3> HIDE DEF entry
    <3> QED BY <1>1, <2>2, AppendProperties
  <2>4. CASE frame.opcode = HEARTBEAT /\ ParseHeartbeat(body).raised # "no"
    <3>1. Dispatch(s, frame) = [s EXCEPT !.phase = "raised"]
      BY <1>5, <2>4 DEF Dispatch
    <3>2. Dispatch(s, frame) = [phase |-> "raised", handled |-> s.handled, said |-> s.said, list |-> s.list]
      BY <1>1, <3>1
    <3> QED BY <1>1, <3>2 DEF DispatchStates
  <2>5. CASE frame.opcode = HEARTBEAT /\ ParseHeartbeat(body).raised = "no"
    <3>1. HeartbeatResponse(body) \in Seq(Byte)
      <4> HIDE DEF body
      <4>1. Len(body) >= 2 /\ Len(body) \in Nat
        BY <2>1, <2>5 DEF ParseHeartbeat
      <4>2. body[1] \in Byte /\ body[2] \in Byte
        BY <2>1, <4>1
      <4> QED BY <4>2 DEF HeartbeatResponse
    <3>2. HEARTBEAT_RESPONSE \in Byte
      BY DEF HEARTBEAT_RESPONSE, Byte
    <3> DEFINE sent == Send(HEARTBEAT_RESPONSE, HeartbeatResponse(body), s.said, draw)
    <3>3. sent \in Seq(Seq(Byte))
      <4> HIDE DEF body
      <4> QED BY <1>1, <3>1, <3>2, SendType
    <3>4. Dispatch(s, frame) = [s EXCEPT !.handled = Append(s.handled, entry), !.said = sent]
      BY <1>5, <2>5 DEF Dispatch
    <3> HIDE DEF sent, entry
    <3>5. Dispatch(s, frame) = [phase |-> s.phase, handled |-> Append(s.handled, entry), said |-> sent,
                                list |-> s.list]
      BY <1>1, <3>4
    <3> QED BY <1>1, <2>3, <3>3, <3>5 DEF DispatchStates
  <2>6. CASE frame.opcode # HEARTBEAT /\ found.raised # "no"
    <3>1. Dispatch(s, frame) = [s EXCEPT !.phase = "raised"]
      BY <1>5, <2>6 DEF Dispatch
    <3>2. Dispatch(s, frame) = [phase |-> "raised", handled |-> s.handled, said |-> s.said, list |-> s.list]
      BY <1>1, <3>1
    <3> QED BY <1>1, <3>2 DEF DispatchStates
  <2>7. CASE frame.opcode # HEARTBEAT /\ found.raised = "no"
    <3> DEFINE got == [count |-> found.count, members |-> found.members]
    <3>1. found \in Parsings
      <4> HIDE DEF body
      <4> QED BY <2>1, ParseWorldListType
    <3>2. got \in ListSet
      <4> HIDE DEF found
      <4> QED BY <3>1 DEF Parsings, ListSet
    <3>3. Dispatch(s, frame) = [s EXCEPT !.phase = "list", !.handled = Append(s.handled, entry), !.list = got]
      BY <1>5, <2>7 DEF Dispatch
    <3> HIDE DEF entry, got
    <3>4. Dispatch(s, frame) = [phase |-> "list", handled |-> Append(s.handled, entry), said |-> s.said,
                                list |-> got]
      BY <1>1, <3>3
    <3> QED BY <1>1, <2>3, <3>2, <3>4 DEF DispatchStates
  <2> QED BY <2>4, <2>5, <2>6, <2>7
<1> QED BY <1>3, <1>4, <1>5

ReadingNow == [phase |-> "reading", handled |-> handled, said |-> said, list |-> list]

(* The frames of one read, one after the other                             *)
LEMMA DispatchLoop ==
    ASSUME NEW frames \in Seq(FrameSet), ReadingNow \in DispatchStates, draw \in DrawSet, DigestIsBytes
    PROVE  \E after \in [0 .. Len(frames) -> DispatchStates] :
             /\ after[0] = ReadingNow
             /\ \A k \in 1 .. Len(frames) : after[k] = Dispatch(after[k - 1], frames[k])
             /\ Dispatched(frames) = after[Len(frames)]
<1> DEFINE m == Len(frames)
           start == [phase |-> "reading", handled |-> handled, said |-> said, list |-> list]
           turn(k, x) == Dispatch(x, frames[k])
           step == [x \in (1 .. m) \X DispatchStates |-> turn(x[1], x[2])]
           Eq(f) == f = [k \in 0 .. m |-> IF k = 0 THEN start ELSE turn(k, f[k - 1])]
           after == CHOOSE f : Eq(f)
<1>0. m \in Nat /\ start \in DispatchStates
  BY DEF ReadingNow
<1>1. \A k \in 1 .. m : frames[k] \in FrameSet
  OBVIOUS
<1>2. \A k \in 1 .. m : \A x \in DispatchStates : turn(k, x) \in DispatchStates
  BY <1>1, DispatchType
<1>3. step \in [(1 .. m) \X DispatchStates -> DispatchStates]
  <2> HIDE DEF m, turn
  <2> QED BY <1>2
<1>4. PICK f \in [0 .. m -> DispatchStates] :
        f[0] = start /\ \A k \in 1 .. m : f[k] = step[<<k, f[k - 1]>>]
  <2> HIDE DEF m, start, step, turn, Eq, after
  <2>1. \E f \in [0 .. m -> DispatchStates] : IsLoop(f, m, start, step)
    BY <1>0, <1>3, Loop
  <2> QED BY <2>1 DEF IsLoop
<1>5. ASSUME NEW k \in 1 .. m PROVE step[<<k, f[k - 1]>>] = turn(k, f[k - 1])
  <2> HIDE DEF m, turn
  <2>1. k - 1 \in 0 .. m
    BY <1>0
  <2>2. f[k - 1] \in DispatchStates
    BY <2>1
  <2> QED BY <2>2
<1>6. Eq(f)
  <2> HIDE DEF m, start, step, turn, after
  <2>1. \A k \in 1 .. m : f[k] = turn(k, f[k - 1])
    BY <1>4, <1>5
  <2>2. \A k \in 0 .. m : f[k] = IF k = 0 THEN start ELSE turn(k, f[k - 1])
    BY <1>4, <2>1
  <2> QED BY <2>2
<1>7. Eq(after)
  <2> HIDE DEF Eq
  <2> QED BY <1>6
<1>8. after[0] = start /\ \A k \in 1 .. m : after[k] = turn(k, after[k - 1])
  <2> HIDE DEF after, m, start, turn
  <2> QED BY <1>0, <1>7
<1>9. Dispatched(frames) = after[m]
  BY DEF Dispatched
<1>10. \A k \in 0 .. m : after[k] \in DispatchStates
  <2> DEFINE S == {k \in 0 .. m : after[k] \in DispatchStates}
  <2> HIDE DEF after, m, start, turn
  <2>1. 0 \in S
    BY <1>0, <1>8
  <2>2. ASSUME NEW k \in 0 .. m - 1, k \in S PROVE k + 1 \in S
    <3>1. after[k + 1] = turn(k + 1, after[k])
      BY <1>0, <1>8
    <3>2. after[k + 1] \in DispatchStates
      BY <1>0, <1>2, <2>2, <3>1
    <3> QED BY <1>0, <3>2
  <2>3. 0 .. m \subseteq S
    <3> HIDE DEF S
    <3> QED BY <1>0, <2>1, <2>2, UpTo
  <2> QED BY <2>3
<1>11. after \in [0 .. m -> DispatchStates]
  <2> HIDE DEF after, m, start, turn
  <2> QED BY <1>7, <1>10
<1> HIDE DEF after
<1> QED BY <1>8, <1>9, <1>11 DEF ReadingNow

(* from_world_list gives no count below zero: the count of the list may be *)
(* 0, and the tracker is subtracted only from a count above it.            *)
LEMMA CountedType ==
    ASSUME NEW l \in ListSet
    PROVE  FromWorldList(l, Probe) \in [Fields -> Nat]
<1> DEFINE members == l.members
           others  == IF Probe = <<>> THEN DOMAIN members ELSE Without(members, Probe)
           total   == IF Probe = <<>> THEN l.count ELSE Others(l.count)
<1>1. l.count \in Nat /\ members \in Seq(MemberSet)
  BY DEF ListSet
<1>2. total \in Nat
  BY <1>1 DEF Others
<1>3. others \in SUBSET (1 .. Len(members)) /\ Len(members) \in Nat
  BY <1>1 DEF Without
<1>4. IsFiniteSet(1 .. Len(members))
  BY <1>3, FS_Interval
<1>5. \A T \in SUBSET others : Cardinality(T) \in Nat
  <2> HIDE DEF others
  <2>1. ASSUME NEW T \in SUBSET others PROVE Cardinality(T) \in Nat
    <3>1. T \in SUBSET (1 .. Len(members))
      BY <1>3
    <3> QED BY <1>4, <3>1, FS_Subset, FS_CardinalityType
  <2> QED BY <2>1
<1> DEFINE value(f) == CASE f = "total"  -> total
             [] f = "active" -> Cardinality({i \in others : members[i].status \notin AFK})
             [] OTHER        -> Cardinality({i \in others : ClassName(members[i].class) = f})
<1>6. FromWorldList(l, Probe) = [f \in Fields |-> value(f)]
  BY DEF FromWorldList
<1>7. ASSUME NEW f \in Fields PROVE value(f) \in Nat
  <2> HIDE DEF others, total
  <2>1. /\ {i \in others : members[i].status \notin AFK} \in SUBSET others
        /\ {i \in others : ClassName(members[i].class) = f} \in SUBSET others
    OBVIOUS
  <2>2. /\ Cardinality({i \in others : members[i].status \notin AFK}) \in Nat
        /\ Cardinality({i \in others : ClassName(members[i].class) = f}) \in Nat
    BY <1>5, <2>1
  <2> QED BY <1>2, <2>2
<1> HIDE DEF value
<1> QED BY <1>6, <1>7
-----------------------------------------------------------------------------
Row == [at : 0 .. MaxStep, counts : [Fields -> Count]]

Cell(values, i) == {i} \X (1 .. values[i])
Cells(values, S) == UNION {Cell(values, i) : i \in S}

(* Sum adds the values one by one.                                         *)
LEMMA SumLoop ==
    ASSUME NEW n \in Nat, NEW values, \A k \in DOMAIN values : values[k] \in Nat
    PROVE  \E upTo \in [0 .. n -> Nat] :
             /\ upTo[0] = 0
             /\ \A k \in 1 .. n : upTo[k] = upTo[k - 1] + (IF k \in DOMAIN values THEN values[k] ELSE 0)
             /\ Sum(values, n) = upTo[n]
<1> DEFINE part(k) == IF k \in DOMAIN values THEN values[k] ELSE 0
           turn(k, x) == x + part(k)
           step == [x \in (1 .. n) \X Nat |-> turn(x[1], x[2])]
           Eq(f) == f = [k \in 0 .. n |-> IF k = 0 THEN 0 ELSE turn(k, f[k - 1])]
           upTo == CHOOSE f : Eq(f)
<1>1. \A k : part(k) \in Nat
  OBVIOUS
<1>2. \A k \in 1 .. n : \A x \in Nat : turn(k, x) \in Nat
  <2> HIDE DEF part
  <2> QED BY <1>1
<1>3. step \in [(1 .. n) \X Nat -> Nat]
  <2> HIDE DEF turn
  <2> QED BY <1>2
<1>4. PICK f \in [0 .. n -> Nat] :
        f[0] = 0 /\ \A k \in 1 .. n : f[k] = step[<<k, f[k - 1]>>]
  <2> HIDE DEF step, turn, Eq, upTo
  <2>1. \E f \in [0 .. n -> Nat] : IsLoop(f, n, 0, step)
    BY <1>3, Loop
  <2> QED BY <2>1 DEF IsLoop
<1>5. ASSUME NEW k \in 1 .. n PROVE step[<<k, f[k - 1]>>] = turn(k, f[k - 1])
  <2> HIDE DEF turn
  <2>1. k - 1 \in 0 .. n
    OBVIOUS
  <2>2. f[k - 1] \in Nat
    BY <2>1
  <2> QED BY <2>2
<1>6. Eq(f)
  <2> HIDE DEF step, turn, upTo
  <2>1. \A k \in 1 .. n : f[k] = turn(k, f[k - 1])
    BY <1>4, <1>5
  <2>2. \A k \in 0 .. n : f[k] = IF k = 0 THEN 0 ELSE turn(k, f[k - 1])
    BY <1>4, <2>1
  <2> QED BY <2>2
<1>7. Eq(upTo)
  <2> HIDE DEF Eq
  <2> QED BY <1>6
<1>8. upTo[0] = 0 /\ \A k \in 1 .. n : upTo[k] = turn(k, upTo[k - 1])
  <2> HIDE DEF upTo, turn
  <2> QED BY <1>7
<1>9. Sum(values, n) = upTo[n]
  BY DEF Sum
<1>10. \A k \in 0 .. n : upTo[k] \in Nat
  <2> DEFINE S == {k \in 0 .. n : upTo[k] \in Nat}
  <2> HIDE DEF upTo, turn
  <2>1. 0 \in S
    BY <1>8
  <2>2. ASSUME NEW k \in 0 .. n - 1, k \in S PROVE k + 1 \in S
    <3>1. upTo[k + 1] = turn(k + 1, upTo[k])
      BY <1>8
    <3>0. upTo[k] \in Nat /\ k + 1 \in 1 .. n /\ k + 1 \in 0 .. n
      BY <2>2
    <3>2. upTo[k + 1] \in Nat
      <4>1. turn(k + 1, upTo[k]) \in Nat
        BY <1>2, <3>0
      <4> QED BY <3>1, <4>1
    <3> QED BY <3>0, <3>2
  <2>3. 0 .. n \subseteq S
    <3> HIDE DEF S
    <3> QED BY <2>1, <2>2, UpTo
  <2> QED BY <2>3
<1>11. upTo \in [0 .. n -> Nat]
  <2> HIDE DEF upTo, turn
  <2> QED BY <1>7, <1>10
<1> HIDE DEF upTo
<1> QED BY <1>8, <1>9, <1>11

(* A value is as many cells, and the sum as many as there are of all.      *)
LEMMA CellSize ==
    ASSUME NEW values, NEW i, values[i] \in Nat
    PROVE  IsFiniteSet(Cell(values, i)) /\ Cardinality(Cell(values, i)) = values[i]
<1> DEFINE v == values[i]
           f == [k \in 1 .. v |-> <<i, k>>]
<1>1. IsFiniteSet(1 .. v) /\ Cardinality(1 .. v) = v
  <2>1. IsFiniteSet(1 .. v) /\ Cardinality(1 .. v) = IF 1 > v THEN 0 ELSE v - 1 + 1
    BY FS_Interval
  <2> QED BY <2>1
<1>2. f \in Bijection(1 .. v, {i} \X (1 .. v))
  <2> HIDE DEF v
  <2>1. f \in [1 .. v -> {i} \X (1 .. v)]
    OBVIOUS
  <2>2. \A k, l \in 1 .. v : f[k] = f[l] => k = l
    OBVIOUS
  <2>3. ASSUME NEW x \in {i} \X (1 .. v) PROVE \E k \in 1 .. v : f[k] = x
    <3>1. x[1] = i /\ x[2] \in 1 .. v /\ x = <<x[1], x[2]>>
      OBVIOUS
    <3>2. f[x[2]] = x
      BY <3>1
    <3> QED BY <3>1, <3>2
  <2> QED BY <2>1, <2>2, <2>3 DEF Bijection, Injection, Surjection, IsInjective
<1>3. ExistsBijection(1 .. v, {i} \X (1 .. v))
  <2> HIDE DEF f, v
  <2> QED BY <1>2 DEF ExistsBijection
<1>4. IsFiniteSet({i} \X (1 .. v)) /\ Cardinality({i} \X (1 .. v)) = v
  <2> HIDE DEF v
  <2> QED BY <1>1, <1>3, FS_Bijection
<1> QED BY <1>4 DEF Cell

LEMMA SumCounts ==
    ASSUME NEW n \in Nat, NEW values, \A k \in DOMAIN values : values[k] \in Nat,
           DOMAIN values \subseteq 1 .. n
    PROVE  Sum(values, n) = Cardinality(Cells(values, DOMAIN values)) /\ Sum(values, n) \in Nat
<1>1. PICK upTo \in [0 .. n -> Nat] :
        /\ upTo[0] = 0
        /\ \A k \in 1 .. n : upTo[k] = upTo[k - 1] + (IF k \in DOMAIN values THEN values[k] ELSE 0)
        /\ Sum(values, n) = upTo[n]
  BY SumLoop
<1> DEFINE Low(k) == {i \in DOMAIN values : i <= k}
           Good(k) == IsFiniteSet(Cells(values, Low(k))) /\ Cardinality(Cells(values, Low(k))) = upTo[k]
           S == {k \in 0 .. n : Good(k)}
<1>2. 0 \in S
  <2>1. Low(0) = {}
    OBVIOUS
  <2>2. Cells(values, Low(0)) = {}
    BY <2>1 DEF Cells
  <2>3. Good(0)
    <3> HIDE DEF Low
    <3> QED BY <1>1, <2>2, FS_EmptySet
  <2> QED BY <2>3
<1>3. ASSUME NEW k \in 0 .. n - 1, k \in S PROVE k + 1 \in S
  <2>0. upTo[k + 1] = upTo[k] + (IF k + 1 \in DOMAIN values THEN values[k + 1] ELSE 0)
    BY <1>1
  <2>1. CASE k + 1 \notin DOMAIN values
    <3>1. Low(k + 1) = Low(k)
      BY <2>1
    <3>2. upTo[k + 1] = upTo[k]
      BY <2>0, <2>1
    <3> HIDE DEF Low
    <3> QED BY <1>3, <3>1, <3>2
  <2>2. CASE k + 1 \in DOMAIN values
    <3> DEFINE A == Cells(values, Low(k))
               B == Cell(values, k + 1)
    <3>1. Low(k + 1) = Low(k) \cup {k + 1}
      BY <2>2
    <3>2. Cells(values, Low(k + 1)) = A \cup B
      <4> HIDE DEF Low
      <4> QED BY <3>1 DEF Cells
    <3>3. A \cap B = {}
      <4> SUFFICES ASSUME NEW x \in A, x \in B PROVE FALSE
        OBVIOUS
      <4>1. PICK i \in Low(k) : x \in Cell(values, i)
        BY DEF Cells
      <4>2. x[1] = i /\ x[1] = k + 1
        BY <4>1 DEF Cell
      <4> QED BY <4>1, <4>2
    <3>4. IsFiniteSet(A) /\ Cardinality(A) = upTo[k]
      BY <1>3
    <3>5. IsFiniteSet(B) /\ Cardinality(B) = values[k + 1]
      BY <2>2, CellSize
    <3>6. IsFiniteSet(A \cup B) /\ Cardinality(A \cup B) = Cardinality(A) + Cardinality(B) - Cardinality({})
      <4> HIDE DEF A, B
      <4>1. IsFiniteSet(A \cup B)
            /\ Cardinality(A \cup B) = Cardinality(A) + Cardinality(B) - Cardinality(A \cap B)
        BY <3>4, <3>5, FS_Union
      <4> QED BY <3>3, <4>1
    <3>7. Cardinality({}) = 0
      BY FS_EmptySet
    <3>8. upTo[k + 1] = upTo[k] + values[k + 1] /\ upTo[k] \in Nat /\ values[k + 1] \in Nat
      BY <1>1, <2>0, <2>2
    <3>9. Good(k + 1)
      <4>1. Cardinality(A \cup B) = upTo[k + 1]
        <5> HIDE DEF A, B, Low
        <5>1. Cardinality(A \cup B) = upTo[k] + values[k + 1] - 0
          BY <3>4, <3>5, <3>6, <3>7
        <5> QED BY <5>1, <3>8
      <4> HIDE DEF A, B, Low
      <4> QED BY <3>2, <3>6, <4>1
    <3> QED BY <3>9
  <2> QED BY <2>1, <2>2
<1>4. n \in S
  <2>1. 0 .. n \subseteq S
    <3> HIDE DEF S
    <3> QED BY <1>2, <1>3, UpTo
  <2>2. n \in 0 .. n
    OBVIOUS
  <2> HIDE DEF S
  <2> QED BY <2>1, <2>2
<1>5. Low(n) = DOMAIN values
  OBVIOUS
<1> HIDE DEF Low
<1> QED BY <1>1, <1>4, <1>5

(* round gives a whole number no further than a half from the mean.        *)
LEMMA MeanRounds ==
    ASSUME NEW sum \in Nat, NEW n \in Nat \ {0}
    PROVE  /\ RoundedMean(sum, n) \in Nat
           /\ 2 * (n * RoundedMean(sum, n) - sum) \in -n .. n
<1>1. PICK q \in Int : q = sum \div n
  OBVIOUS
<1>2. PICK r \in Int : r = sum % n
  OBVIOUS
<1>3. sum = n * q + r /\ 0 <= r /\ r < n /\ q >= 0
  BY <1>1, <1>2
<1>4. PICK v : v = RoundedMean(sum, n)
  OBVIOUS
<1>5. (2 * r < n \/ (2 * r = n /\ q % 2 = 0)) => v = q
  BY <1>1, <1>2, <1>4 DEF RoundedMean
<1>6. ~(2 * r < n \/ (2 * r = n /\ q % 2 = 0)) => v = q + 1
  BY <1>1, <1>2, <1>4 DEF RoundedMean
<1>7. PICK p \in Int : p = n * q
  OBVIOUS
<1>8. n * (q + 1) = p + n
  BY <1>7
<1>9. CASE v = q /\ 2 * r <= n
  BY <1>3, <1>4, <1>7, <1>9
<1>10. CASE v = q + 1 /\ 2 * r >= n
  <2>1. n * v = p + n
    BY <1>8, <1>10
  <2>2. 2 * (n * v - sum) = 2 * n - 2 * r
    BY <1>3, <1>7, <2>1
  <2> QED BY <1>3, <1>4, <1>10, <2>2
<1>11. (v = q /\ 2 * r <= n) \/ (v = q + 1 /\ 2 * r >= n)
  BY <1>3, <1>5, <1>6
<1> QED BY <1>9, <1>10, <1>11

LEMMA StepsInDay == StepsPerDay \in Nat \ {0} /\ RecentDays \in Int
BY ExportAssumption

(* A step lies between the midnights of its day and of the next.           *)
LEMMA DayOf ==
    ASSUME NEW h \in Nat
    PROVE  /\ Day(h) \in Nat /\ Midnight(Day(h)) \in Nat
           /\ Midnight(Day(h)) <= h /\ h < Midnight(Day(h) + 1) /\ Day(h) <= h
<1>1. PICK q \in Int : q = h \div StepsPerDay
  BY StepsInDay
<1>2. PICK r \in Int : r = h % StepsPerDay
  BY StepsInDay
<1>3. h = StepsPerDay * q + r /\ 0 <= r /\ r < StepsPerDay /\ q >= 0
  BY <1>1, <1>2, StepsInDay
<1>4. PICK p \in Nat : p = q * StepsPerDay
  BY <1>3, StepsInDay
<1>5. (q + 1) * StepsPerDay = p + StepsPerDay /\ h = p + r /\ q <= p
  BY <1>3, <1>4, StepsInDay
<1> QED BY <1>1, <1>3, <1>4, <1>5, StepsInDay DEF Day, Midnight

(* Midnights go up with the days.                                          *)
LEMMA MidnightUp ==
    ASSUME NEW d \in Nat, NEW e \in Nat, d < e
    PROVE  Midnight(d + 1) <= Midnight(e) /\ Midnight(d) < Midnight(e)
           /\ Midnight(d) \in Nat /\ Midnight(e) \in Nat /\ Midnight(d + 1) \in Nat
<1>1. PICK k \in Nat : e = d + 1 + k
  <2>1. e - d - 1 \in Nat /\ e = d + 1 + (e - d - 1)
    OBVIOUS
  <2> QED BY <2>1
<1>2. k * StepsPerDay \in Nat /\ d * StepsPerDay \in Nat
  BY StepsInDay
<1>3. e * StepsPerDay = d * StepsPerDay + StepsPerDay + k * StepsPerDay
      /\ (d + 1) * StepsPerDay = d * StepsPerDay + StepsPerDay
  BY <1>1, StepsInDay
<1> QED BY <1>2, <1>3, StepsInDay DEF Midnight
-----------------------------------------------------------------------------
(* The rows that are rolled up, the others, and the days *)
OldOf(t, h)    == {i \in DOMAIN t : RecentDays >= 0 /\ t[i].at < Cutoff(h)}
RecentOf(t, h) == DOMAIN t \ OldOf(t, h)
DaysOf(t, h)   == {Day(t[i].at) : i \in OldOf(t, h)}
DayRows(t, h, d) == {i \in OldOf(t, h) : Day(t[i].at) = d}

LEMMA RowType ==
    ASSUME NEW t \in Seq(Row), NEW i \in 1 .. Len(t)
    PROVE  t[i] \in Row /\ t[i].at \in 0 .. MaxStep /\ t[i].at \in Nat
           /\ t[i].counts \in [Fields -> Count] /\ MaxStep \in Nat
<1>1. t[i] \in Row
  OBVIOUS
<1> QED BY <1>1, BoundAssumption DEF Row

(* ORDER BY leaves a table as it is whose times ascend.                    *)
LEMMA Sorted ==
    ASSUME NEW t \in Seq(Row), Ascending(t)
    PROVE  InOrder(t) = t
<1> DEFINE n == Len(t)
           Less(i) == {j \in 1 .. n : Before(t, j, i)}
<1>1. ASSUME NEW i \in 1 .. n PROVE Less(i) = 1 .. i - 1
  <2>1. ASSUME NEW j \in 1 .. n PROVE Before(t, j, i) <=> j < i
    <3>1. t[i].at \in Int /\ t[j].at \in Int
      BY RowType
    <3>2. j < i => t[j].at < t[i].at
      BY DEF Ascending
    <3>3. i < j => t[i].at < t[j].at
      BY DEF Ascending
    <3> QED BY <3>1, <3>2, <3>3 DEF Before
  <2>2. \A j : j \in Less(i) <=> j \in 1 .. i - 1
    <3>1. \A j : j \in Less(i) <=> j \in 1 .. n /\ j < i
      BY <2>1
    <3>2. \A j : j \in 1 .. i - 1 <=> j \in 1 .. n /\ j < i
      OBVIOUS
    <3> HIDE DEF Less
    <3> QED BY <3>1, <3>2
  <2> HIDE DEF Less
  <2> QED BY <2>2
<1>2. ASSUME NEW i \in 1 .. n PROVE Cardinality(Less(i)) = i - 1
  <2>1. Cardinality(1 .. i - 1) = IF 1 > i - 1 THEN 0 ELSE (i - 1) - 1 + 1
    BY FS_Interval
  <2> HIDE DEF Less
  <2> QED BY <1>1, <2>1
<1>3. ASSUME NEW k \in 1 .. n
      PROVE  (CHOOSE i \in 1 .. n : Cardinality(Less(i)) = k - 1) = k
  <2> HIDE DEF Less
  <2>1. Cardinality(Less(k)) = k - 1
    BY <1>2
  <2>2. \A i \in 1 .. n : Cardinality(Less(i)) = k - 1 => i = k
    BY <1>2
  <2> QED BY <2>1, <2>2
<1>4. InOrder(t) = [k \in 1 .. n |-> t[CHOOSE i \in 1 .. n : Cardinality(Less(i)) = k - 1]]
  BY DEF InOrder
<1>5. InOrder(t) = [k \in 1 .. n |-> t[k]]
  <2> HIDE DEF Less, n
  <2> QED BY <1>3, <1>4
<1> QED BY <1>5

(* There are as many days as a number says.                                *)
LEMMA DaysFinite ==
    ASSUME NEW t \in Seq(Row), NEW S \in SUBSET (1 .. Len(t))
    PROVE  LET days == {Day(t[i].at) : i \in S}
           IN  days \in SUBSET Nat /\ days \in SUBSET Int /\ IsFiniteSet(days) /\ Cardinality(days) \in Nat
<1> DEFINE days == {Day(t[i].at) : i \in S}
<1>1. ASSUME NEW d \in days PROVE d \in Nat /\ d <= MaxStep
  <2>1. PICK i \in S : d = Day(t[i].at)
    OBVIOUS
  <2>2. t[i].at \in Nat /\ t[i].at <= MaxStep /\ MaxStep \in Nat
    BY RowType
  <2>3. Day(t[i].at) \in Nat /\ Day(t[i].at) <= t[i].at
    BY <2>2, DayOf
  <2> QED BY <2>1, <2>2, <2>3
<1> HIDE DEF days
<1>2. days \in SUBSET Nat /\ days \in SUBSET Int
  BY <1>1
<1>3. IsFiniteSet(days)
  BY <1>1, <1>2, BoundAssumption, FS_BoundedSetOfNaturals
<1>4. Cardinality(days) \in Nat
  BY <1>3, FS_CardinalityType
<1> QED BY <1>2, <1>3, <1>4 DEF days

LEMMA FiniteSub ==
    ASSUME NEW n \in Nat, NEW S \in SUBSET (1 .. n)
    PROVE  IsFiniteSet(S) /\ Cardinality(S) \in 0 .. n
<1>1. IsFiniteSet(1 .. n) /\ Cardinality(1 .. n) = IF 1 > n THEN 0 ELSE n - 1 + 1
  BY FS_Interval
<1>2. IsFiniteSet(S) /\ Cardinality(S) <= Cardinality(1 .. n)
  BY <1>1, FS_Subset
<1>3. Cardinality(S) \in Nat
  BY <1>2, FS_CardinalityType
<1> QED BY <1>1, <1>2, <1>3

(* The values that are not null are numbers.                               *)
LEMMA ValuesType ==
    ASSUME NEW t \in Seq(Row), NEW S \in SUBSET (1 .. Len(t)), NEW f \in Fields
    PROVE  LET values == Values(t, S, f)
           IN  /\ DOMAIN values = {j \in S : t[j].counts[f] # NULL}
               /\ DOMAIN values \in SUBSET (1 .. Len(t))
               /\ \A i \in DOMAIN values : values[i] = t[i].counts[f] /\ values[i] \in Nat
<1> DEFINE values == Values(t, S, f)
<1>1. DOMAIN values = {j \in S : t[j].counts[f] # NULL}
  BY DEF Values
<1>2. DOMAIN values \in SUBSET (1 .. Len(t))
  BY <1>1
<1>3. ASSUME NEW i \in DOMAIN values PROVE values[i] = t[i].counts[f] /\ values[i] \in Nat
  <2>1. i \in 1 .. Len(t) /\ t[i].counts[f] # NULL
    BY <1>1
  <2>2. t[i].counts[f] \in Count
    BY <2>1, RowType
  <2>3. values[i] = t[i].counts[f]
    BY <1>1 DEF Values
  <2> QED BY <2>1, <2>2, <2>3 DEF Count
<1> HIDE DEF values
<1>4. /\ DOMAIN values = {j \in S : t[j].counts[f] # NULL}
      /\ DOMAIN values \in SUBSET (1 .. Len(t))
      /\ \A i \in DOMAIN values : values[i] = t[i].counts[f] /\ values[i] \in Nat
  BY <1>1, <1>2, <1>3
<1> QED BY <1>4 DEF values

(* A field of a rolled up day is null if all its values are, and else the  *)
(* rounded mean of those that are not.                                     *)
LEMMA RollupField ==
    ASSUME NEW t \in Seq(Row), NEW S \in SUBSET (1 .. Len(t)), NEW f \in Fields, NEW d
    PROVE  LET N == {j \in S : t[j].counts[f] # NULL}
               v == Rollup(d, t, S).counts[f]
               all == Cardinality(UNION {{i} \X (1 .. t[i].counts[f]) : i \in N})
           IN  /\ v \in Count
               /\ N = {} => v = NULL
               /\ N # {} => /\ v # NULL /\ Cardinality(N) \in Nat \ {0} /\ all \in Nat
                            /\ v = RoundedMean(all, Cardinality(N))
                            /\ 2 * (Cardinality(N) * v - all) \in -Cardinality(N) .. Cardinality(N)
<1> DEFINE N == {j \in S : t[j].counts[f] # NULL}
           v == Rollup(d, t, S).counts[f]
           all == Cardinality(UNION {{i} \X (1 .. t[i].counts[f]) : i \in N})
           values == Values(t, S, f)
           c == Cardinality(N)
<1>1. DOMAIN values = N /\ N \in SUBSET (1 .. Len(t))
      /\ \A i \in DOMAIN values : values[i] = t[i].counts[f] /\ values[i] \in Nat
  BY ValuesType
<1>2. v = IF DOMAIN values = {} THEN NULL
          ELSE RoundedMean(Sum(values, Len(t)), Cardinality(DOMAIN values))
  BY DEF Rollup
<1>3. Sum(values, Len(t)) = Cardinality(Cells(values, DOMAIN values)) /\ Sum(values, Len(t)) \in Nat
  <2> HIDE DEF values, N
  <2>1. DOMAIN values \subseteq 1 .. Len(t) /\ \A i \in DOMAIN values : values[i] \in Nat
    BY <1>1
  <2>2. Len(t) \in Nat
    OBVIOUS
  <2> QED BY <2>1, <2>2, SumCounts
<1>4. Cells(values, DOMAIN values) = UNION {{i} \X (1 .. t[i].counts[f]) : i \in N}
  <2> HIDE DEF values, N
  <2> QED BY <1>1 DEF Cells, Cell
<1>5. IsFiniteSet(N) /\ c \in Nat
  <2> HIDE DEF N
  <2> QED BY <1>1, FiniteSub
<1>6. N # {} => c # 0
  <2> HIDE DEF N
  <2> QED BY <1>5, FS_EmptySet
<1>7. all \in Nat /\ Sum(values, Len(t)) = all
  <2> HIDE DEF values, N
  <2> QED BY <1>3, <1>4
<1>8. CASE N = {}
  <2>1. v = NULL
    <3> HIDE DEF values, N, v
    <3> QED BY <1>1, <1>2, <1>8
  <2>2. NULL \in Count
    BY DEF Count
  <2> HIDE DEF values, v, all
  <2> QED BY <1>8, <2>1, <2>2 DEF v
<1>9. CASE N # {}
  <2>1. v = RoundedMean(all, c)
    <3> HIDE DEF values, N, v, all
    <3> QED BY <1>1, <1>2, <1>7, <1>9
  <2>2. v \in Nat /\ 2 * (c * v - all) \in -c .. c
    <3> HIDE DEF N, v, all, c
    <3>1. c \in Nat \ {0}
      BY <1>5, <1>6, <1>9
    <3> QED BY <1>7, <2>1, <3>1, MeanRounds
  <2>3. v # NULL
    BY <2>2, NullAssumption
  <2> HIDE DEF N, v, all, values
  <2> QED BY <1>5, <1>6, <1>7, <1>9, <2>1, <2>2, <2>3 DEF Count, N, v, all
<1> QED BY <1>8, <1>9
-----------------------------------------------------------------------------
Rolled(t, h, k) == LET d == Nth(DaysOf(t, h), k) IN Rollup(d, t, DayRows(t, h, d))

LEMMA NthOfAll ==
    ASSUME NEW n \in Nat, NEW k \in 1 .. n
    PROVE  Nth(1 .. n, k) = k
<1>1. ASSUME NEW x \in 1 .. n PROVE Cardinality(Below(1 .. n, x)) = x - 1
  <2>1. Below(1 .. n, x) = 1 .. x - 1
    BY DEF Below
  <2>2. Cardinality(1 .. x - 1) = IF 1 > x - 1 THEN 0 ELSE (x - 1) - 1 + 1
    BY FS_Interval
  <2> QED BY <2>1, <2>2
<1>2. Cardinality(Below(1 .. n, k)) = k - 1
      /\ \A x \in 1 .. n : Cardinality(Below(1 .. n, x)) = k - 1 => x = k
  BY <1>1
<1> QED BY <1>2 DEF Nth, Below

(* The rows are divided in two, and the days of the older ones counted.    *)
LEMMA Parts ==
    ASSUME NEW t \in Seq(Row), NEW h \in Nat
    PROVE  /\ OldOf(t, h) \in SUBSET (1 .. Len(t)) /\ OldOf(t, h) \in SUBSET DOMAIN t
           /\ RecentOf(t, h) \in SUBSET (1 .. Len(t)) /\ RecentOf(t, h) \in SUBSET DOMAIN t
           /\ RecentOf(t, h) \in SUBSET Int
           /\ IsFiniteSet(RecentOf(t, h)) /\ Cardinality(RecentOf(t, h)) \in Nat
           /\ DaysOf(t, h) \in SUBSET Nat /\ DaysOf(t, h) \in SUBSET Int
           /\ IsFiniteSet(DaysOf(t, h)) /\ Cardinality(DaysOf(t, h)) \in Nat
<1>1. OldOf(t, h) \in SUBSET (1 .. Len(t)) /\ RecentOf(t, h) \in SUBSET (1 .. Len(t))
      /\ DOMAIN t = 1 .. Len(t) /\ Len(t) \in Nat
  BY DEF OldOf, RecentOf
<1>2. IsFiniteSet(RecentOf(t, h)) /\ Cardinality(RecentOf(t, h)) \in Nat
  BY <1>1, FiniteSub
<1>3. DaysOf(t, h) \in SUBSET Nat /\ DaysOf(t, h) \in SUBSET Int
      /\ IsFiniteSet(DaysOf(t, h)) /\ Cardinality(DaysOf(t, h)) \in Nat
  BY <1>1, DaysFinite DEF DaysOf
<1>4. RecentOf(t, h) \in SUBSET Int
  BY <1>1
<1> QED BY <1>1, <1>2, <1>3, <1>4

LEMMA ConcatIs ==
    ASSUME NEW V, NEW s \in Seq(V), NEW r \in Seq(V)
    PROVE  s \o r = [k \in 1 .. Len(s) + Len(r) |-> IF k <= Len(s) THEN s[k] ELSE r[k - Len(s)]]
<1> DEFINE j == s \o r
<1>1. j \in Seq(V) /\ Len(j) = Len(s) + Len(r)
      /\ \A k \in 1 .. Len(s) + Len(r) : j[k] = IF k <= Len(s) THEN s[k] ELSE r[k - Len(s)]
  BY ConcatProperties
<1>2. j = [k \in 1 .. Len(j) |-> j[k]]
  <2> HIDE DEF j
  <2> QED BY <1>1
<1>3. j = [k \in 1 .. Len(s) + Len(r) |-> IF k <= Len(s) THEN s[k] ELSE r[k - Len(s)]]
  <2> HIDE DEF j
  <2> QED BY <1>1, <1>2
<1> QED BY <1>3

(* The samples: first the days, then the recent rows.                      *)
LEMMA Shape ==
    ASSUME NEW t \in Seq(Row), Ascending(t), NEW h \in Nat
    PROVE  LET nd == Cardinality(DaysOf(t, h))
               nr == Cardinality(RecentOf(t, h))
           IN  ExportSamples(t, h) =
                 [k \in 1 .. nd + nr |-> IF k <= nd THEN Rolled(t, h, k)
                                                   ELSE t[Nth(RecentOf(t, h), k - nd)]]
<1> DEFINE nd == Cardinality(DaysOf(t, h))
           nr == Cardinality(RecentOf(t, h))
           whole == [k \in 1 .. nd + nr |-> IF k <= nd THEN Rolled(t, h, k)
                                                   ELSE t[Nth(RecentOf(t, h), k - nd)]]
<1>1. nd \in Nat /\ nr \in Nat
  BY Parts
<1>2. CASE RecentDays < 0
  <2>1. OldOf(t, h) = {}
    BY <1>2, StepsInDay DEF OldOf
  <2>2. RecentOf(t, h) = 1 .. Len(t) /\ DaysOf(t, h) = {}
    BY <2>1 DEF RecentOf, DaysOf
  <2>3. nd = 0 /\ nr = Len(t)
    <3>1. Cardinality(1 .. Len(t)) = IF 1 > Len(t) THEN 0 ELSE Len(t) - 1 + 1
      BY FS_Interval
    <3> QED BY <2>2, <3>1, FS_EmptySet
  <2>4. ExportSamples(t, h) = t
    BY <1>2, Sorted DEF ExportSamples, Selected
  <2>5. whole = [k \in 1 .. Len(t) |-> t[k]]
    <3>1. ASSUME NEW k \in 1 .. Len(t) PROVE ~(k <= nd) /\ Nth(RecentOf(t, h), k - nd) = k
      <4>1. k - nd = k
        BY <2>3
      <4> QED BY <2>2, <2>3, <4>1, NthOfAll
    <3>2. 1 .. nd + nr = 1 .. Len(t)
      BY <2>3
    <3> HIDE DEF nd, nr
    <3> QED BY <3>1, <3>2
  <2>6. t = [k \in 1 .. Len(t) |-> t[k]]
    OBVIOUS
  <2> HIDE DEF whole
  <2> QED BY <2>4, <2>5, <2>6 DEF whole
<1>3. CASE ~(RecentDays < 0)
  <2> DEFINE old == {i \in DOMAIN t : t[i].at < Cutoff(h)}
             rolled == RollupDaily(t, old)
             rest == Those(t, DOMAIN t \ old)
  <2>1. ExportSamples(t, h) = rolled \o rest
    BY <1>3, Sorted DEF ExportSamples, Selected
  <2>2. old = OldOf(t, h)
    BY <1>3, StepsInDay DEF OldOf
  <2>3. rolled = [k \in 1 .. nd |-> Rolled(t, h, k)]
    <3> HIDE DEF old
    <3> QED BY <2>2 DEF RollupDaily, DaysOf, Rolled, DayRows
  <2>4. rest = [k \in 1 .. nr |-> t[Nth(RecentOf(t, h), k)]]
    <3> HIDE DEF old
    <3> QED BY <2>2 DEF Those, RecentOf
  <2>5. rolled \o rest = whole
    <3> HIDE DEF rolled, rest, nd, nr
    <3>1. Len(rolled) = nd /\ Len(rest) = nr
      BY <1>1, <2>3, <2>4
    <3>2. rolled \o rest = [k \in 1 .. nd + nr |-> IF k <= nd THEN rolled[k] ELSE rest[k - nd]]
      <4> DEFINE V == {rolled[k] : k \in 1 .. nd} \cup {rest[k] : k \in 1 .. nr}
      <4>1. rolled \in [1 .. nd -> V]
        <5>1. rolled = [k \in 1 .. nd |-> rolled[k]]
          BY <2>3
        <5> QED BY <5>1
      <4>2. rest \in [1 .. nr -> V]
        <5>1. rest = [k \in 1 .. nr |-> rest[k]]
          BY <2>4
        <5> QED BY <5>1
      <4>3. rolled \in Seq(V) /\ rest \in Seq(V)
        <5> HIDE DEF V
        <5> QED BY <1>1, <4>1, <4>2
      <4> HIDE DEF V
      <4>4. rolled \o rest = [k \in 1 .. Len(rolled) + Len(rest) |->
                              IF k <= Len(rolled) THEN rolled[k] ELSE rest[k - Len(rolled)]]
        BY <4>3, ConcatIs
      <4> QED BY <3>1, <4>4
    <3>3. ASSUME NEW k \in 1 .. nd + nr
          PROVE  /\ k <= nd => rolled[k] = Rolled(t, h, k)
                 /\ ~(k <= nd) => rest[k - nd] = t[Nth(RecentOf(t, h), k - nd)]
      <4>1. k <= nd => k \in 1 .. nd
        BY <1>1
      <4>2. ~(k <= nd) => k - nd \in 1 .. nr
        BY <1>1
      <4> QED BY <2>3, <2>4, <4>1, <4>2
    <3> QED BY <3>2, <3>3 DEF nd, nr
  <2> HIDE DEF whole
  <2> QED BY <2>1, <2>5 DEF whole
<1> QED BY <1>2, <1>3
-----------------------------------------------------------------------------
(* The cutoff moves with the time, and is not after it.                    *)
LEMMA CutoffUp ==
    /\ \A h \in Nat : Cutoff(h) \in Int /\ (RecentDays >= 0 => Cutoff(h) <= h)
    /\ \A h, l \in Nat : h <= l => Cutoff(h) <= Cutoff(l)
<1>1. PICK r \in Int : r = RecentDays * StepsPerDay
  BY StepsInDay
<1>2. RecentDays >= 0 => r >= 0
  BY <1>1, StepsInDay
<1>3. \A h \in Nat : Cutoff(h) = h - r
  BY <1>1 DEF Cutoff
<1> QED BY <1>2, <1>3

LEMMA DayOfMidnight == ASSUME NEW d \in Nat PROVE Day(Midnight(d)) = d
<1>1. PICK p \in Nat : p = d * StepsPerDay
  BY StepsInDay
<1>2. PICK q \in Int : q = p \div StepsPerDay
  BY StepsInDay
<1>3. PICK r \in Int : r = p % StepsPerDay
  BY StepsInDay
<1>4. p = StepsPerDay * q + r /\ 0 <= r /\ r < StepsPerDay
  BY <1>1, <1>2, <1>3, StepsInDay
<1>5. q = d
  <2>1. PICK e \in Int : e = d - q
    OBVIOUS
  <2>2. StepsPerDay * e = r
    BY <1>1, <1>4, <2>1, StepsInDay
  <2>3. e <= 0 => StepsPerDay * e <= 0
    BY <2>1, StepsInDay
  <2>4. e >= 1 => StepsPerDay * e >= StepsPerDay
    BY <2>1, StepsInDay
  <2>5. e < 0 => StepsPerDay * e < 0
    BY <2>1, StepsInDay
  <2>6. e = 0
    BY <1>4, <2>1, <2>2, <2>3, <2>4, <2>5, StepsInDay
  <2> QED BY <2>1, <2>6
<1> QED BY <1>1, <1>2, <1>5 DEF Day, Midnight

LEMMA DayFacts ==
    ASSUME NEW t \in Seq(Row), NEW h \in Nat, NEW d \in DaysOf(t, h)
    PROVE  /\ d \in Nat
           /\ DayRows(t, h, d) \in SUBSET (1 .. Len(t))
           /\ Rollup(d, t, DayRows(t, h, d)) \in Row
           /\ Rollup(d, t, DayRows(t, h, d)).at = Midnight(d)
           /\ \E i \in OldOf(t, h) : Day(t[i].at) = d /\ Midnight(d) <= t[i].at
<1> DEFINE S == DayRows(t, h, d)
<1>1. PICK i \in OldOf(t, h) : Day(t[i].at) = d
  BY DEF DaysOf
<1>2. i \in 1 .. Len(t) /\ S \in SUBSET (1 .. Len(t))
  BY Parts DEF DayRows
<1>3. t[i].at \in Nat /\ t[i].at <= MaxStep /\ MaxStep \in Nat
  BY <1>2, RowType
<1>4. d \in Nat /\ Midnight(d) \in Nat /\ Midnight(d) <= t[i].at
  BY <1>1, <1>3, DayOf
<1>5. Rollup(d, t, S) = [at |-> Midnight(d), counts |-> Rollup(d, t, S).counts]
      /\ Rollup(d, t, S).counts = [f \in Fields |-> Rollup(d, t, S).counts[f]]
  <2> HIDE DEF S
  <2> QED BY DEF Rollup
<1>6. \A f \in Fields : Rollup(d, t, S).counts[f] \in Count
  <2> HIDE DEF S
  <2> QED BY <1>2, RollupField
<1>7. Rollup(d, t, S).counts \in [Fields -> Count]
  <2> HIDE DEF S
  <2> QED BY <1>5, <1>6
<1>8. Midnight(d) \in 0 .. MaxStep
  BY <1>3, <1>4
<1>9. Rollup(d, t, S) \in Row /\ Rollup(d, t, S).at = Midnight(d)
  <2> HIDE DEF S
  <2> QED BY <1>5, <1>7, <1>8 DEF Row
<1> QED BY <1>1, <1>2, <1>4, <1>9

LEMMA SampleOf ==
    ASSUME NEW t \in Seq(Row), Ascending(t), NEW h \in Nat
    PROVE  LET nd == Cardinality(DaysOf(t, h))
               nr == Cardinality(RecentOf(t, h))
               x  == ExportSamples(t, h)
           IN  /\ nd \in Nat /\ nr \in Nat
               /\ x \in Seq(Row) /\ Len(x) = nd + nr
               /\ \A k \in 1 .. nd :
                    /\ Nth(DaysOf(t, h), k) \in DaysOf(t, h)
                    /\ x[k] = Rollup(Nth(DaysOf(t, h), k), t, DayRows(t, h, Nth(DaysOf(t, h), k)))
                    /\ x[k].at = Midnight(Nth(DaysOf(t, h), k))
               /\ \A k \in nd + 1 .. nd + nr :
                    /\ Nth(RecentOf(t, h), k - nd) \in RecentOf(t, h)
                    /\ x[k] = t[Nth(RecentOf(t, h), k - nd)]
<1> DEFINE days == DaysOf(t, h)
           recent == RecentOf(t, h)
           nd == Cardinality(days)
           nr == Cardinality(recent)
           x  == ExportSamples(t, h)
<1>1. nd \in Nat /\ nr \in Nat
  BY Parts
<1>2. x = [k \in 1 .. nd + nr |-> IF k <= nd THEN Rolled(t, h, k) ELSE t[Nth(recent, k - nd)]]
  BY Shape
<1>3. ASSUME NEW k \in 1 .. nd
      PROVE  /\ Nth(days, k) \in days
             /\ x[k] = Rollup(Nth(days, k), t, DayRows(t, h, Nth(days, k)))
             /\ x[k].at = Midnight(Nth(days, k))
             /\ x[k] \in Row
  <2>1. Nth(days, k) \in days
    <3>1. days \in SUBSET Int /\ IsFiniteSet(days)
      BY Parts
    <3> HIDE DEF days
    <3> QED BY <3>1, NthExists
  <2>2. k \in 1 .. nd + nr /\ k <= nd
    BY <1>1
  <2>3. x[k] = Rolled(t, h, k)
    <3> HIDE DEF x, nd, nr, recent
    <3> QED BY <1>2, <2>2
  <2>4. x[k] = Rollup(Nth(days, k), t, DayRows(t, h, Nth(days, k)))
    <3> HIDE DEF x
    <3> QED BY <2>3 DEF Rolled
  <2> HIDE DEF x
  <2> QED BY <2>1, <2>4, DayFacts
<1>4. ASSUME NEW k \in nd + 1 .. nd + nr
      PROVE  /\ Nth(recent, k - nd) \in recent
             /\ x[k] = t[Nth(recent, k - nd)]
             /\ x[k] \in Row
  <2>1. k - nd \in 1 .. nr /\ k \in 1 .. nd + nr /\ ~(k <= nd)
    BY <1>1
  <2>2. recent \in SUBSET Int /\ IsFiniteSet(recent) /\ recent \in SUBSET (1 .. Len(t))
    BY Parts
  <2>3. Nth(recent, k - nd) \in recent
    <3> HIDE DEF recent
    <3> QED BY <2>1, <2>2, NthExists
  <2>4. x[k] = t[Nth(recent, k - nd)]
    <3> HIDE DEF x, nd, nr, recent
    <3> QED BY <1>2, <2>1
  <2>5. t[Nth(recent, k - nd)] \in Row
    <3> HIDE DEF recent
    <3> QED BY <2>2, <2>3, RowType
  <2> HIDE DEF x, nd, nr, recent
  <2> QED BY <2>3, <2>4, <2>5
<1>5. x \in Seq(Row) /\ Len(x) = nd + nr
  <2> HIDE DEF x, nd, nr, recent, days
  <2>1. \A k \in 1 .. nd + nr : k \in 1 .. nd \/ k \in nd + 1 .. nd + nr
    BY <1>1
  <2>2. \A k \in 1 .. nd + nr : x[k] \in Row
    BY <1>3, <1>4, <2>1
  <2>3. DOMAIN x = 1 .. nd + nr /\ x = [k \in 1 .. nd + nr |-> x[k]]
    BY <1>2
  <2>4. nd + nr \in Nat
    BY <1>1
  <2>5. x \in [1 .. nd + nr -> Row]
    BY <2>2, <2>3
  <2> QED BY <2>3, <2>4, <2>5
<1> HIDE DEF x, nd, nr, recent, days
<1>6. /\ nd \in Nat /\ nr \in Nat /\ x \in Seq(Row) /\ Len(x) = nd + nr
      /\ \A k \in 1 .. nd : /\ Nth(days, k) \in days
                            /\ x[k] = Rollup(Nth(days, k), t, DayRows(t, h, Nth(days, k)))
                            /\ x[k].at = Midnight(Nth(days, k))
      /\ \A k \in nd + 1 .. nd + nr : Nth(recent, k - nd) \in recent /\ x[k] = t[Nth(recent, k - nd)]
  BY <1>1, <1>3, <1>4, <1>5
<1> QED BY <1>6 DEF x, nd, nr, recent, days

(* Days come before the recent rows, and both go up: no midnight of a day  *)
(* that is rolled up reaches the cutoff.                                   *)
LEMMA SamplesUp ==
    ASSUME NEW t \in Seq(Row), Ascending(t), NEW h \in Nat,
           NEW k \in 1 .. Len(ExportSamples(t, h)), NEW l \in 1 .. Len(ExportSamples(t, h)), k < l
    PROVE  ExportSamples(t, h)[k].at < ExportSamples(t, h)[l].at
<1> DEFINE days == DaysOf(t, h)
           recent == RecentOf(t, h)
           nd == Cardinality(days)
           nr == Cardinality(recent)
           x  == ExportSamples(t, h)
<1>1. /\ nd \in Nat /\ nr \in Nat /\ x \in Seq(Row) /\ Len(x) = nd + nr
      /\ \A i \in 1 .. nd : /\ Nth(days, i) \in days
                            /\ x[i].at = Midnight(Nth(days, i))
      /\ \A i \in nd + 1 .. nd + nr : Nth(recent, i - nd) \in recent /\ x[i] = t[Nth(recent, i - nd)]
  BY SampleOf
<1>2. /\ days \in SUBSET Int /\ IsFiniteSet(days) /\ days \in SUBSET Nat
      /\ recent \in SUBSET Int /\ IsFiniteSet(recent) /\ recent \in SUBSET (1 .. Len(t))
  BY Parts
<1>3. CASE l <= nd
  <2>1. k \in 1 .. nd /\ l \in 1 .. nd
    BY <1>1, <1>3
  <2>2. Nth(days, k) < Nth(days, l)
    <3> HIDE DEF days
    <3> QED BY <1>2, <2>1, NthUp
  <2>3. Nth(days, k) \in Nat /\ Nth(days, l) \in Nat
    BY <1>1, <1>2, <2>1
  <2>4. Midnight(Nth(days, k)) < Midnight(Nth(days, l))
    <3> HIDE DEF days
    <3> QED BY <2>2, <2>3, MidnightUp
  <2> HIDE DEF x, nd, nr, recent, days
  <2> QED BY <1>1, <2>1, <2>4 DEF x
<1>4. CASE k <= nd /\ nd < l
  <2>1. k \in 1 .. nd /\ l \in nd + 1 .. nd + nr
    BY <1>1, <1>4
  <2> DEFINE d == Nth(days, k)
             j == Nth(recent, l - nd)
  <2>2. d \in days /\ j \in recent /\ x[k].at = Midnight(d) /\ x[l] = t[j]
    BY <1>1, <2>1
  <2>3. PICK i \in OldOf(t, h) : Day(t[i].at) = d /\ Midnight(d) <= t[i].at
    <3> HIDE DEF d
    <3> QED BY <2>2, DayFacts
  <2>4. i \in 1 .. Len(t) /\ j \in 1 .. Len(t)
    BY <1>2, <2>2, Parts
  <2>5. t[i].at \in Int /\ t[j].at \in Int /\ Midnight(d) \in Int
    <3>1. t[i].at \in Nat /\ t[j].at \in Nat
      BY <2>4, RowType
    <3>2. Midnight(Day(t[i].at)) \in Nat
      BY <3>1, DayOf
    <3> HIDE DEF d, j
    <3> QED BY <2>3, <3>1, <3>2
  <2>6. RecentDays >= 0 /\ t[i].at < Cutoff(h)
    BY <2>3 DEF OldOf
  <2>7. ~(t[j].at < Cutoff(h))
    BY <2>2, <2>4, <2>6 DEF RecentOf, OldOf
  <2>8. Midnight(d) < t[j].at
    <3> HIDE DEF d, j
    <3>1. Cutoff(h) \in Int
      BY CutoffUp
    <3>2. Midnight(d) <= t[i].at
      BY <2>3
    <3> QED BY <3>1, <3>2, <2>5, <2>6, <2>7
  <2> HIDE DEF x, nd, nr, recent, days
  <2> QED BY <2>2, <2>8 DEF x
<1>5. CASE nd < k
  <2>1. k \in nd + 1 .. nd + nr /\ l \in nd + 1 .. nd + nr /\ k - nd \in 1 .. nr /\ l - nd \in 1 .. nr
        /\ k - nd < l - nd
    BY <1>1, <1>5
  <2> DEFINE i == Nth(recent, k - nd)
             j == Nth(recent, l - nd)
  <2>2. i < j
    <3> HIDE DEF recent
    <3> QED BY <1>2, <2>1, NthUp
  <2>3. i \in 1 .. Len(t) /\ j \in 1 .. Len(t) /\ x[k] = t[i] /\ x[l] = t[j]
    BY <1>1, <1>2, <2>1
  <2>4. t[i].at < t[j].at
    <3> HIDE DEF i, j
    <3> QED BY <2>2, <2>3 DEF Ascending
  <2> HIDE DEF x, nd, nr, recent, days
  <2> QED BY <2>3, <2>4 DEF x
<1>6. l <= nd \/ (k <= nd /\ nd < l) \/ nd < k
  BY <1>1
<1> QED BY <1>3, <1>4, <1>5, <1>6
-----------------------------------------------------------------------------
(* Every recent row and every rolled up day has its sample.                *)
LEMMA RecentShown ==
    ASSUME NEW t \in Seq(Row), Ascending(t), NEW h \in Nat, NEW i \in RecentOf(t, h)
    PROVE  \E j \in 1 .. Len(ExportSamples(t, h)) : ExportSamples(t, h)[j] = t[i]
<1> DEFINE recent == RecentOf(t, h)
           nd == Cardinality(DaysOf(t, h))
           nr == Cardinality(recent)
           x  == ExportSamples(t, h)
<1>1. /\ nd \in Nat /\ nr \in Nat /\ Len(x) = nd + nr
      /\ \A j \in nd + 1 .. nd + nr : x[j] = t[Nth(recent, j - nd)]
  BY SampleOf
<1>2. recent \in SUBSET Int /\ IsFiniteSet(recent)
  BY Parts
<1>3. PICK k \in 1 .. nr : Nth(recent, k) = i
  <2> HIDE DEF recent
  <2>1. i \in recent
    BY DEF recent
  <2> QED BY <1>2, <2>1, NthOnto
<1> DEFINE j == nd + k
<1>4. j \in nd + 1 .. nd + nr /\ j - nd = k /\ j \in 1 .. Len(x)
  <2> HIDE DEF nd, nr, x
  <2> QED BY <1>1
<1>5. x[j] = t[i]
  <2> HIDE DEF nd, nr, x, j, recent
  <2> QED BY <1>1, <1>3, <1>4
<1> HIDE DEF j
<1> QED BY <1>4, <1>5

LEMMA DayShown ==
    ASSUME NEW t \in Seq(Row), Ascending(t), NEW h \in Nat, NEW d \in DaysOf(t, h)
    PROVE  \E j \in 1 .. Len(ExportSamples(t, h)) :
             ExportSamples(t, h)[j] = Rollup(d, t, DayRows(t, h, d))
<1> DEFINE days == DaysOf(t, h)
           nd == Cardinality(days)
           nr == Cardinality(RecentOf(t, h))
           x  == ExportSamples(t, h)
<1>1. /\ nd \in Nat /\ nr \in Nat /\ Len(x) = nd + nr
      /\ \A k \in 1 .. nd : x[k] = Rollup(Nth(days, k), t, DayRows(t, h, Nth(days, k)))
  BY SampleOf
<1>2. days \in SUBSET Int /\ IsFiniteSet(days)
  BY Parts
<1>3. PICK k \in 1 .. nd : Nth(days, k) = d
  <2> HIDE DEF days
  <2>1. d \in days
    BY DEF days
  <2> QED BY <1>2, <2>1, NthOnto
<1>4. k \in 1 .. Len(x)
  <2> HIDE DEF nd, nr, x
  <2> QED BY <1>1
<1>5. x[k] = Rollup(d, t, DayRows(t, h, d))
  <2> HIDE DEF nd, nr, x, days
  <2> QED BY <1>1, <1>3
<1> QED BY <1>4, <1>5

(* DashboardShowsRows of the rows t and the samples x exported at h        *)
Shows(t, h, x) ==
    LET recent   == {i \in 1 .. Len(t) : RecentDays < 0 \/ h <= t[i].at + RecentDays * StepsPerDay}
        rolled   == DOMAIN t \ recent
        ofDay(d) == {i \in DOMAIN t : Day(t[i].at) = d}
        days     == {Day(t[i].at) : i \in rolled}
        sum(S, f) == Cardinality(UNION {{i} \X (1 .. t[i].counts[f]) : i \in S})
        mean(f, d, v) ==
            LET S == {i \in ofDay(d) \ recent : t[i].counts[f] # NULL}
                n == Cardinality(S)
            IN  IF v = NULL THEN \A i \in ofDay(d) : t[i].counts[f] = NULL \/ i \in recent
                ELSE S # {} /\ 2 * (n * v - sum(S, f)) \in -n .. n
    IN  /\ Len(x) = Cardinality(recent) + Cardinality(days)
        /\ \A j \in 1 .. Len(x) - 1 : x[j].at < x[j + 1].at
        /\ \A i \in recent : \E j \in 1 .. Len(x) : x[j] = t[i]
        /\ \A d \in days : \E j \in 1 .. Len(x) :
             x[j].at = Midnight(d) /\ \A f \in Fields : mean(f, d, x[j].counts[f])

(* What an export of any table in order shows                              *)
LEMMA ExportShows ==
    ASSUME NEW t \in Seq(Row), Ascending(t), NEW h \in Nat
    PROVE  Shows(t, h, ExportSamples(t, h))
<1> DEFINE x == ExportSamples(t, h)
           recent   == {i \in 1 .. Len(t) : RecentDays < 0 \/ h <= t[i].at + RecentDays * StepsPerDay}
           rolled   == DOMAIN t \ recent
           ofDay(d) == {i \in DOMAIN t : Day(t[i].at) = d}
           days     == {Day(t[i].at) : i \in rolled}
           sum(S, f) == Cardinality(UNION {{i} \X (1 .. t[i].counts[f]) : i \in S})
           mean(f, d, v) ==
              LET S == {i \in ofDay(d) \ recent : t[i].counts[f] # NULL}
                  n == Cardinality(S)
              IN  IF v = NULL THEN \A i \in ofDay(d) : t[i].counts[f] = NULL \/ i \in recent
                  ELSE S # {} /\ 2 * (n * v - sum(S, f)) \in -n .. n
<1>1. rolled = OldOf(t, h) /\ recent = RecentOf(t, h)
  <2>1. PICK r \in Int : r = RecentDays * StepsPerDay
    BY StepsInDay
  <2>2. ASSUME NEW i \in 1 .. Len(t)
        PROVE  i \in recent <=> ~(RecentDays >= 0 /\ t[i].at < Cutoff(h))
    <3>1. t[i].at \in Int
      BY RowType
    <3>2. i \in recent <=> RecentDays < 0 \/ h <= t[i].at + r
      BY <2>1
    <3>3. Cutoff(h) = h - r
      BY <2>1 DEF Cutoff
    <3> HIDE DEF recent
    <3> QED BY <3>1, <3>2, <3>3, StepsInDay
  <2>3. recent \subseteq 1 .. Len(t) /\ DOMAIN t = 1 .. Len(t)
    OBVIOUS
  <2> HIDE DEF recent
  <2>4. rolled = OldOf(t, h)
    BY <2>2, <2>3 DEF OldOf
  <2>5. recent = RecentOf(t, h)
    BY <2>2, <2>3 DEF RecentOf, OldOf
  <2> QED BY <2>4, <2>5
<1>2. days = DaysOf(t, h) /\ \A d : ofDay(d) \ recent = DayRows(t, h, d)
  <2>1. \A d : ofDay(d) \ recent = {i \in rolled : Day(t[i].at) = d}
    <3> HIDE DEF recent
    <3> QED OBVIOUS
  <2> HIDE DEF rolled, ofDay, recent
  <2> QED BY <1>1, <2>1 DEF DaysOf, DayRows
<1>3. Len(x) = Cardinality(recent) + Cardinality(days)
  <2>1. Len(x) = Cardinality(DaysOf(t, h)) + Cardinality(RecentOf(t, h))
        /\ Cardinality(DaysOf(t, h)) \in Nat /\ Cardinality(RecentOf(t, h)) \in Nat
    BY SampleOf
  <2> HIDE DEF x, recent, days
  <2> QED BY <1>1, <1>2, <2>1
<1>4. ASSUME NEW j \in 1 .. Len(x) - 1 PROVE x[j].at < x[j + 1].at
  <2>1. Len(x) \in Nat
    BY SampleOf
  <2>2. j \in 1 .. Len(x) /\ j + 1 \in 1 .. Len(x) /\ j < j + 1
    <3> HIDE DEF x
    <3> QED BY <2>1
  <2> QED BY <2>2, SamplesUp
<1>5. ASSUME NEW i \in recent PROVE \E j \in 1 .. Len(x) : x[j] = t[i]
  <2> HIDE DEF recent
  <2> QED BY <1>1, RecentShown
<1>6. ASSUME NEW d \in days
      PROVE  \E j \in 1 .. Len(x) : x[j].at = Midnight(d) /\ \A f \in Fields : mean(f, d, x[j].counts[f])
  <2> DEFINE S == DayRows(t, h, d)
             R == Rollup(d, t, S)
  <2>0. d \in DaysOf(t, h)
    <3> HIDE DEF days
    <3> QED BY <1>2
  <2>1. PICK j \in 1 .. Len(x) : x[j] = R
    BY <2>0, DayShown
  <2>2. R.at = Midnight(d) /\ S \in SUBSET (1 .. Len(t))
    BY <2>0, DayFacts
  <2>3. ASSUME NEW f \in Fields PROVE mean(f, d, R.counts[f])
    <3> DEFINE N == {i \in S : t[i].counts[f] # NULL}
               M == {i \in ofDay(d) \ recent : t[i].counts[f] # NULL}
               all == Cardinality(UNION {{i} \X (1 .. t[i].counts[f]) : i \in N})
               v == R.counts[f]
    <3>1. /\ N = {} => v = NULL
          /\ N # {} => v # NULL /\ 2 * (Cardinality(N) * v - all) \in -Cardinality(N) .. Cardinality(N)
      <4> HIDE DEF S
      <4> QED BY <2>2, RollupField
    <3>2. M = N
      <4> HIDE DEF ofDay, recent, S
      <4> QED BY <1>2 DEF S
    <3>3. IF v = NULL THEN \A i \in ofDay(d) : t[i].counts[f] = NULL \/ i \in recent
          ELSE M # {} /\ 2 * (Cardinality(M) * v - sum(M, f)) \in -Cardinality(M) .. Cardinality(M)
      <4>1. sum(N, f) = all
        OBVIOUS
      <4>2. M = {} => \A i \in ofDay(d) : t[i].counts[f] = NULL \/ i \in recent
        <5> HIDE DEF ofDay, recent
        <5> QED OBVIOUS
      <4> HIDE DEF M, N, v, all, sum, ofDay, recent
      <4> QED BY <3>1, <3>2, <4>1, <4>2
    <3> HIDE DEF ofDay, recent, sum, v, R
    <3> QED BY <3>3 DEF v
  <2> HIDE DEF x, mean, R
  <2> QED BY <2>1, <2>2, <2>3
<1> HIDE DEF x, recent, days, mean
<1>7. /\ Len(x) = Cardinality(recent) + Cardinality(days)
      /\ \A j \in 1 .. Len(x) - 1 : x[j].at < x[j + 1].at
      /\ \A i \in recent : \E j \in 1 .. Len(x) : x[j] = t[i]
      /\ \A d \in days : \E j \in 1 .. Len(x) :
             x[j].at = Midnight(d) /\ \A f \in Fields : mean(f, d, x[j].counts[f])
  BY <1>3, <1>4, <1>5, <1>6
<1> QED BY <1>7 DEF Shows, x, recent, days, mean

-----------------------------------------------------------------------------
(* The rows of a day that have a value, and the sum of the values          *)
Having(t, S, f) == {j \in S : t[j].counts[f] # NULL}
Whole(t, N, f)  == Cardinality(UNION {{i} \X (1 .. t[i].counts[f]) : i \in N})

LEMMA RollupIs ==
    ASSUME NEW t \in Seq(Row), NEW S \in SUBSET (1 .. Len(t)), NEW f \in Fields, NEW d
    PROVE  /\ Having(t, S, f) = {} => Rollup(d, t, S).counts[f] = NULL
           /\ Having(t, S, f) # {} =>
                Rollup(d, t, S).counts[f] =
                  RoundedMean(Whole(t, Having(t, S, f), f), Cardinality(Having(t, S, f)))
BY RollupField, Zenon DEF Having, Whole

(* The point of a day depends on its rows alone.                           *)
LEMMA SameRollup ==
    ASSUME NEW s \in Seq(Row), NEW t \in Seq(Row), NEW S \in SUBSET (1 .. Len(s)),
           S \in SUBSET (1 .. Len(t)), \A i \in S : s[i] = t[i], NEW d
    PROVE  Rollup(d, s, S) = Rollup(d, t, S)
<1> DEFINE p == Rollup(d, s, S)
           q == Rollup(d, t, S)
<1>1. ASSUME NEW f \in Fields PROVE p.counts[f] = q.counts[f]
  <2> DEFINE N == Having(s, S, f)
  <2>1. N = Having(t, S, f) /\ \A i \in N : s[i].counts[f] = t[i].counts[f]
    BY DEF Having
  <2>2. Whole(s, N, f) = Whole(t, N, f)
    <3> HIDE DEF N
    <3>1. {{i} \X (1 .. s[i].counts[f]) : i \in N} = {{i} \X (1 .. t[i].counts[f]) : i \in N}
      BY <2>1, Zenon
    <3> QED BY <3>1 DEF Whole
  <2>3. /\ N = {} => p.counts[f] = NULL
        /\ N # {} => p.counts[f] = RoundedMean(Whole(s, N, f), Cardinality(N))
    BY RollupIs
  <2>4. /\ N = {} => q.counts[f] = NULL
        /\ N # {} => q.counts[f] = RoundedMean(Whole(t, N, f), Cardinality(N))
    BY <2>1, RollupIs
  <2> HIDE DEF N, p, q
  <2> QED BY <2>2, <2>3, <2>4
<1>2. p = [at |-> Midnight(d), counts |-> p.counts] /\ q = [at |-> Midnight(d), counts |-> q.counts]
      /\ p.counts = [f \in Fields |-> p.counts[f]] /\ q.counts = [f \in Fields |-> q.counts[f]]
  BY DEF Rollup
<1> HIDE DEF p, q
<1>3. p.counts = q.counts
  BY <1>1, <1>2
<1>4. p = q
  BY <1>2, <1>3
<1> QED BY <1>4 DEF p, q

Since(t, n, h) == \A i \in n + 1 .. Len(t) : t[i].at >= h
Keeps(x, h, y, l) ==
    \A j \in 1 .. Len(x) :
      Midnight(Day(x[j].at) + 1) <= Cutoff(h)
        => \E k \in 1 .. Len(y) : y[k] = x[j] /\ Midnight(Day(y[k].at) + 1) <= Cutoff(l)

(* A day that ends before the cutoff of an export is rolled up to the same *)
(* point by any later one: the rows that came since are not of it.         *)
LEMMA SettledKept ==
    ASSUME NEW t \in Seq(Row), Ascending(t), NEW n \in 0 .. Len(t),
           NEW h \in Nat, NEW l \in Nat, h <= l, Since(t, n, h)
    PROVE  Keeps(ExportSamples(SubSeq(t, 1, n), h), h, ExportSamples(t, l), l)
<1>s. PICK s : s = SubSeq(t, 1, n)
  OBVIOUS
<1> SUFFICES ASSUME NEW j \in 1 .. Len(ExportSamples(s, h)),
                    Midnight(Day(ExportSamples(s, h)[j].at) + 1) <= Cutoff(h)
             PROVE  \E k \in 1 .. Len(ExportSamples(t, l)) :
                      /\ ExportSamples(t, l)[k] = ExportSamples(s, h)[j]
                      /\ Midnight(Day(ExportSamples(t, l)[k].at) + 1) <= Cutoff(l)
  BY <1>s DEF Keeps
<1> DEFINE x == ExportSamples(s, h)
           y == ExportSamples(t, l)
<1>0. Len(t) \in Nat /\ n \in Nat /\ n <= Len(t)
  OBVIOUS
<1>1. s \in Seq(Row) /\ Len(s) = n /\ \A i \in 1 .. n : s[i] = t[i]
  BY <1>0, <1>s
<1>2. Ascending(s)
  BY <1>0, <1>1 DEF Ascending
<1>3. x \in Seq(Row) /\ x[j] \in Row /\ x[j].at \in Nat
  <2>1. x \in Seq(Row)
    BY <1>1, <1>2, SampleOf
  <2> HIDE DEF x
  <2> QED BY <2>1, RowType DEF x
<1>4. Day(x[j].at) \in Nat /\ Midnight(Day(x[j].at) + 1) \in Nat /\ x[j].at < Midnight(Day(x[j].at) + 1)
  <2>1. Day(x[j].at) \in Nat /\ x[j].at < Midnight(Day(x[j].at) + 1)
    BY <1>3, DayOf
  <2>2. Midnight(Day(x[j].at) + 1) \in Nat
    <3> HIDE DEF x
    <3> QED BY <2>1, StepsInDay DEF Midnight
  <2> QED BY <2>1, <2>2
<1>5. Cutoff(h) \in Int /\ Cutoff(l) \in Int /\ Cutoff(h) <= Cutoff(l)
  BY CutoffUp
<1>6. Midnight(Day(x[j].at) + 1) <= Cutoff(l)
  <2> HIDE DEF x
  <2> QED BY <1>4, <1>5 DEF x
<1>7. \E k \in 1 .. Len(y) : y[k] = x[j]
  <2>1. CASE RecentDays < 0
    <3>1. x = s /\ y = t
      BY <1>1, <1>2, <2>1, Sorted DEF ExportSamples, Selected
    <3>2. j \in 1 .. n
      BY <1>1, <3>1
    <3> HIDE DEF x, y
    <3> QED BY <1>0, <1>1, <3>1, <3>2
  <2>2. CASE RecentDays >= 0
    <3> DEFINE nd == Cardinality(DaysOf(s, h))
               nr == Cardinality(RecentOf(s, h))
    <3>1. /\ nd \in Nat /\ nr \in Nat /\ Len(x) = nd + nr
          /\ \A k \in 1 .. nd :
               /\ Nth(DaysOf(s, h), k) \in DaysOf(s, h)
               /\ x[k] = Rollup(Nth(DaysOf(s, h), k), s, DayRows(s, h, Nth(DaysOf(s, h), k)))
          /\ \A k \in nd + 1 .. nd + nr : Nth(RecentOf(s, h), k - nd) \in RecentOf(s, h)
                                          /\ x[k] = s[Nth(RecentOf(s, h), k - nd)]
      BY <1>1, <1>2, SampleOf
    <3>2. j \in 1 .. nd
      <4> SUFFICES ASSUME j \notin 1 .. nd PROVE FALSE
        OBVIOUS
      <4>1. j \in nd + 1 .. nd + nr
        <5> HIDE DEF nd, nr
        <5> QED BY <3>1
      <4>2. PICK i \in RecentOf(s, h) : x[j] = s[i]
        <5> HIDE DEF nd, nr, x
        <5> QED BY <3>1, <4>1
      <4>3. i \in 1 .. Len(s) /\ ~(s[i].at < Cutoff(h))
        BY <2>2 DEF RecentOf, OldOf
      <4> HIDE DEF x
      <4> QED BY <1>3, <1>4, <1>5, <4>2, <4>3 DEF x
    <3> DEFINE d == Nth(DaysOf(s, h), j)
               S == DayRows(s, h, d)
               T == DayRows(t, l, d)
    <3>3. d \in DaysOf(s, h) /\ x[j] = Rollup(d, s, S)
      BY <3>1, <3>2
    <3>4. d \in Nat /\ x[j].at = Midnight(d)
      <4> HIDE DEF d, x
      <4>1. d \in DaysOf(s, h)
        BY <3>3
      <4>2. d \in Nat /\ Rollup(d, s, DayRows(s, h, d)).at = Midnight(d)
        BY <1>1, <4>1, DayFacts
      <4> QED BY <3>3, <4>2 DEF S
    <3>5. Midnight(d + 1) <= Cutoff(h) /\ Midnight(d + 1) \in Nat
      <4>1. Day(x[j].at) = d
        <5> HIDE DEF d, x
        <5> QED BY <3>4, DayOfMidnight
      <4> HIDE DEF d, x
      <4> QED BY <1>4, <4>1 DEF x
    <3>6. ASSUME NEW i \in 1 .. n PROVE i \in OldOf(s, h) => i \in OldOf(t, l)
      <4>1. i \in 1 .. Len(t) /\ i \in 1 .. Len(s) /\ s[i] = t[i] /\ t[i].at \in Nat
        BY <1>0, <1>1, RowType
      <4> QED BY <1>5, <4>1 DEF OldOf
    <3>7. d \in DaysOf(t, l)
      <4>1. PICK i \in OldOf(s, h) : d = Day(s[i].at)
        <5> HIDE DEF d
        <5> QED BY <3>3 DEF DaysOf
      <4>2. i \in 1 .. n
        BY <1>1 DEF OldOf
      <4>3. i \in OldOf(t, l) /\ s[i] = t[i]
        BY <1>1, <3>6, <4>2
      <4> HIDE DEF d
      <4> QED BY <4>1, <4>3 DEF DaysOf
    <3>8. ASSUME NEW i \in T PROVE i \in S
      <4>1. i \in 1 .. Len(t) /\ Day(t[i].at) = d
        BY DEF DayRows, OldOf
      <4>2. t[i].at \in Nat
        BY <4>1, RowType
      <4>3. t[i].at < Midnight(d + 1)
        <5> HIDE DEF d
        <5> QED BY <4>1, <4>2, DayOf
      <4>4. t[i].at < Cutoff(h) /\ t[i].at < h
        <5>1. Cutoff(h) <= h
          BY <2>2, CutoffUp
        <5> HIDE DEF d
        <5> QED BY <1>5, <3>5, <4>2, <4>3, <5>1
      <4>5. i \in 1 .. n
        BY <1>0, <4>1, <4>2, <4>4 DEF Since
      <4>6. i \in OldOf(s, h)
        BY <1>1, <2>2, <4>4, <4>5 DEF OldOf
      <4> HIDE DEF d
      <4> QED BY <1>1, <4>1, <4>5, <4>6 DEF DayRows
    <3>9. ASSUME NEW i \in S PROVE i \in T
      <4>1. i \in OldOf(s, h) /\ Day(s[i].at) = d
        <5> HIDE DEF d
        <5> QED BY DEF DayRows
      <4>2. i \in 1 .. n
        BY <1>1, <4>1 DEF OldOf
      <4>3. i \in OldOf(t, l) /\ s[i] = t[i]
        BY <1>1, <3>6, <4>1, <4>2
      <4> HIDE DEF d
      <4> QED BY <4>1, <4>3 DEF DayRows
    <3>10. S = T /\ S \in SUBSET (1 .. Len(s)) /\ S \in SUBSET (1 .. Len(t))
           /\ \A i \in S : s[i] = t[i]
      <4>1. S = T
        <5> HIDE DEF S, T
        <5> QED BY <3>8, <3>9
      <4>2. S \in SUBSET (1 .. Len(s))
        <5> HIDE DEF d
        <5> QED BY <1>1, <3>3, DayFacts
      <4> HIDE DEF S, T, d
      <4> QED BY <1>0, <1>1, <4>1, <4>2
    <3>11. Rollup(d, s, S) = Rollup(d, t, T)
      <4> HIDE DEF S, T, d
      <4> QED BY <1>1, <3>10, SameRollup
    <3>12. \E k \in 1 .. Len(y) : y[k] = Rollup(d, t, T)
      <4> HIDE DEF d
      <4> QED BY <3>7, DayShown
    <3> HIDE DEF x, y, d, S, T
    <3> QED BY <3>3, <3>11, <3>12
  <2> QED BY <2>1, <2>2, StepsInDay
<1> HIDE DEF x, y
<1>8. \E k \in 1 .. Len(y) : y[k] = x[j] /\ Midnight(Day(y[k].at) + 1) <= Cutoff(l)
  BY <1>6, <1>7
<1> QED BY <1>8 DEF x, y
-----------------------------------------------------------------------------
Typed ==
    /\ now \in FirstStep .. MaxStep /\ runs \in 0 .. MaxRuns /\ faults \in 0 .. MaxFaults
    /\ rows \in Seq(Row)
    /\ json.rows \in 0 .. Len(rows) /\ json.at \in 0 .. now
    /\ phase \in {"idle", "reading", "list", "raised"}
    /\ online \in Worlds \cup {<<>>} /\ draw \in Draws \cup {NoDraw}
    /\ wire \in Seq(Byte) /\ buffer \in Seq(Byte) /\ arrived \in Nat
    /\ said \in Seq(Seq(Byte)) /\ handled \in Seq(HandledSet) /\ list \in ListSet

(* The table and the file *)
Kept ==
    /\ Ascending(rows)
    /\ \A i \in 1 .. Len(rows) : rows[i].at <= now
    /\ phase # "idle" => \A i \in 1 .. Len(rows) : rows[i].at < now
    /\ \A i \in json.rows + 1 .. Len(rows) : rows[i].at >= json.at
    /\ json.samples = ExportSamples(SubSeq(rows, 1, json.rows), json.at)

DataInv == Typed /\ Kept

(* BoundAssumption, without the chunks                                     *)
LEMMA Bounds ==
    /\ FirstStep \in Nat /\ MaxStep \in Nat /\ FirstStep <= MaxStep
    /\ MaxRuns \in Nat /\ MaxFaults \in Nat
BY BoundAssumption

LEMMA EmptyRun ==
    /\ <<>> \in Seq(Byte) /\ <<>> \in Seq(Seq(Byte)) /\ <<>> \in Seq(HandledSet)
    /\ NoList \in ListSet
BY DEF NoList, ListSet

(* The table at first use                                                  *)
LEMMA LegacyRows ==
    ASSUME NEW t \in Legacy
    PROVE  t \in Seq(Row) /\ Ascending(t) /\ \A i \in 1 .. Len(t) : t[i].at < FirstStep
<1>1. t \in Seq([at : 0 .. FirstStep - 1, counts : [Fields -> Count]]) /\ Ascending(t)
  BY LegacyAssumption
<1>2. ASSUME NEW i \in 1 .. Len(t) PROVE t[i] \in Row /\ t[i].at < FirstStep
  <2>1. t[i] \in [at : 0 .. FirstStep - 1, counts : [Fields -> Count]]
    <3> DEFINE Old == [at : 0 .. FirstStep - 1, counts : [Fields -> Count]]
    <3>1. t \in Seq(Old)
      BY <1>1
    <3> HIDE DEF Old
    <3>2. t[i] \in Old
      BY <3>1
    <3> QED BY <3>2 DEF Old
  <2>2. t[i] = [at |-> t[i].at, counts |-> t[i].counts] /\ t[i].at \in 0 .. FirstStep - 1
        /\ t[i].counts \in [Fields -> Count]
    BY <2>1
  <2>3. t[i].at \in 0 .. MaxStep /\ t[i].at < FirstStep
    BY <2>2, Bounds
  <2> QED BY <2>2, <2>3 DEF Row
<1>3. t \in Seq(Row)
  <2>1. Len(t) \in Nat /\ t = [i \in 1 .. Len(t) |-> t[i]]
    BY <1>1
  <2>2. t \in [1 .. Len(t) -> Row]
    BY <1>2, <2>1
  <2> QED BY <2>1, <2>2
<1> QED BY <1>1, <1>2, <1>3

LEMMA EmptyExport == ExportSamples(<<>>, 0) = <<>>
<1>1. <<>> \in Seq(Row) /\ Ascending(<<>>)
  BY DEF Ascending
<1>2. OldOf(<<>>, 0) = {} /\ RecentOf(<<>>, 0) = {} /\ DaysOf(<<>>, 0) = {}
  <2>1. OldOf(<<>>, 0) = {}
    BY DEF OldOf
  <2> QED BY <2>1 DEF RecentOf, DaysOf
<1>3. ExportSamples(<<>>, 0) \in Seq(Row) /\ Len(ExportSamples(<<>>, 0)) = 0
  <2>1. ExportSamples(<<>>, 0) \in Seq(Row)
        /\ Len(ExportSamples(<<>>, 0)) = Cardinality(DaysOf(<<>>, 0)) + Cardinality(RecentOf(<<>>, 0))
    BY <1>1, SampleOf
  <2>2. Cardinality({}) = 0
    BY FS_EmptySet
  <2>3. Cardinality(DaysOf(<<>>, 0)) = 0 /\ Cardinality(RecentOf(<<>>, 0)) = 0
    BY <1>2, <2>2
  <2> QED BY <2>1, <2>3
<1> QED BY <1>3, EmptySeq

(* The invariant holds at first.                                           *)
LEMMA InvInit == DataInit => DataInv
<1> SUFFICES ASSUME DataInit PROVE DataInv
  OBVIOUS
<1>1. rows \in Seq(Row) /\ Ascending(rows) /\ \A i \in 1 .. Len(rows) : rows[i].at < FirstStep
  BY LegacyRows DEF DataInit
<1>2. json.at = 0 /\ json.rows = 0 /\ json.samples = <<>> /\ now = FirstStep
  BY DEF DataInit, NoJson
<1>3. Typed
  <2>1. json.rows \in 0 .. Len(rows) /\ json.at \in 0 .. now /\ now \in FirstStep .. MaxStep
    BY <1>1, <1>2, Bounds
  <2>2. 0 \in 0 .. MaxRuns /\ 0 \in 0 .. MaxFaults /\ 0 \in Nat
    BY Bounds
  <2> QED BY <1>1, <2>1, <2>2, EmptyRun DEF DataInit, Typed
<1>4. Kept
  <2>1. \A i \in 1 .. Len(rows) : rows[i].at \in Nat
    BY <1>1, RowType
  <2>2. SubSeq(rows, 1, 0) = <<>>
    BY <1>1
  <2>3. \A i \in json.rows + 1 .. Len(rows) : rows[i].at >= json.at
    BY <1>1, <1>2, <2>1
  <2>4. \A i \in 1 .. Len(rows) : rows[i].at <= now
    BY <1>1, <1>2, <2>1, Bounds
  <2>5. phase = "idle"
    BY DEF DataInit
  <2> QED BY <1>1, <1>2, <2>2, <2>3, <2>4, <2>5, EmptyExport DEF Kept
<1> QED BY <1>3, <1>4 DEF DataInv

LEMMA DrawTyped == ASSUME Typed PROVE draw \in DrawSet
BY DrawType DEF Typed

(* What the server will send in a run, and the request, are bytes.         *)
LEMMA RequestType ==
    ASSUME NEW world \in Worlds \cup {<<>>}, NEW shown \in Shown(world), NEW fault, NEW d \in Draws,
           DigestIsBytes, online' = world, Request(shown, fault, d)
    PROVE  /\ phase' = "reading" /\ draw' = d /\ said' \in Seq(Seq(Byte)) /\ wire' \in Seq(Byte)
           /\ UNCHANGED <<now, rows, seen, json, arrived, buffer, handled, list>>
<1>1. PICK pieces \in {Pieces(online', shown, fault, d)} : \E stream \in {Stream(pieces)} :
        /\ phase' = "reading" /\ draw' = d
        /\ said' = Send(WORLD_LIST_REQUEST, <<>>, <<>>, d)
        /\ wire' = stream[Len(pieces)]
        /\ UNCHANGED <<now, rows, seen, json, arrived, buffer, handled, list>>
  BY DEF Request
<1>2. d \in DrawSet
  BY DrawType
<1>3. pieces \in Seq(Pieced)
  BY <1>1, <1>2, PiecesType
<1>4. wire' = Stream(pieces)[Len(pieces)]
  BY <1>1
<1>5. wire' \in Seq(Byte)
  <2>1. Len(pieces) \in 0 .. Len(pieces)
    BY <1>3
  <2>2. Stream(pieces) \in [0 .. Len(pieces) -> Seq(Byte)]
    BY <1>3, StreamType
  <2> QED BY <1>4, <2>1, <2>2
<1>6. said' \in Seq(Seq(Byte))
  <2>1. WORLD_LIST_REQUEST \in Byte
    BY DEF WORLD_LIST_REQUEST, Byte
  <2>2. Send(WORLD_LIST_REQUEST, <<>>, <<>>, d) \in Seq(Seq(Byte))
    BY <1>2, <2>1, EmptyRun, SendType
  <2> QED BY <1>1, <2>2
<1> QED BY <1>1, <1>5, <1>6

(* Every step keeps the invariant. Ask: no row is of this time.            *)
LEMMA InvAsk == ASSUME DataInv, Ask, DigestIsBytes PROVE DataInv'
<1>1. PICK shown \in Shown(online'), d \in Draws, fault \in {"none"} \cup Faults :
         /\ fault # "none" => faults < MaxFaults
         /\ faults' = IF fault = "none" THEN faults ELSE faults + 1
         /\ Request(shown, fault, d)
  BY DEF Ask
<1>2. /\ runs < MaxRuns /\ runs' = runs + 1 /\ online' \in Worlds
      /\ \A i \in 1 .. Len(rows) : rows[i].at < now
  BY DEF Ask
<1>3. /\ phase' = "reading" /\ draw' = d /\ said' \in Seq(Seq(Byte)) /\ wire' \in Seq(Byte)
      /\ UNCHANGED <<now, rows, seen, json, arrived, buffer, handled, list>>
  <2>1. PICK world \in Worlds : online' = world
    BY <1>2
  <2>2. shown \in Shown(world) /\ world \in Worlds \cup {<<>>}
    BY <2>1
  <2> QED BY <1>1, <2>1, <2>2, RequestType
<1>4. Typed'
  <2>1. runs' \in 0 .. MaxRuns /\ faults' \in 0 .. MaxFaults
    BY <1>1, <1>2, Bounds DEF DataInv, Typed
  <2> QED BY <1>2, <1>3, <2>1 DEF DataInv, Typed
<1>5. Kept'
  BY <1>2, <1>3 DEF DataInv, Kept, Ascending
<1> QED BY <1>4, <1>5 DEF DataInv

(* Read: whatever is on the wire, parsed and dispatched, keeps its types,  *)
(* and the table and the file are left alone.                              *)
LEMMA InvRead == ASSUME DataInv, Read, DigestIsBytes PROVE DataInv'
<1>1. PICK n \in {k \in ChunkSizes : k < Len(wire)} \cup {Len(wire)} : Chunk(n)
  BY DEF Read
<1>2. phase = "reading" /\ wire # <<>>
      /\ UNCHANGED <<now, rows, seen, json, online, draw, told, runs, faults>>
  BY DEF Read
<1>3. wire \in Seq(Byte) /\ buffer \in Seq(Byte) /\ n \in Nat /\ n <= Len(wire) /\ Len(wire) \in Nat
  BY BoundAssumption DEF DataInv, Typed
<1>a. PICK parsed \in {Parsed(n)} : \E after \in {Dispatched(parsed.frames)} :
      /\ wire' = Rest(wire, n)
      /\ arrived' = arrived + n
      /\ buffer' = parsed.left
      /\ phase' = IF parsed.raised # "no" THEN "raised" ELSE after.phase
      /\ handled' = after.handled
      /\ said' = after.said
      /\ list' = after.list
  BY <1>1 DEF Chunk
<1>4. PICK after \in {Dispatched(parsed.frames)} :
      /\ wire' = Rest(wire, n)
      /\ arrived' = arrived + n
      /\ buffer' = parsed.left
      /\ phase' = IF parsed.raised # "no" THEN "raised" ELSE after.phase
      /\ handled' = after.handled
      /\ said' = after.said
      /\ list' = after.list
  BY <1>a
<1>5. buffer \o SubSeq(wire, 1, n) \in Seq(Byte)
  <2>1. SubSeq(wire, 1, n) \in Seq(Byte)
    BY <1>3, SubBytes
  <2> QED BY <1>3, <2>1
<1>6. parsed \in ParseStates
  <2> DEFINE bytes == buffer \o SubSeq(wire, 1, n)
  <2> HIDE DEF bytes
  <2>1. bytes \in Seq(Byte) /\ Len(bytes) \in 0 .. Len(bytes)
    BY <1>5 DEF bytes
  <2>2. \E f \in [0 .. Len(bytes) -> ParseStates] : ParseFrames(bytes) = f[Len(bytes)]
    BY <2>1, ParseLoop
  <2>3. ParseFrames(bytes) \in ParseStates
    BY <2>1, <2>2
  <2> QED BY <1>4, <2>3 DEF Parsed, bytes
<1>7. parsed.frames \in Seq(FrameSet) /\ parsed.left \in Seq(Byte)
  BY <1>6 DEF ParseStates
<1>8. after \in DispatchStates
  <2>1. ReadingNow \in DispatchStates
    BY DEF DataInv, Typed, ReadingNow, DispatchStates
  <2> DEFINE frames == parsed.frames
  <2> HIDE DEF frames
  <2>2. frames \in Seq(FrameSet) /\ Len(frames) \in 0 .. Len(frames)
    BY <1>7 DEF frames
  <2>3. draw \in DrawSet
    BY DrawTyped DEF DataInv
  <2>4. \E f \in [0 .. Len(frames) -> DispatchStates] : Dispatched(frames) = f[Len(frames)]
    BY <2>1, <2>2, <2>3, DispatchLoop
  <2>5. Dispatched(frames) \in DispatchStates
    BY <2>2, <2>4
  <2> QED BY <1>4, <2>5 DEF frames
<1>9. /\ after.phase \in {"reading", "list", "raised"} /\ after.handled \in Seq(HandledSet)
      /\ after.said \in Seq(Seq(Byte)) /\ after.list \in ListSet
  BY <1>8 DEF DispatchStates
<1>10. wire' \in Seq(Byte) /\ arrived' \in Nat
  <2>1. Rest(wire, n) \in Seq(Byte)
    BY <1>3, SubBytes DEF Rest
  <2> QED BY <1>3, <1>4, <2>1 DEF DataInv, Typed
<1>11. Typed'
  <2>1. phase' \in {"idle", "reading", "list", "raised"} /\ buffer' \in Seq(Byte)
        /\ handled' \in Seq(HandledSet) /\ said' \in Seq(Seq(Byte)) /\ list' \in ListSet
    BY <1>4, <1>7, <1>9
  <2> QED BY <1>2, <1>10, <2>1 DEF DataInv, Typed
<1>12. Kept'
  BY <1>2 DEF DataInv, Kept, Ascending
<1> QED BY <1>11, <1>12 DEF DataInv

LEMMA RestedTyped == ASSUME Typed, Rested
    PROVE /\ phase' = "idle" /\ online' \in Worlds \cup {<<>>} /\ draw' \in Draws \cup {NoDraw}
          /\ wire' \in Seq(Byte) /\ buffer' \in Seq(Byte) /\ arrived' \in Nat
          /\ said' \in Seq(Seq(Byte)) /\ handled' \in Seq(HandledSet) /\ list' \in ListSet
BY EmptyRun DEF Rested, Typed

(* A row of this time, whatever its counts, goes to the end.               *)
LEMMA InvAppend ==
    ASSUME DataInv, phase # "idle", Rested, NEW counts \in [Fields -> Count],
           rows' = Append(rows, [at |-> now, counts |-> counts]),
           UNCHANGED <<now, json, runs, faults>>
    PROVE  DataInv'
<1> DEFINE r == [at |-> now, counts |-> counts]
           n == Len(rows)
<1>1. rows \in Seq(Row) /\ n \in Nat /\ now \in Nat /\ now \in 0 .. MaxStep
  BY Bounds DEF DataInv, Typed
<1>2. r \in Row /\ r.at = now
  BY <1>1 DEF Row
<1>3. /\ rows' \in Seq(Row) /\ Len(rows') = n + 1
      /\ \A i \in 1 .. n : rows'[i] = rows[i]
      /\ rows'[n + 1] = r
  <2> HIDE DEF r
  <2> QED BY <1>1, <1>2 DEF r
<1>4. json.rows \in 0 .. n /\ json.at \in 0 .. now /\ json' = json /\ now' = now
  BY DEF DataInv, Typed
<1>5. Typed'
  <2>1. json'.rows \in 0 .. Len(rows') /\ json'.at \in 0 .. now'
    BY <1>1, <1>3, <1>4
  <2> QED BY <1>3, <2>1, RestedTyped DEF DataInv, Typed
<1>6. Ascending(rows')
  <2> SUFFICES ASSUME NEW i \in 1 .. n + 1, NEW j \in 1 .. n + 1, i < j
               PROVE  rows'[i].at < rows'[j].at
    BY <1>3 DEF Ascending
  <2>1. CASE j <= n
    <3>1. i \in 1 .. n /\ j \in 1 .. n
      BY <1>1, <2>1
    <3> QED BY <1>3, <3>1 DEF DataInv, Kept, Ascending
  <2>2. CASE j = n + 1
    <3>1. i \in 1 .. n
      BY <1>1, <2>2
    <3> QED BY <1>2, <1>3, <2>2, <3>1 DEF DataInv, Kept
  <2> QED BY <1>1, <2>1, <2>2
<1>7. \A i \in 1 .. Len(rows') : rows'[i].at <= now'
  <2> SUFFICES ASSUME NEW i \in 1 .. n + 1 PROVE rows'[i].at <= now
    BY <1>3, <1>4
  <2>1. i \in 1 .. n \/ i = n + 1
    BY <1>1
  <2> QED BY <1>1, <1>2, <1>3, <2>1 DEF DataInv, Kept
<1>8. \A i \in json.rows + 1 .. Len(rows') : rows'[i].at >= json.at
  <2> SUFFICES ASSUME NEW i \in json.rows + 1 .. n + 1 PROVE rows'[i].at >= json.at
    BY <1>3
  <2>1. i \in json.rows + 1 .. n \/ i = n + 1
    BY <1>1, <1>4
  <2>2. i \in json.rows + 1 .. n => i \in 1 .. n
    BY <1>1, <1>4
  <2> QED BY <1>1, <1>2, <1>3, <1>4, <2>1, <2>2 DEF DataInv, Kept
<1>9. SubSeq(rows', 1, json.rows) = SubSeq(rows, 1, json.rows)
  <2> DEFINE m == json.rows
  <2>1. m \in 0 .. n
    BY <1>4
  <2> HIDE DEF m, n, r
  <2>2. \A i \in 1 .. m : rows'[i] = rows[i]
    BY <1>1, <1>3, <2>1
  <2>3. SubSeq(rows', 1, m) = [i \in 1 .. m |-> rows'[i]] /\ SubSeq(rows, 1, m) = [i \in 1 .. m |-> rows[i]]
    BY <1>1, <1>3, <2>1 DEF n
  <2>4. SubSeq(rows', 1, m) = SubSeq(rows, 1, m)
    BY <2>2, <2>3
  <2> QED BY <2>4 DEF m
<1>10. json.samples = ExportSamples(SubSeq(rows', 1, json.rows), json.at)
  BY <1>9 DEF DataInv, Kept
<1>11. Kept'
  <2>1. phase' = "idle"
    BY DEF Rested
  <2> QED BY <1>4, <1>6, <1>7, <1>8, <1>10, <2>1 DEF Kept
<1> QED BY <1>5, <1>11 DEF DataInv

(* Every step                                                              *)
LEMMA InvStep == ASSUME DataInv, [DataNext]_vars, DigestIsBytes PROVE DataInv'
<1>1. CASE Ask
  BY <1>1, InvAsk
<1>2. CASE Read
  BY <1>2, InvRead
<1>3. CASE RecordSample
  <2>1. phase = "list" /\ Rested /\ UNCHANGED <<now, json, runs, faults>>
        /\ rows' = Append(rows, [at |-> now, counts |-> FromWorldList(list, Probe)])
    BY <1>3 DEF RecordSample
  <2>2. FromWorldList(list, Probe) \in [Fields -> Count]
    <3>1. FromWorldList(list, Probe) \in [Fields -> Nat]
      BY CountedType DEF DataInv, Typed
    <3> QED BY <3>1 DEF Count
  <2> QED BY <2>1, <2>2, InvAppend
<1>4. CASE RecordFailure
  <2>1. phase = "reading" /\ Rested /\ UNCHANGED <<now, json, runs, faults>>
        /\ rows' = Append(rows, [at |-> now, counts |-> Failed])
    BY <1>4 DEF RecordFailure
  <2>2. Failed \in [Fields -> Count]
    BY DEF Failed, Count
  <2> QED BY <2>1, <2>2, InvAppend
<1>5. CASE DieWithoutRow
  <2>1. Rested /\ UNCHANGED <<now, rows, seen, json, runs, faults>>
    BY <1>5 DEF DieWithoutRow
  <2>2. Typed'
    BY <2>1, RestedTyped DEF DataInv, Typed
  <2>3. Kept'
    BY <2>1 DEF DataInv, Kept, Ascending, Rested
  <2> QED BY <2>2, <2>3 DEF DataInv
<1>6. CASE ExportJson
  <2>1. /\ phase = "idle" /\ UNCHANGED <<now, rows, seen, phase, reading, runs, faults>>
        /\ json'.at = now /\ json'.rows = Len(rows) /\ json'.samples = ExportSamples(rows, now)
    BY <1>6 DEF ExportJson
  <2>2. Typed'
    <3>1. json'.rows \in 0 .. Len(rows) /\ json'.at \in 0 .. now
      BY <2>1, Bounds DEF DataInv, Typed
    <3> QED BY <2>1, <3>1 DEF DataInv, Typed, reading
  <2>3. Kept'
    <3>1. SubSeq(rows, 1, Len(rows)) = rows
      BY DEF DataInv, Typed
    <3>2. \A i \in Len(rows) + 1 .. Len(rows) : FALSE
      BY DEF DataInv, Typed
    <3>3. Ascending(rows) /\ \A i \in 1 .. Len(rows) : rows[i].at <= now
      BY DEF DataInv, Kept
    <3> QED BY <2>1, <3>1, <3>2, <3>3 DEF Kept
  <2> QED BY <2>2, <2>3 DEF DataInv
<1>7. CASE TimePasses
  <2>1. phase = "idle" /\ now < MaxStep /\ now' = now + 1
        /\ UNCHANGED <<rows, seen, json, phase, reading, runs, faults>>
    BY <1>7 DEF TimePasses
  <2>2. Typed'
    <3>1. now' \in FirstStep .. MaxStep /\ json.at \in 0 .. now'
      BY <2>1, Bounds DEF DataInv, Typed
    <3> QED BY <2>1, <3>1 DEF DataInv, Typed, reading
  <2>3. Kept'
    <3>1. ASSUME NEW i \in 1 .. Len(rows) PROVE rows[i].at <= now'
      <4>1. rows[i].at \in Nat /\ now \in Nat
        BY RowType, Bounds DEF DataInv, Typed
      <4> QED BY <2>1, <4>1 DEF DataInv, Kept
    <3> QED BY <2>1, <3>1 DEF DataInv, Kept, Ascending
  <2> QED BY <2>2, <2>3 DEF DataInv
<1>8. CASE UNCHANGED vars
  <2>1. UNCHANGED <<now, rows, json, phase, online, draw, wire, arrived, buffer, handled, said, list, runs, faults>>
    BY <1>8 DEF vars, reading
  <2>2. Typed'
    BY <2>1 DEF DataInv, Typed
  <2>3. Kept'
    BY <2>1 DEF DataInv, Kept, Ascending
  <2> QED BY <2>2, <2>3 DEF DataInv
<1> QED BY <1>1, <1>2, <1>3, <1>4, <1>5, <1>6, <1>7, <1>8 DEF DataNext

(* The table, the file and the values of every variable, whatever the      *)
(* chunks, the worlds and the faults.                                      *)
THEOREM DataInvariant == ASSUME DigestIsBytes PROVE DataSpec => []DataInv
<1>1. DataInv /\ [DataNext]_vars => DataInv'
  BY InvStep
<1> QED BY InvInit, <1>1, PTL DEF DataSpec
-----------------------------------------------------------------------------
LEMMA RowIs == \A r \in Row : IsRow(r)
BY DEF Row, IsRow

LEMMA PrefixRows ==
    ASSUME NEW t \in Seq(Row), Ascending(t), NEW n \in 0 .. Len(t)
    PROVE  SubSeq(t, 1, n) \in Seq(Row) /\ Ascending(SubSeq(t, 1, n)) /\ Len(SubSeq(t, 1, n)) = n
<1> DEFINE s == SubSeq(t, 1, n)
<1>1. Len(t) \in Nat /\ n \in Nat /\ n <= Len(t)
  OBVIOUS
<1>2. s \in Seq(Row) /\ Len(s) = n /\ \A i \in 1 .. n : s[i] = t[i]
  BY <1>1
<1>3. Ascending(s)
  <2> HIDE DEF s
  <2> QED BY <1>1, <1>2 DEF Ascending
<1> QED BY <1>2, <1>3

(* The properties follow.                                                  *)
LEMMA TypeFollows == DataInv => DataTypeOK
<1> SUFFICES ASSUME DataInv PROVE DataTypeOK
  OBVIOUS
<1>1. \A i \in 1 .. Len(rows) : IsRow(rows[i])
  BY RowIs DEF DataInv, Typed
<1>2. json.samples \in Seq(Row)
  <2> DEFINE s == SubSeq(rows, 1, json.rows)
  <2>1. rows \in Seq(Row) /\ Ascending(rows) /\ json.rows \in 0 .. Len(rows) /\ json.at \in Nat
        /\ json.samples = ExportSamples(s, json.at)
    BY Bounds DEF DataInv, Typed, Kept
  <2>2. s \in Seq(Row) /\ Ascending(s)
    BY <2>1, PrefixRows
  <2> HIDE DEF s
  <2> QED BY <2>1, <2>2, SampleOf
<1>3. \A i \in 1 .. Len(json.samples) : IsRow(json.samples[i])
  BY <1>2, RowIs
<1>4. \A i \in 1 .. Len(said) : said[i] \in Seq(Byte)
  BY DEF DataInv, Typed
<1>5. \A i \in 1 .. Len(handled) : handled[i].opcode \in Handlers /\ handled[i].body \in Seq(Byte)
  <2>1. ASSUME NEW i \in 1 .. Len(handled) PROVE handled[i] \in HandledSet
    BY DEF DataInv, Typed
  <2> QED BY <2>1 DEF HandledSet
<1> QED BY <1>1, <1>3, <1>4, <1>5 DEF DataInv, Typed, DataTypeOK

(* Every variable holds a value the code can give it: no count is below    *)
(* zero, what is on the wire and what is written are bytes, and so is      *)
(* whatever the parsers leave of them.                                     *)
THEOREM DataTypeCorrect == ASSUME DigestIsBytes PROVE DataSpec => []DataTypeOK
BY DataInvariant, TypeFollows, PTL

LEMMA ShowsFollows == DataInv => DashboardShowsRows
<1> SUFFICES ASSUME DataInv PROVE DashboardShowsRows
  OBVIOUS
<1> DEFINE s == SubSeq(rows, 1, json.rows)
<1>1. rows \in Seq(Row) /\ Ascending(rows) /\ json.rows \in 0 .. Len(rows) /\ json.at \in Nat
      /\ json.samples = ExportSamples(s, json.at)
  BY Bounds DEF DataInv, Typed, Kept
<1>2. s \in Seq(Row) /\ Ascending(s)
  BY <1>1, PrefixRows
<1>3. Shows(s, json.at, json.samples)
  <2> HIDE DEF s
  <2> QED BY <1>1, <1>2, ExportShows
<1>4. Shows(s, json.at, json.samples) => DashboardShowsRows
  BY DEF Shows, DashboardShowsRows
<1> QED BY <1>3, <1>4

(* export: every row is in the file once, as it is or in the mean of its   *)
(* day; a sample is of one time or one day, in ascending order; a mean is  *)
(* the whole number nearest to the values of its day that are not null and *)
(* older than the cutoff, and null only if every row of its day is null or *)
(* spared by the cutoff.                                                   *)
THEOREM DashboardAlwaysShowsRows == ASSUME DigestIsBytes PROVE DataSpec => []DashboardShowsRows
BY DataInvariant, ShowsFollows, PTL

(* Only an export changes the file, and the rows it is of begin with those *)
(* of the last one.                                                        *)
LEMMA SettledStep ==
    ASSUME DataInv, [DataNext]_vars
    PROVE  [SettledSamples(json) \subseteq SettledSamples(json')]_vars
<1>1. CASE UNCHANGED json
  BY <1>1
<1>2. CASE ExportJson
  <2>1. /\ json'.at = now /\ json'.rows = Len(rows) /\ json'.samples = ExportSamples(rows, now)
    BY <1>2 DEF ExportJson
  <2> DEFINE h == json.at
             x == ExportSamples(SubSeq(rows, 1, json.rows), h)
             y == ExportSamples(rows, now)
  <2>2. rows \in Seq(Row) /\ Ascending(rows) /\ json.rows \in 0 .. Len(rows)
        /\ h \in Nat /\ now \in Nat /\ h <= now /\ Since(rows, json.rows, h)
        /\ json.samples = x
    BY Bounds DEF DataInv, Typed, Kept, Since
  <2>3. Keeps(x, h, y, now)
    <3> HIDE DEF h
    <3> QED BY <2>2, SettledKept
  <2>4. SettledSamples(json) = {x[j] : j \in {k \in 1 .. Len(x) : Midnight(Day(x[k].at) + 1) <= Cutoff(h)}}
    <3> HIDE DEF x
    <3> QED BY <2>2 DEF SettledSamples
  <2>5. SettledSamples(json') = {y[j] : j \in {k \in 1 .. Len(y) : Midnight(Day(y[k].at) + 1) <= Cutoff(now)}}
    <3> HIDE DEF y
    <3> QED BY <2>1 DEF SettledSamples, y
  <2>6. SettledSamples(json) \subseteq SettledSamples(json')
    <3> HIDE DEF x, y
    <3> QED BY <2>3, <2>4, <2>5 DEF Keeps
  <2> QED BY <2>6
<1>3. UNCHANGED json \/ ExportJson
  BY DEF DataNext, Ask, Read, RecordSample, RecordFailure, DieWithoutRow, TimePasses, vars, Request
<1> QED BY <1>1, <1>2, <1>3

(* export: the point of a day that is wholly older than the cutoff stays as*)
(* it is in every later file.                                              *)
THEOREM SettledDaysKept == ASSUME DigestIsBytes PROVE DataSpec => SettledDayKept
<1>1. DataInv /\ [DataNext]_vars => [SettledSamples(json) \subseteq SettledSamples(json')]_vars
  BY SettledStep
<1> QED BY DataInvariant, <1>1, PTL DEF DataSpec, SettledDayKept
-----------------------------------------------------------------------------
(* The least elements of a set have the same places in it as among         *)
(* themselves; without the greatest element, the others keep theirs.       *)
LEMMA NthLow ==
    ASSUME NEW S \in SUBSET Int, IsFiniteSet(S), NEW T \in SUBSET S,
           \A x \in S, y \in T : x < y => x \in T
    PROVE  /\ IsFiniteSet(T) /\ Cardinality(T) \in Nat /\ Cardinality(T) <= Cardinality(S)
           /\ \A k \in 1 .. Cardinality(T) : Nth(T, k) = Nth(S, k)
<1>1. IsFiniteSet(T) /\ Cardinality(T) \in Nat /\ Cardinality(S) \in Nat /\ Cardinality(T) <= Cardinality(S)
  BY FS_Subset, FS_CardinalityType
<1>2. ASSUME NEW k \in 1 .. Cardinality(T) PROVE Nth(T, k) = Nth(S, k)
  <2>0. T \in SUBSET Int
    OBVIOUS
  <2>1. Nth(T, k) \in T /\ Cardinality(Below(T, Nth(T, k))) = k - 1
    BY <1>1, <2>0, NthExists
  <2>2. \A y \in T : Below(T, y) = Below(S, y)
    BY DEF Below
  <2>3. k \in 1 .. Cardinality(S)
    BY <1>1
  <2>4. Nth(S, k) \in S /\ Cardinality(Below(S, Nth(S, k))) = k - 1
    BY <2>3, NthExists
  <2>5. Cardinality(Below(S, Nth(T, k))) = k - 1 /\ Nth(T, k) \in S
    BY <2>1, <2>2
  <2>6. k - 1 \in Int
    OBVIOUS
  <2>7. ~(Nth(S, k) < Nth(T, k)) /\ ~(Nth(T, k) < Nth(S, k))
    <3>1. Nth(S, k) < Nth(T, k) => Cardinality(Below(S, Nth(S, k))) < Cardinality(Below(S, Nth(T, k)))
      BY <2>4, <2>5, Ranks
    <3>2. Nth(T, k) < Nth(S, k) => Cardinality(Below(S, Nth(T, k))) < Cardinality(Below(S, Nth(S, k)))
      BY <2>4, <2>5, Ranks
    <3> QED BY <2>4, <2>5, <2>6, <3>1, <3>2
  <2>8. Nth(S, k) \in Int /\ Nth(T, k) \in Int
    BY <2>1, <2>4
  <2> QED BY <2>7, <2>8
<1> QED BY <1>1, <1>2

LEMMA NthLast ==
    ASSUME NEW S \in SUBSET Int, IsFiniteSet(S), NEW x \in S, \A y \in S : y <= x
    PROVE  /\ Cardinality(S \ {x}) = Cardinality(S) - 1 /\ Cardinality(S) \in Nat \ {0}
           /\ Nth(S, Cardinality(S)) = x
           /\ \A k \in 1 .. Cardinality(S) - 1 : Nth(S \ {x}, k) = Nth(S, k)
<1>1. IsFiniteSet(S \ {x}) /\ Cardinality(S \ {x}) = Cardinality(S) - 1
  BY FS_RemoveElement
<1>2. Cardinality(S) \in Nat \ {0}
  <2>1. Cardinality(S) \in Nat /\ Cardinality(S \ {x}) \in Nat
    BY <1>1, FS_CardinalityType
  <2> QED BY <1>1, <2>1
<1>3. Below(S, x) = S \ {x}
  <2>1. ASSUME NEW y \in S PROVE y < x <=> y # x
    <3>1. y \in Int /\ x \in Int
      OBVIOUS
    <3> QED BY <3>1
  <2>2. \A y : y \in Below(S, x) <=> y \in S \ {x}
    BY <2>1, Zenon DEF Below
  <2> QED BY <2>2
<1>4. Nth(S, Cardinality(S)) = x
  <2>1. PICK k \in 1 .. Cardinality(S) : Nth(S, k) = x
    BY NthOnto
  <2>2. Cardinality(Below(S, Nth(S, k))) = k - 1
    BY NthExists
  <2>3. k = Cardinality(S)
    BY <1>1, <1>2, <1>3, <2>1, <2>2
  <2> QED BY <2>1, <2>3
<1>5. \A k \in 1 .. Cardinality(S) - 1 : Nth(S \ {x}, k) = Nth(S, k)
  <2> DEFINE T == S \ {x}
  <2>1. T \in SUBSET S
    OBVIOUS
  <2>2. \A z \in S, y \in T : z < y => z \in T
    OBVIOUS
  <2>3. \A k \in 1 .. Cardinality(T) : Nth(T, k) = Nth(S, k)
    <3> HIDE DEF T
    <3> QED BY <2>1, <2>2, NthLow
  <2> QED BY <1>1, <2>3
<1> QED BY <1>1, <1>2, <1>4, <1>5

(* Those of the first elements, and of one more                            *)
LEMMA ThoseLow ==
    ASSUME NEW X, NEW s \in Seq(X), NEW S \in SUBSET (1 .. Len(s)), NEW T \in SUBSET S,
           \A x \in S, y \in T : x < y => x \in T
    PROVE  /\ Len(Those(s, T)) \in Nat /\ Len(Those(s, T)) <= Len(Those(s, S))
           /\ Those(s, T) = SubSeq(Those(s, S), 1, Len(Those(s, T)))
<1>1. S \in SUBSET DOMAIN s /\ T \in SUBSET DOMAIN s
  OBVIOUS
<1>2. /\ Those(s, S) \in Seq(X) /\ Len(Those(s, S)) = Cardinality(S)
      /\ S \in SUBSET Int /\ IsFiniteSet(S)
      /\ \A k \in 1 .. Cardinality(S) : Those(s, S)[k] = s[Nth(S, k)]
  BY <1>1, ThoseType
<1>3. /\ Those(s, T) \in Seq(X) /\ Len(Those(s, T)) = Cardinality(T)
      /\ \A k \in 1 .. Cardinality(T) : Those(s, T)[k] = s[Nth(T, k)]
  BY <1>1, ThoseType
<1>4. /\ Cardinality(T) \in Nat /\ Cardinality(T) <= Cardinality(S)
      /\ \A k \in 1 .. Cardinality(T) : Nth(T, k) = Nth(S, k)
  BY <1>2, NthLow
<1>5. Cardinality(S) \in Nat
  BY <1>2
<1> DEFINE a == Those(s, T)
           b == Those(s, S)
           n == Cardinality(T)
<1> HIDE DEF a, b, n
<1>6. a \in Seq(X) /\ b \in Seq(X) /\ Len(a) = n /\ n \in Nat /\ n <= Len(b)
      /\ \A k \in 1 .. n : a[k] = b[k]
  <2>1. \A k \in 1 .. n : k \in 1 .. Cardinality(S)
    BY <1>4, <1>5 DEF n
  <2> QED BY <1>2, <1>3, <1>4, <1>5, <2>1 DEF a, b, n
<1>7. a = SubSeq(b, 1, n)
  <2>1. a = [k \in 1 .. n |-> a[k]] /\ SubSeq(b, 1, n) = [k \in 1 .. n |-> b[k]]
    BY <1>6
  <2> QED BY <1>6, <2>1
<1> QED BY <1>6, <1>7 DEF a, b

LEMMA ThoseMore ==
    ASSUME NEW X, NEW s \in Seq(X), NEW S \in SUBSET (1 .. Len(s)), NEW x \in S, \A y \in S : y <= x
    PROVE  Those(s, S) = Append(Those(s, S \ {x}), s[x])
<1> DEFINE T == S \ {x}
           a == Those(s, T)
           b == Those(s, S)
           n == Cardinality(S)
<1>1. S \in SUBSET DOMAIN s /\ T \in SUBSET DOMAIN s
  OBVIOUS
<1>2. /\ b \in Seq(X) /\ Len(b) = n
      /\ S \in SUBSET Int /\ IsFiniteSet(S)
      /\ \A k \in 1 .. n : b[k] = s[Nth(S, k)]
  BY <1>1, ThoseType
<1>3. /\ a \in Seq(X) /\ Len(a) = Cardinality(T)
      /\ \A k \in 1 .. Cardinality(T) : a[k] = s[Nth(T, k)]
  BY <1>1, ThoseType
<1>4. /\ Cardinality(T) = n - 1 /\ n \in Nat \ {0} /\ Nth(S, n) = x
      /\ \A k \in 1 .. n - 1 : Nth(T, k) = Nth(S, k)
  BY <1>2, NthLast
<1>5. s[x] \in X
  OBVIOUS
<1> HIDE DEF T, a, b, n
<1>6. Len(a) = n - 1 /\ n \in Nat \ {0} /\ b[n] = s[x]
      /\ \A k \in 1 .. n - 1 : b[k] = a[k]
  <2>1. \A k \in 1 .. n - 1 : k \in 1 .. n /\ k \in 1 .. Cardinality(T)
    BY <1>4
  <2> QED BY <1>2, <1>3, <1>4, <2>1
<1>7. b = Append(a, s[x])
  <2>1. b = [k \in 1 .. n |-> b[k]] /\ Append(a, s[x]) = [k \in 1 .. n |-> IF k = n THEN s[x] ELSE a[k]]
    BY <1>2, <1>3, <1>5, <1>6
  <2>2. \A k \in 1 .. n : b[k] = IF k = n THEN s[x] ELSE a[k]
    <3>1. \A k \in 1 .. n : k = n \/ k \in 1 .. n - 1
      BY <1>6
    <3> QED BY <1>6, <3>1
  <2> QED BY <2>1, <2>2
<1> QED BY <1>7 DEF T, a, b

LEMMA ThoseNone == ASSUME NEW s PROVE Those(s, {}) = <<>>
BY FS_EmptySet DEF Those
-----------------------------------------------------------------------------
(* A frame, byte by byte                                                   *)
HeadOf(type) == IF type = "NONE" THEN 4 ELSE 5

(* Two parts put together, and their bytes                                 *)
Joins(z, s, m, t, n) ==
    /\ z \in Seq(Byte) /\ Len(z) = m + n
    /\ \A k \in 1 .. m : z[k] = s[k]
    /\ \A k \in 1 .. n : z[m + k] = t[k]

LEMMA JoinsLen ==
    ASSUME NEW s \in Seq(Byte), NEW t \in Seq(Byte)
    PROVE  Joins(s \o t, s, Len(s), t, Len(t))
BY Joined DEF Joins

LEMMA JoinsAt ==
    ASSUME NEW s \in Seq(Byte), NEW t \in Seq(Byte), NEW m, NEW n, Len(s) = m, Len(t) = n
    PROVE  Joins(s \o t, s, m, t, n)
<1>1. Joins(s \o t, s, Len(s), t, Len(t))
  BY JoinsLen, Zenon
<1> QED BY <1>1

Four(f, s, t, u, l, v) ==
    /\ f \in Seq(Byte) /\ Len(f) = 3 + l + Len(v)
    /\ f[1] = s[1] /\ f[2] = t[1] /\ f[3] = t[2] /\ f[4] = u[1]
    /\ l = 2 => f[5] = u[2]
    /\ SubSeq(f, 3 + l + 1, Len(f)) = v

(* Four parts put together, and the bytes of a frame                       *)
LEMMA FourJoined ==
    ASSUME NEW s \in Seq(Byte), Len(s) = 1, NEW t \in Seq(Byte), Len(t) = 2,
           NEW u \in Seq(Byte), NEW l \in {1, 2}, Len(u) = l, NEW v \in Seq(Byte)
    PROVE  Four(s \o t \o u \o v, s, t, u, l, v)
<1> DEFINE a == s \o t
           b == a \o u
           f == b \o v
<1>1. a \in Seq(Byte) /\ Len(a) = 3 /\ a[1] = s[1] /\ a[2] = t[1] /\ a[3] = t[2]
  <2>1. PICK m \in Nat, n \in Nat : m = 1 /\ n = 2
    OBVIOUS
  <2>2. Joins(a, s, m, t, n)
    <3>1. Len(s) = m /\ Len(t) = n
      BY <2>1
    <3> QED BY <3>1, JoinsAt, Zenon
  <2> HIDE DEF a
  <2>3. a \in Seq(Byte) /\ Len(a) = 3 /\ a[1] = s[1] /\ a[1 + 1] = t[1] /\ a[1 + 2] = t[2]
    BY <2>1, <2>2 DEF Joins
  <2> QED BY <2>3
<1> HIDE DEF a
<1>2. b \in Seq(Byte) /\ Len(b) = 3 + l /\ b[1] = a[1] /\ b[2] = a[2] /\ b[3] = a[3] /\ b[4] = u[1]
      /\ (l = 2 => b[5] = u[2])
  <2>1. PICK m \in Nat : m = 3
    OBVIOUS
  <2>2. Joins(b, a, m, u, l)
    <3>1. Len(a) = m
      BY <1>1, <2>1
    <3> QED BY <1>1, <3>1, JoinsAt, Zenon
  <2> HIDE DEF b
  <2>3. b \in Seq(Byte) /\ Len(b) = 3 + l /\ b[1] = a[1] /\ b[2] = a[2] /\ b[3] = a[3]
        /\ b[3 + 1] = u[1] /\ (l = 2 => b[3 + 2] = u[2])
    BY <2>1, <2>2 DEF Joins
  <2> QED BY <2>3
<1> HIDE DEF b
<1>3. /\ f \in Seq(Byte) /\ Len(f) = 3 + l + Len(v)
      /\ f[1] = b[1] /\ f[2] = b[2] /\ f[3] = b[3] /\ f[4] = b[4]
      /\ l = 2 => f[5] = b[5]
      /\ SubSeq(f, 3 + l + 1, Len(f)) = v
  <2>1. f \in Seq(Byte) /\ Len(f) = Len(b) + Len(v)
    BY <1>2, Joined
  <2>2. \A k \in 1 .. Len(b) : f[k] = b[k]
    BY <1>2, Joined
  <2>3. \A k \in 1 .. Len(v) : f[Len(b) + k] = v[k]
    BY <1>2, Joined
  <2> HIDE DEF f
  <2>4. f[1] = b[1] /\ f[2] = b[2] /\ f[3] = b[3] /\ f[4] = b[4] /\ (l = 2 => f[5] = b[5])
    BY <1>2, <2>2
  <2>5. PICK m \in Nat : m = 3 + l
    OBVIOUS
  <2>6. SubSeq(f, m + 1, Len(f)) = v
    <3>1. Len(f) = m + Len(v) /\ \A k \in 1 .. Len(v) : f[m + k] = v[k]
      BY <1>2, <2>1, <2>3, <2>5
    <3>2. SubSeq(f, m + 1, Len(f)) = [k \in 1 .. Len(v) |-> f[m + k]]
      BY <2>1, <3>1
    <3>3. v = [k \in 1 .. Len(v) |-> v[k]]
      OBVIOUS
    <3> QED BY <3>1, <3>2, <3>3
  <2> QED BY <1>2, <2>1, <2>4, <2>5, <2>6
<1>4. f = s \o t \o u \o v
  BY DEF f, b, a
<1> HIDE DEF f
<1>5. Four(f, s, t, u, l, v)
  BY <1>1, <1>2, <1>3 DEF Four
<1> QED BY <1>4, <1>5

Framed(f, h, type, opcode, body, sequence) ==
    /\ f \in Seq(Byte) /\ Len(f) = h + Len(body)
    /\ f[1] = SIGNATURE /\ f[4] = opcode
    /\ f[2] = ((Len(body) + h - 3) \div 256) % 256 /\ f[3] = (Len(body) + h - 3) % 256
    /\ type # "NONE" => f[5] = sequence
    /\ SubSeq(f, h + 1, Len(f)) = body

LEMMA FrameBytes ==
    ASSUME NEW type, NEW opcode \in Byte, NEW body \in Seq(Byte), NEW sequence \in Byte
    PROVE  Framed(BuildFrame(type, opcode, body, sequence), HeadOf(type), type, opcode, body, sequence)
<1> DEFINE n(l) == Len(body) + l
           one == <<SIGNATURE>>
           f == BuildFrame(type, opcode, body, sequence)
<1>1. one \in Seq(Byte) /\ Len(one) = 1 /\ one[1] = SIGNATURE
  BY DEF SIGNATURE, Byte
<1>2. Len(body) + 1 \in Nat /\ Len(body) + 2 \in Nat /\ Len(body) \in Nat
  OBVIOUS
<1>3. CASE type = "NONE"
  <2> DEFINE u == <<opcode>>
             mid == TwoBytes(Len(body) + 1)
  <2>1. u \in Seq(Byte) /\ Len(u) = 1 /\ u[1] = opcode
    OBVIOUS
  <2>2. mid \in Seq(Byte) /\ Len(mid) = 2
        /\ mid[1] = ((Len(body) + 1) \div 256) % 256 /\ mid[2] = (Len(body) + 1) % 256
    BY <1>2, TwoBytesType
  <2>3. f = one \o mid \o u \o body
    BY <1>3 DEF BuildFrame
  <2> HIDE DEF u, mid, one, f
  <2>4. f \in Seq(Byte) /\ Len(f) = 3 + 1 + Len(body)
        /\ f[1] = one[1] /\ f[2] = mid[1] /\ f[3] = mid[2] /\ f[4] = u[1]
        /\ SubSeq(f, 3 + 1 + 1, Len(f)) = body
    <3>1. PICK l \in {1, 2} : l = 1
      OBVIOUS
    <3>2. Len(u) = l
      BY <2>1, <3>1
    <3>3. Four(one \o mid \o u \o body, one, mid, u, l, body)
      BY <1>1, <2>1, <2>2, <3>2, FourJoined, Zenon
    <3> QED BY <2>3, <3>1, <3>3 DEF Four
  <2>5. HeadOf(type) = 4
    BY <1>3 DEF HeadOf
  <2>6. 3 + 1 + 1 = HeadOf(type) + 1 /\ 3 + 1 + Len(body) = HeadOf(type) + Len(body)
        /\ Len(body) + HeadOf(type) - 3 = Len(body) + 1
    BY <1>2, <2>5
  <2>7. f \in Seq(Byte) /\ Len(f) = HeadOf(type) + Len(body)
        /\ f[1] = SIGNATURE /\ f[4] = opcode
        /\ f[2] = ((Len(body) + HeadOf(type) - 3) \div 256) % 256
        /\ f[3] = (Len(body) + HeadOf(type) - 3) % 256
        /\ SubSeq(f, HeadOf(type) + 1, Len(f)) = body
    BY <1>1, <2>1, <2>2, <2>4, <2>6, Zenon
  <2> QED BY <1>3, <2>7 DEF f, Framed
<1>4. CASE type # "NONE"
  <2> DEFINE u == <<opcode, sequence>>
             mid == TwoBytes(Len(body) + 2)
  <2>1. u \in Seq(Byte) /\ Len(u) = 2 /\ u[1] = opcode /\ u[2] = sequence
    OBVIOUS
  <2>2. mid \in Seq(Byte) /\ Len(mid) = 2
        /\ mid[1] = ((Len(body) + 2) \div 256) % 256 /\ mid[2] = (Len(body) + 2) % 256
    BY <1>2, TwoBytesType
  <2>3. f = one \o mid \o u \o body
    BY <1>4 DEF BuildFrame
  <2> HIDE DEF u, mid, one, f
  <2>4. f \in Seq(Byte) /\ Len(f) = 3 + 2 + Len(body)
        /\ f[1] = one[1] /\ f[2] = mid[1] /\ f[3] = mid[2] /\ f[4] = u[1]
        /\ f[5] = u[2]
        /\ SubSeq(f, 3 + 2 + 1, Len(f)) = body
    <3>1. PICK l \in {1, 2} : l = 2
      OBVIOUS
    <3>2. Len(u) = l
      BY <2>1, <3>1
    <3>3. Four(one \o mid \o u \o body, one, mid, u, l, body)
      BY <1>1, <2>1, <2>2, <3>2, FourJoined, Zenon
    <3> QED BY <2>3, <3>1, <3>3 DEF Four
  <2>5. HeadOf(type) = 5
    BY <1>4 DEF HeadOf
  <2>6. 3 + 2 + 1 = HeadOf(type) + 1 /\ 3 + 2 + Len(body) = HeadOf(type) + Len(body)
        /\ Len(body) + HeadOf(type) - 3 = Len(body) + 2
    BY <1>2, <2>5
  <2>7. f \in Seq(Byte) /\ Len(f) = HeadOf(type) + Len(body)
        /\ f[1] = SIGNATURE /\ f[4] = opcode
        /\ f[2] = ((Len(body) + HeadOf(type) - 3) \div 256) % 256
        /\ f[3] = (Len(body) + HeadOf(type) - 3) % 256
        /\ f[5] = sequence
        /\ SubSeq(f, HeadOf(type) + 1, Len(f)) = body
    BY <1>1, <2>1, <2>2, <2>4, <2>6, Zenon
  <2> QED BY <2>7 DEF f, Framed
<1> QED BY <1>3, <1>4

(* What the client sends is what the server reads: both of its packets     *)
(* have a sequence number.                                                 *)
LEMMA SentIsRead ==
    ASSUME NEW opcode \in {WORLD_LIST_REQUEST, HEARTBEAT_RESPONSE}, NEW body \in Seq(Byte),
           NEW packets \in Seq(Seq(Byte)), NEW d \in DrawSet, DigestIsBytes
    PROVE  \E q \in Seq(Byte) : /\ Send(opcode, body, packets, d) = Append(packets, q)
                                /\ ServerReads(q) = [opcode |-> opcode, body |-> body]
<1> DEFINE seq == Len(packets) % 256
           type == ClientType(opcode)
           sent == ClientEncrypt(body, opcode, seq, d.a, d.b)
           q == BuildFrame(type, opcode, sent, seq)
<1>1. opcode \in Byte /\ type # "NONE"
  BY DEF WORLD_LIST_REQUEST, HEARTBEAT_RESPONSE, Byte, ClientType, Encryption, ClientNone, ClientNormal
<1>2. seq \in Byte
  BY ModByte
<1>3. d.a \in RandomA /\ d.b \in RandomB
  BY DEF DrawSet
<1>4. sent \in Seq(Byte) /\ ServerDecrypt(sent, opcode, seq) = body
  <2> HIDE DEF seq
  <2> QED BY <1>1, <1>2, <1>3, ServerReadsClient
<1> HIDE DEF type, sent, seq
<1>5. /\ q \in Seq(Byte) /\ q[4] = opcode /\ q[5] = seq
      /\ SubSeq(q, 6, Len(q)) = sent
  <2>1. HeadOf(type) = 5
    BY <1>1 DEF HeadOf
  <2>2. q \in Seq(Byte) /\ q[4] = opcode /\ q[5] = seq /\ SubSeq(q, HeadOf(type) + 1, Len(q)) = sent
    <3>1. Framed(q, HeadOf(type), type, opcode, sent, seq)
      BY <1>1, <1>2, <1>4, FrameBytes
    <3> HIDE DEF q
    <3> QED BY <1>1, <3>1 DEF Framed
  <2>3. HeadOf(type) + 1 = 6
    BY <2>1
  <2> HIDE DEF q
  <2> QED BY <2>2, <2>3
<1>6. ServerReads(q) = [opcode |-> opcode, body |-> body]
  <2>1. Rest(q, 5) = sent
    BY <1>5 DEF Rest
  <2> HIDE DEF q
  <2> QED BY <1>4, <1>5, <2>1 DEF ServerReads
<1>7. Send(opcode, body, packets, d) = Append(packets, q)
  BY DEF Send, q, sent, type, seq
<1> QED BY <1>5, <1>6, <1>7

(* One packet for the request and one for every heartbeat                  *)
Beats(h) == Those(h, {k \in DOMAIN h : h[k].opcode = HEARTBEAT})
Reply(entry) == [opcode |-> HEARTBEAT_RESPONSE, body |-> <<entry.body[2], entry.body[1]>>]
Answers(h, packets) ==
    /\ Len(packets) = Len(Beats(h)) + 1
    /\ ServerReads(packets[1]) = [opcode |-> WORLD_LIST_REQUEST, body |-> <<>>]
    /\ \A i \in 1 .. Len(Beats(h)) : ServerReads(packets[i + 1]) = Reply(Beats(h)[i])

LEMMA BeatsType ==
    ASSUME NEW h \in Seq(HandledSet)
    PROVE  Beats(h) \in Seq(HandledSet)
<1> DEFINE S == {k \in DOMAIN h : h[k].opcode = HEARTBEAT}
<1>1. S \in SUBSET DOMAIN h
  OBVIOUS
<1> HIDE DEF S
<1>2. Those(h, S) \in Seq(HandledSet)
  BY <1>1, ThoseType
<1> QED BY <1>2 DEF Beats, S

(* One more frame handled                                                  *)
LEMMA BeatsMore ==
    ASSUME NEW h \in Seq(HandledSet), NEW entry \in HandledSet
    PROVE  Beats(Append(h, entry)) =
             IF entry.opcode = HEARTBEAT THEN Append(Beats(h), entry) ELSE Beats(h)
<1> DEFINE g == Append(h, entry)
           n == Len(h)
           S == {k \in DOMAIN h : h[k].opcode = HEARTBEAT}
           T == {k \in DOMAIN g : g[k].opcode = HEARTBEAT}
<1>1. /\ n \in Nat /\ g \in Seq(HandledSet) /\ Len(g) = n + 1 /\ DOMAIN h = 1 .. n /\ DOMAIN g = 1 .. n + 1
      /\ g[n + 1] = entry /\ \A k \in 1 .. n : g[k] = h[k]
  OBVIOUS
<1> HIDE DEF g, n
<1>2. S \in SUBSET (1 .. n) /\ n + 1 \notin S
  BY <1>1
<1>3. \A k \in 1 .. n + 1 : k \in T <=> (k \in S \/ (k = n + 1 /\ entry.opcode = HEARTBEAT))
  BY <1>1
<1>4. T \subseteq 1 .. n + 1
  BY <1>1
<1> HIDE DEF S, T
<1>5. Those(g, S) = Those(h, S)
  <2>1. S \in SUBSET DOMAIN h
    BY <1>1, <1>2
  <2>2. \A k \in 1 .. Cardinality(S) : Nth(S, k) \in 1 .. n
    BY <1>2, <2>1, ThoseType
  <2>3. \A k \in 1 .. Cardinality(S) : g[Nth(S, k)] = h[Nth(S, k)]
    BY <1>1, <2>2
  <2> QED BY <2>3 DEF Those
<1>6. CASE entry.opcode = HEARTBEAT
  <2>1. n + 1 \in T /\ T \ {n + 1} = S /\ T \in SUBSET (1 .. Len(g)) /\ \A y \in T : y <= n + 1
    <3>1. n + 1 \in T
      BY <1>1, <1>3, <1>6
    <3>2. \A k : k \in T \ {n + 1} <=> k \in S
      <4>1. \A k \in 1 .. n + 1 : k \in T \ {n + 1} <=> k \in S
        BY <1>1, <1>2, <1>3
      <4>2. \A k : k \in S => k \in 1 .. n + 1
        BY <1>1, <1>2
      <4> QED BY <1>4, <4>1, <4>2, Zenon
    <3>3. T \ {n + 1} = S
      BY <3>2
    <3> QED BY <1>1, <1>4, <3>1, <3>3
  <2>2. Those(g, T) = Append(Those(g, T \ {n + 1}), g[n + 1])
    BY <1>1, <2>1, ThoseMore
  <2> QED BY <1>1, <1>5, <1>6, <2>1, <2>2 DEF Beats, g, S, T
<1>7. CASE entry.opcode # HEARTBEAT
  <2>1. T = S
    <3>1. \A k \in 1 .. n + 1 : k \in T <=> k \in S
      BY <1>3, <1>7
    <3>2. \A k : k \in S => k \in 1 .. n + 1
      BY <1>1, <1>2
    <3>3. \A k : k \in T <=> k \in S
      BY <1>4, <3>1, <3>2, Zenon
    <3> QED BY <3>3
  <2> QED BY <1>5, <1>7, <2>1 DEF Beats, g, S, T
<1> QED BY <1>6, <1>7

(* The packets answer the frames handled: of a run that begins, after a    *)
(* heartbeat, and after the list.                                          *)
LEMMA AnswersFirst ==
    ASSUME NEW d \in DrawSet, DigestIsBytes
    PROVE  Answers(<<>>, Send(WORLD_LIST_REQUEST, <<>>, <<>>, d))
<1>1. PICK q \in Seq(Byte) : /\ Send(WORLD_LIST_REQUEST, <<>>, <<>>, d) = Append(<<>>, q)
                             /\ ServerReads(q) = [opcode |-> WORLD_LIST_REQUEST, body |-> <<>>]
  BY EmptyRun, SentIsRead
<1>2. Beats(<<>>) = <<>>
  <2>1. {k \in DOMAIN <<>> : <<>>[k].opcode = HEARTBEAT} = {}
    OBVIOUS
  <2> QED BY <2>1, ThoseNone DEF Beats
<1> DEFINE packets == Append(<<>>, q)
<1>3. Len(packets) = 1 /\ packets[1] = q /\ Len(Beats(<<>>)) = 0
  BY <1>2
<1> HIDE DEF packets
<1>4. Answers(<<>>, packets)
  BY <1>1, <1>3 DEF Answers
<1> QED BY <1>1, <1>4 DEF packets

LEMMA AnswersMore ==
    ASSUME NEW h \in Seq(HandledSet), NEW packets \in Seq(Seq(Byte)), NEW d \in DrawSet, DigestIsBytes,
           NEW entry \in HandledSet, entry.opcode = HEARTBEAT, HeartbeatResponse(entry.body) \in Seq(Byte),
           Answers(h, packets)
    PROVE  Answers(Append(h, entry), Send(HEARTBEAT_RESPONSE, HeartbeatResponse(entry.body), packets, d))
<1>1. PICK q \in Seq(Byte) :
        /\ Send(HEARTBEAT_RESPONSE, HeartbeatResponse(entry.body), packets, d) = Append(packets, q)
        /\ ServerReads(q) = [opcode |-> HEARTBEAT_RESPONSE, body |-> HeartbeatResponse(entry.body)]
  BY SentIsRead
<1>2. ServerReads(q) = Reply(entry)
  BY <1>1 DEF Reply, HeartbeatResponse
<1>3. Beats(Append(h, entry)) = Append(Beats(h), entry) /\ Beats(h) \in Seq(HandledSet)
  BY BeatsMore, BeatsType
<1> DEFINE b == Beats(h)
           c == Append(b, entry)
           more == Append(packets, q)
<1>5. /\ Len(more) = Len(packets) + 1 /\ more[Len(packets) + 1] = q /\ Len(packets) \in Nat
      /\ \A i \in 1 .. Len(packets) : more[i] = packets[i]
  OBVIOUS
<1>6. /\ Len(c) = Len(b) + 1 /\ c[Len(b) + 1] = entry /\ Len(b) \in Nat
      /\ \A i \in 1 .. Len(b) : c[i] = b[i]
  <2> HIDE DEF b
  <2> QED BY <1>3 DEF b
<1> HIDE DEF b, c, more
<1>7. /\ Len(packets) = Len(b) + 1
      /\ ServerReads(packets[1]) = [opcode |-> WORLD_LIST_REQUEST, body |-> <<>>]
      /\ \A i \in 1 .. Len(b) : ServerReads(packets[i + 1]) = Reply(b[i])
  BY DEF Answers, b
<1>8. Len(more) = Len(c) + 1
  BY <1>5, <1>6, <1>7
<1>9. ServerReads(more[1]) = [opcode |-> WORLD_LIST_REQUEST, body |-> <<>>]
  <2>1. 1 \in 1 .. Len(packets)
    BY <1>6, <1>7
  <2> QED BY <1>5, <1>7, <2>1
<1>10. ASSUME NEW i \in 1 .. Len(c) PROVE ServerReads(more[i + 1]) = Reply(c[i])
  <2>1. CASE i \in 1 .. Len(b)
    <3>1. i + 1 \in 1 .. Len(packets)
      BY <1>6, <1>7, <2>1
    <3> QED BY <1>5, <1>6, <1>7, <2>1, <3>1
  <2>2. CASE i = Len(b) + 1
    <3>1. i + 1 = Len(packets) + 1
      BY <1>6, <1>7, <2>2
    <3> QED BY <1>2, <1>5, <1>6, <2>2, <3>1
  <2>3. i \in 1 .. Len(b) \/ i = Len(b) + 1
    BY <1>6
  <2> QED BY <2>1, <2>2, <2>3
<1>11. c = Beats(Append(h, entry))
  BY <1>3 DEF b, c
<1> QED BY <1>1, <1>8, <1>9, <1>10, <1>11 DEF Answers, more

LEMMA AnswersSame ==
    ASSUME NEW h \in Seq(HandledSet), NEW packets \in Seq(Seq(Byte)),
           NEW entry \in HandledSet, entry.opcode # HEARTBEAT, Answers(h, packets)
    PROVE  Answers(Append(h, entry), packets)
BY BeatsMore DEF Answers

(* Answers, as FramesAsSent says it                                        *)
LEMMA AnswersEqual ==
    ASSUME NEW h \in Seq(HandledSet), NEW packets \in Seq(Seq(Byte)), Answers(h, packets)
    PROVE  [i \in 1 .. Len(packets) |-> ServerReads(packets[i])] =
             <<[opcode |-> WORLD_LIST_REQUEST, body |-> <<>>]>>
               \o [i \in 1 .. Len(Beats(h)) |-> Reply(Beats(h)[i])]
<1> DEFINE b == Beats(h)
           first == [opcode |-> WORLD_LIST_REQUEST, body |-> <<>>]
           one == <<first>>
           replies == [i \in 1 .. Len(b) |-> Reply(b[i])]
           reads == [i \in 1 .. Len(packets) |-> ServerReads(packets[i])]
           V == {first} \cup {Reply(b[i]) : i \in 1 .. Len(b)}
<1>1. /\ Len(packets) = Len(b) + 1
      /\ ServerReads(packets[1]) = first
      /\ \A i \in 1 .. Len(b) : ServerReads(packets[i + 1]) = Reply(b[i])
  BY DEF Answers
<1>2. b \in Seq(HandledSet) /\ Len(b) \in Nat
  BY BeatsType
<1>3. one \in Seq(V) /\ Len(one) = 1 /\ one[1] = first
  <2> HIDE DEF first, b
  <2>1. first \in V
    OBVIOUS
  <2> HIDE DEF V
  <2> QED BY <2>1
<1>4. replies \in Seq(V) /\ Len(replies) = Len(b) /\ \A i \in 1 .. Len(b) : replies[i] = Reply(b[i])
  <2> HIDE DEF first, b
  <2>1. \A i \in 1 .. Len(b) : Reply(b[i]) \in V
    OBVIOUS
  <2> HIDE DEF V
  <2> QED BY <1>2, <2>1
<1> HIDE DEF b, first, one, V, replies
<1>5. one \o replies = [k \in 1 .. Len(one) + Len(replies) |->
                         IF k <= Len(one) THEN one[k] ELSE replies[k - Len(one)]]
  BY <1>3, <1>4, ConcatIs
<1>6. ASSUME NEW k \in 1 .. Len(packets)
      PROVE  ServerReads(packets[k]) = IF k <= Len(one) THEN one[k] ELSE replies[k - Len(one)]
  <2>1. CASE k = 1
    BY <1>1, <1>3, <2>1
  <2>2. CASE k # 1
    <3>1. k - 1 \in 1 .. Len(b) /\ (k - 1) + 1 = k /\ ~(k <= Len(one)) /\ Len(one) = 1
      BY <1>1, <1>2, <1>3, <2>2
    <3>2. ServerReads(packets[(k - 1) + 1]) = Reply(b[k - 1]) /\ replies[k - 1] = Reply(b[k - 1])
      BY <1>1, <1>4, <3>1
    <3> QED BY <3>1, <3>2
  <2> QED BY <2>1, <2>2
<1>7. Len(one) + Len(replies) = Len(packets)
  BY <1>1, <1>2, <1>3, <1>4
<1>8. reads = one \o replies
  <2>1. one \o replies = [k \in 1 .. Len(packets) |->
                           IF k <= Len(one) THEN one[k] ELSE replies[k - Len(one)]]
    BY <1>5, <1>7
  <2>2. reads = [k \in 1 .. Len(packets) |->
                           IF k <= Len(one) THEN one[k] ELSE replies[k - Len(one)]]
    BY <1>6
  <2> QED BY <2>1, <2>2
<1> QED BY <1>8 DEF one, replies, reads, b, first
-----------------------------------------------------------------------------
(* What one turn of parse_frames does with the bytes that are left         *)
Waits(data) == Len(data) <= HEADER_LENGTH \/ Len(data) < Total(data)
Bad(data)   == ~Waits(data) /\ (data[1] # SIGNATURE \/ (ServerType(data[4]) # "NONE" /\ Len(data) < 5))
Good(data)  == ~Waits(data) /\ data[1] = SIGNATURE /\ (ServerType(data[4]) # "NONE" => Len(data) >= 5)

Failing(s)  == [s EXCEPT !.frames = <<>>, !.raised = "ValueError"]
Indexing(s) == [s EXCEPT !.frames = <<>>, !.raised = "IndexError"]
Taking(s)   == [s EXCEPT !.frames = Append(@, FrameAt(s.left)), !.left = Rest(s.left, Total(s.left))]

(* A turn of parse_frames, in three cases                                  *)
LEMMA TurnIs ==
    ASSUME NEW s \in ParseStates
    PROVE  /\ s.raised # "no" \/ Waits(s.left) => ParseTurn(s) = s
           /\ s.raised = "no" /\ Bad(s.left) =>
                ParseTurn(s).raised # "no" /\ ParseTurn(s).frames = <<>>
           /\ s.raised = "no" /\ Good(s.left) =>
                /\ ParseTurn(s).raised = "no"
                /\ ParseTurn(s).frames = Append(s.frames, FrameAt(s.left))
                /\ ParseTurn(s).left = Rest(s.left, Total(s.left))
           /\ Waits(s.left) \/ Bad(s.left) \/ Good(s.left)
<1>0. s.left \in Seq(Byte) /\ Len(s.left) \in Nat
  BY DEF ParseStates
<1>1. s.raised # "no" \/ Waits(s.left) => ParseTurn(s) = s
  BY DEF ParseTurn, Waits
<1>2. ASSUME s.raised = "no", Bad(s.left)
      PROVE  ParseTurn(s).raised # "no" /\ ParseTurn(s).frames = <<>>
  <2>1. ~(s.raised # "no" \/ Len(s.left) <= HEADER_LENGTH \/ Len(s.left) < Total(s.left))
    BY <1>2 DEF Bad, Waits
  <2>2. ParseTurn(s) = Failing(s) \/ ParseTurn(s) = Indexing(s)
    BY <1>2, <2>1 DEF ParseTurn, Bad, Failing, Indexing
  <2>3. /\ Failing(s).raised = "ValueError" /\ Failing(s).frames = <<>>
        /\ Indexing(s).raised = "IndexError" /\ Indexing(s).frames = <<>>
    BY DEF ParseStates, Failing, Indexing
  <2> QED BY <2>2, <2>3
<1>3. ASSUME s.raised = "no", Good(s.left)
      PROVE  /\ ParseTurn(s).raised = "no"
             /\ ParseTurn(s).frames = Append(s.frames, FrameAt(s.left))
             /\ ParseTurn(s).left = Rest(s.left, Total(s.left))
  <2>1. ~(s.raised # "no" \/ Len(s.left) <= HEADER_LENGTH \/ Len(s.left) < Total(s.left))
    BY <1>3 DEF Good, Waits
  <2>2. ~(ServerType(s.left[4]) # "NONE" /\ Len(s.left) < 5) /\ ~(s.left[1] # SIGNATURE)
    BY <1>0, <1>3 DEF Good
  <2>3. ParseTurn(s) = Taking(s)
    BY <2>1, <2>2 DEF ParseTurn, Taking
  <2>4. /\ Taking(s).raised = s.raised /\ Taking(s).frames = Append(s.frames, FrameAt(s.left))
        /\ Taking(s).left = Rest(s.left, Total(s.left))
    BY DEF ParseStates, Taking
  <2> QED BY <1>3, <2>3, <2>4
<1>4. Waits(s.left) \/ Bad(s.left) \/ Good(s.left)
  BY <1>0 DEF Bad, Good
<1> QED BY <1>1, <1>2, <1>3, <1>4

(* data begins with bytes.                                                 *)
Begins(data, bytes) == Len(bytes) <= Len(data) /\ \A i \in 1 .. Len(bytes) : data[i] = bytes[i]

(* What a frame may be that a piece of the server is parsed as             *)
Fits(f, p) ==
    IF p.opcode = -1 THEN f.opcode \notin Handlers \/ TooShort(f.body, f.opcode)
    ELSE f.opcode = p.opcode /\ ~TooShort(f.body, f.opcode)
         /\ ClientDecrypt(f.body, f.opcode, f.sequence) = p.body

(* A part of a piece waits for the rest.  All of it is a frame that fits,  *)
(* or an exception; or it waits, if it is no frame, for what follows.      *)
Halting(p) ==
    \A data \in Seq(Byte) : Begins(p.bytes, data) /\ Len(data) < Len(p.bytes) => Waits(data)
Ready(p, data) ==
    \/ Bad(data)
    \/ Good(data) /\ Total(data) = Len(p.bytes) /\ Fits(FrameAt(data), p)
    \/ Waits(data) /\ p.opcode = -1 /\ Len(data) = Len(p.bytes)
Going(p) ==
    \A data \in Seq(Byte) :
      Begins(data, p.bytes) /\ (Len(data) > Len(p.bytes) => data[Len(p.bytes) + 1] \in {0, SIGNATURE})
        => Ready(p, data)
Sound(p) == /\ p \in Pieced /\ Len(p.bytes) >= 3 /\ p.bytes[1] \in {0, SIGNATURE}
            /\ Halting(p) /\ Going(p)

(* Bytes that say how many they are                                        *)
Exact(bytes) == bytes \in Seq(Byte) /\ Len(bytes) >= 4 /\ Total(bytes) = Len(bytes)

(* A piece that says its own length waits until it is whole, and is then   *)
(* taken whole.                                                            *)
LEMMA ExactWaits ==
    ASSUME NEW bytes, Exact(bytes), NEW data \in Seq(Byte), Begins(bytes, data), Len(data) < Len(bytes)
    PROVE  Waits(data)
<1>1. Len(data) \in Nat
  OBVIOUS
<1>2. CASE Len(data) > 3
  <2>1. 2 \in 1 .. Len(data) /\ 3 \in 1 .. Len(data) /\ 2 + 1 = 3
    BY <1>1, <1>2
  <2>2. bytes[2] = data[2] /\ bytes[3] = data[3]
    BY <2>1 DEF Begins
  <2>3. Total(data) = Total(bytes)
    BY <2>1, <2>2 DEF Total, Uint16
  <2> QED BY <2>3 DEF Exact, Waits
<1> QED BY <1>1, <1>2 DEF Waits, HEADER_LENGTH

LEMMA ExactReady ==
    ASSUME NEW bytes, Exact(bytes), NEW data \in Seq(Byte), Begins(data, bytes)
    PROVE  ~Waits(data) /\ Total(data) = Len(bytes) /\ data[1] = bytes[1] /\ data[4] = bytes[4]
<1>1. Len(data) \in Nat /\ Len(bytes) \in Nat /\ Len(bytes) >= 4 /\ Len(bytes) <= Len(data)
  BY DEF Exact, Begins
<1>2. 1 \in 1 .. Len(bytes) /\ 2 \in 1 .. Len(bytes) /\ 3 \in 1 .. Len(bytes) /\ 4 \in 1 .. Len(bytes) /\ 2 + 1 = 3
  BY <1>1
<1>3. data[1] = bytes[1] /\ data[2] = bytes[2] /\ data[3] = bytes[3] /\ data[4] = bytes[4]
  BY <1>2 DEF Begins
<1>4. Total(data) = Total(bytes)
  BY <1>2, <1>3 DEF Total, Uint16
<1>5. Total(data) = Len(bytes)
  BY <1>4 DEF Exact
<1> QED BY <1>1, <1>3, <1>5 DEF Waits, HEADER_LENGTH

(* Encryption adds three bytes to a packet that is encrypted.              *)
LEMMA EncryptLength ==
    ASSUME NEW body \in Seq(Byte), NEW opcode \in Byte, NEW sequence \in Byte,
           NEW a \in RandomA, NEW b \in RandomB
    PROVE  Len(ServerEncrypt(body, opcode, sequence, a, b)) <= Len(body) + 3
<1> DEFINE type   == ServerType(opcode)
           hidden == Transform(body, KeyOf(type, a, b), sequence)
           tail   == <<ByteXor(a % 256, 116), ByteXor(b, 36), ByteXor(a \div 256, 100)>>
<1>1. CASE type = "NONE"
  BY <1>1 DEF ServerEncrypt
<1>2. CASE type # "NONE"
  <2>1. hidden \in Seq(Byte) /\ Len(hidden) = Len(body)
    <3>1. a \in Nat /\ b \in Nat
      BY DEF RandomA, RandomB
    <3>2. KeyOf(type, a, b) \in Seq(Byte) /\ Len(KeyOf(type, a, b)) > 0
      BY <3>1, KeyIsKey
    <3> HIDE DEF type
    <3> QED BY <3>2, TransformIsBytes
  <2>2. tail \in Seq(Byte) /\ Len(tail) = 3
    <3>1. a % 256 \in Byte /\ a \div 256 \in Byte /\ b \in Byte
      BY Halves DEF RandomB, Byte
    <3>2. ByteXor(a % 256, 116) \in Byte /\ ByteXor(b, 36) \in Byte
          /\ ByteXor(a \div 256, 100) \in Byte
      BY <3>1, BytesSmall, XorAssumption
    <3> QED BY <3>2
  <2>3. ServerEncrypt(body, opcode, sequence, a, b) = hidden \o tail
    BY <1>2 DEF ServerEncrypt
  <2> HIDE DEF hidden, tail
  <2>4. Len(hidden \o tail) = Len(hidden) + Len(tail)
    BY <2>1, <2>2, ConcatProperties
  <2>5. Len(hidden \o tail) = Len(body) + 3
    BY <2>1, <2>2, <2>4
  <2> QED BY <2>3, <2>5
<1> QED BY <1>1, <1>2
-----------------------------------------------------------------------------
(* The two bytes of a length give the length back.                         *)
LEMMA TwoDigits ==
    ASSUME NEW n \in Nat, n < 65536
    PROVE  ((n \div 256) % 256) * 256 + (n % 256) = n
<1>1. n \div 256 \in 0 .. 255
  OBVIOUS
<1>2. PICK q \in 0 .. 255 : q = n \div 256
  BY <1>1
<1>3. q % 256 = q
  BY <1>2
<1>4. n = 256 * (n \div 256) + (n % 256)
  OBVIOUS
<1> QED BY <1>2, <1>3, <1>4

(* A packet of the server, as it sends it                                  *)
Packet(opcode, body, sequence, d) ==
    BuildFrame(ServerType(opcode), opcode, ServerEncrypt(body, opcode, sequence, d.a, d.b), sequence)

(* The header of a packet of the server                                    *)
LEMMA PacketIs ==
    ASSUME NEW opcode \in Byte, NEW body \in Seq(Byte), NEW sequence \in Byte, NEW d \in DrawSet,
           Len(body) <= MaxBody
    PROVE  /\ Exact(Packet(opcode, body, sequence, d))
           /\ \E sent \in Seq(Byte) :
                /\ Framed(Packet(opcode, body, sequence, d), HeadOf(ServerType(opcode)),
                          ServerType(opcode), opcode, sent, sequence)
                /\ ~TooShort(sent, opcode)
                /\ \A s \in {0, sequence} : (ServerType(opcode) = "NONE" \/ s = sequence) =>
                     ClientDecrypt(sent, opcode, s) = body
<1> DEFINE type == ServerType(opcode)
           sent == ServerEncrypt(body, opcode, sequence, d.a, d.b)
           p == BuildFrame(type, opcode, sent, sequence)
           h == HeadOf(type)
<1>1. d.a \in RandomA /\ d.b \in RandomB
  BY DEF DrawSet
<1>2. sent \in Seq(Byte) /\ ~TooShort(sent, opcode) /\ ClientDecrypt(sent, opcode, sequence) = body
  BY <1>1, ClientReadsServer
<1>3. Len(sent) <= Len(body) + 3
  BY <1>1, EncryptLength
<1> HIDE DEF sent
<1>4. ASSUME NEW s \in {0, sequence}, type = "NONE" \/ s = sequence
      PROVE  ClientDecrypt(sent, opcode, s) = body
  <2>1. CASE type = "NONE"
    <3>1. ClientDecrypt(sent, opcode, s) = sent /\ ClientDecrypt(sent, opcode, sequence) = sent
      BY <2>1 DEF ClientDecrypt
    <3> QED BY <1>2, <3>1
  <2>2. CASE type # "NONE"
    BY <1>2, <1>4, <2>2
  <2> QED BY <2>1, <2>2
<1>5. Framed(p, h, type, opcode, sent, sequence)
  <2> HIDE DEF type
  <2> QED BY <1>2, FrameBytes
<1>6. Exact(p)
  <2>1. h \in {4, 5}
    BY DEF HeadOf
  <2>2. PICK n \in Nat : n = Len(sent) + h - 3 /\ n < 65536 /\ Len(sent) \in Nat
    <3>1. Len(sent) \in Nat /\ Len(body) \in Nat
      BY <1>2
    <3> HIDE DEF h
    <3>2. Len(body) <= 65530
      BY DEF MaxBody
    <3>3. Len(sent) <= 65533
      BY <1>3, <3>1, <3>2
    <3>4. Len(sent) + h - 3 \in Nat /\ Len(sent) + h - 3 < 65536
      BY <2>1, <3>1, <3>3
    <3> QED BY <3>1, <3>4
  <2> HIDE DEF p, h
  <2>3. p \in Seq(Byte) /\ Len(p) = h + Len(sent) /\ p[2] = (n \div 256) % 256 /\ p[3] = n % 256
    BY <1>5, <2>2 DEF Framed
  <2>4. Total(p) = n + 3
    <3>1. p[2] * 256 + p[3] = n
      BY <2>2, <2>3, TwoDigits
    <3>2. 2 + 1 = 3
      OBVIOUS
    <3>3. Total(p) = p[2] * 256 + p[3] + 3
      BY <3>2 DEF Total, Uint16, HEADER_LENGTH
    <3> QED BY <3>1, <3>3
  <2>5. n + 3 = Len(p) /\ Len(p) >= 4
    BY <2>1, <2>2, <2>3
  <2> QED BY <2>3, <2>4, <2>5 DEF Exact
<1>7. Packet(opcode, body, sequence, d) = p
  BY DEF Packet, sent
<1> QED BY <1>2, <1>4, <1>5, <1>6, <1>7

(* A packet is parsed as what was encrypted into it, whatever follows it.  *)
LEMMA PieceSound ==
    ASSUME NEW opcode \in Byte, NEW body \in Seq(Byte), NEW sequence \in Byte, NEW d \in DrawSet,
           Len(body) <= MaxBody
    PROVE  Sound(Piece(opcode, body, sequence, d))
<1> DEFINE piece == Piece(opcode, body, sequence, d)
           p == Packet(opcode, body, sequence, d)
           type == ServerType(opcode)
<1>1. piece \in Pieced /\ piece.opcode = opcode /\ piece.body = body /\ piece.bytes = p
  BY PieceIsPieced DEF Piece, Packet
<1>2. Exact(p)
  BY PacketIs
<1>3. PICK sent \in Seq(Byte) :
        /\ Framed(p, HeadOf(type), type, opcode, sent, sequence)
        /\ ~TooShort(sent, opcode)
        /\ \A s \in {0, sequence} : (type = "NONE" \/ s = sequence) => ClientDecrypt(sent, opcode, s) = body
  BY PacketIs, Zenon
<1> HIDE DEF piece, p
<1>4. Halting(piece)
  <2>1. ASSUME NEW data \in Seq(Byte), Begins(p, data), Len(data) < Len(p) PROVE Waits(data)
    BY <1>2, <2>1, ExactWaits
  <2> QED BY <1>1, <2>1 DEF Halting
<1>5. ASSUME NEW data \in Seq(Byte), Begins(data, p) PROVE Ready(piece, data)
  <2>1. ~Waits(data) /\ Total(data) = Len(p) /\ data[1] = p[1] /\ data[4] = p[4]
    BY <1>2, <1>5, ExactReady
  <2>2. p[1] = SIGNATURE /\ p[4] = opcode /\ Len(p) = HeadOf(type) + Len(sent)
        /\ (type # "NONE" => p[5] = sequence) /\ SubSeq(p, HeadOf(type) + 1, Len(p)) = sent
    BY <1>3 DEF Framed
  <2>3. Len(data) >= Len(p) /\ Len(sent) \in Nat /\ Len(data) \in Nat /\ Len(p) \in Nat
    BY <1>2, <1>5 DEF Begins, Exact
  <2>4. type # "NONE" => Len(data) >= 5 /\ data[5] = sequence
    <3>1. type # "NONE" => HeadOf(type) = 5
      BY DEF HeadOf
    <3>2. type # "NONE" => 5 \in 1 .. Len(p)
      BY <2>2, <2>3, <3>1
    <3> QED BY <1>5, <2>2, <2>3, <3>2 DEF Begins
  <2>5. Good(data)
    BY <2>1, <2>2, <2>4 DEF Good
  <2>6. FrameAt(data).opcode = opcode
        /\ FrameAt(data).sequence = (IF type # "NONE" THEN data[5] ELSE 0)
        /\ FrameAt(data).body = SubSeq(data, IF type # "NONE" THEN 6 ELSE 5, Len(p))
    BY <2>1, <2>2 DEF FrameAt
  <2>7. (IF type # "NONE" THEN 6 ELSE 5) = HeadOf(type) + 1 /\ HeadOf(type) \in {4, 5}
    BY DEF HeadOf
  <2>8. SubSeq(data, HeadOf(type) + 1, Len(p)) = sent
    <3> DEFINE h == HeadOf(type)
    <3>1. h \in {4, 5}
      BY <2>7
    <3> HIDE DEF h
    <3>2. SubSeq(data, h + 1, Len(p)) = [i \in 1 .. Len(sent) |-> data[h + i]]
          /\ SubSeq(p, h + 1, Len(p)) = [i \in 1 .. Len(sent) |-> p[h + i]]
      <4>1. Len(p) = h + Len(sent)
        BY <2>2 DEF h
      <4>2. p \in Seq(Byte)
        BY <1>2 DEF Exact
      <4> QED BY <2>3, <3>1, <4>1, <4>2
    <3>3. \A i \in 1 .. Len(sent) : data[h + i] = p[h + i]
      <4>1. Len(p) = h + Len(sent)
        BY <2>2 DEF h
      <4>2. \A i \in 1 .. Len(sent) : h + i \in 1 .. Len(p)
        BY <2>3, <3>1, <4>1
      <4> QED BY <1>5, <4>2 DEF Begins
    <3>4. SubSeq(p, h + 1, Len(p)) = sent
      BY <2>2 DEF h
    <3>5. SubSeq(data, h + 1, Len(p)) = sent
      BY <3>2, <3>3, <3>4
    <3> QED BY <3>5 DEF h
  <2>9. FrameAt(data).body = sent
    BY <2>6, <2>7, <2>8
  <2>10. FrameAt(data).sequence \in {0, sequence} /\ (type = "NONE" \/ FrameAt(data).sequence = sequence)
    BY <2>4, <2>6
  <2>11. Fits(FrameAt(data), piece)
    <3>1. opcode # -1
      BY ByteIs
    <3>2. ClientDecrypt(sent, opcode, FrameAt(data).sequence) = body
      BY <1>3, <2>10
    <3> QED BY <1>1, <1>3, <2>6, <2>9, <3>1, <3>2 DEF Fits
  <2> QED BY <1>1, <2>1, <2>5, <2>11 DEF Ready
<1>6. Going(piece)
  BY <1>1, <1>5 DEF Going
<1>7. Len(p) >= 3 /\ p[1] = SIGNATURE
  <2>1. Len(p) \in Nat
    BY <1>2 DEF Exact
  <2> QED BY <1>2, <1>3, <2>1 DEF Exact, Framed
<1>8. Sound(piece)
  BY <1>1, <1>4, <1>6, <1>7 DEF Sound
<1> QED BY <1>8 DEF piece
-----------------------------------------------------------------------------
LEMMA JunkIs ==
    ASSUME NEW bytes \in Seq(Byte)
    PROVE  Junk(bytes) \in Pieced /\ Junk(bytes).opcode = -1 /\ Junk(bytes).bytes = bytes
BY JunkIsPieced DEF Junk

(* The signature of a packet is broken.                                    *)
LEMMA BrokenSound ==
    ASSUME NEW bytes, Exact(bytes)
    PROVE  Sound(Junk([bytes EXCEPT ![1] = 0]))
<1> DEFINE z == [bytes EXCEPT ![1] = 0]
           piece == Junk(z)
<1>1. bytes \in Seq(Byte) /\ Len(bytes) \in Nat /\ Len(bytes) >= 4
  BY DEF Exact
<1>2. z \in Seq(Byte) /\ Len(z) = Len(bytes) /\ z[1] = 0 /\ z[2] = bytes[2] /\ z[3] = bytes[3]
  <2>1. z \in Seq(Byte)
    BY <1>1, OneZeroed
  <2>2. Len(z) = Len(bytes) /\ z[1] = 0 /\ z[2] = bytes[2] /\ z[3] = bytes[3]
    BY <1>1
  <2> QED BY <2>1, <2>2
<1> HIDE DEF z
<1>3. Exact(z)
  <2>1. Total(z) = Total(bytes)
    <3>1. 2 + 1 = 3
      OBVIOUS
    <3> QED BY <1>2, <3>1 DEF Total, Uint16
  <2> QED BY <1>1, <1>2, <2>1 DEF Exact
<1>4. piece \in Pieced /\ piece.opcode = -1 /\ piece.bytes = z
  BY <1>2, JunkIs
<1> HIDE DEF piece
<1>5. Halting(piece)
  <2>1. ASSUME NEW data \in Seq(Byte), Begins(z, data), Len(data) < Len(z) PROVE Waits(data)
    BY <1>3, <2>1, ExactWaits
  <2> QED BY <1>4, <2>1 DEF Halting
<1>6. ASSUME NEW data \in Seq(Byte), Begins(data, z) PROVE Ready(piece, data)
  <2>1. ~Waits(data) /\ data[1] = 0
    BY <1>2, <1>3, <1>6, ExactReady
  <2> QED BY <2>1 DEF Ready, Bad, SIGNATURE
<1>7. Going(piece)
  BY <1>4, <1>6 DEF Going
<1>8. Sound(piece)
  BY <1>1, <1>2, <1>4, <1>5, <1>7 DEF Sound
<1> QED BY <1>8 DEF piece, z

(* A frame of length 0 takes its opcode from what follows it, which        *)
(* nobody handles: a signature, or the zero in its place.                  *)
LEMMA ZeroSound == Sound(Junk(<<SIGNATURE, 0, 0>>))
<1> DEFINE z == <<SIGNATURE, 0, 0>>
           piece == Junk(z)
<1>1. z \in Seq(Byte) /\ Len(z) = 3 /\ z[1] = SIGNATURE /\ z[2] = 0 /\ z[3] = 0
  BY DEF SIGNATURE, Byte
<1> HIDE DEF z
<1>2. piece \in Pieced /\ piece.opcode = -1 /\ piece.bytes = z
  BY <1>1, JunkIs
<1> HIDE DEF piece
<1>3. Halting(piece)
  BY <1>1, <1>2 DEF Halting, Waits, HEADER_LENGTH
<1>4. ASSUME NEW data \in Seq(Byte), Begins(data, z), Len(data) > 3 => data[3 + 1] \in {0, SIGNATURE}
      PROVE  Ready(piece, data)
  <2>1. Len(data) >= 3 /\ data[1] = SIGNATURE /\ data[2] = 0 /\ data[3] = 0 /\ Len(data) \in Nat
    BY <1>1, <1>4 DEF Begins
  <2>2. CASE Len(data) = 3
    <3>1. Waits(data)
      BY <2>2 DEF Waits, HEADER_LENGTH
    <3> QED BY <1>1, <1>2, <2>2, <3>1 DEF Ready
  <2>3. CASE Len(data) > 3
    <3>1. Total(data) = 3
      <4>1. 2 + 1 = 3
        OBVIOUS
      <4>2. Total(data) = data[2] * 256 + data[3] + 3
        BY <4>1 DEF Total, Uint16, HEADER_LENGTH
      <4>3. 0 * 256 + 0 + 3 = 3
        OBVIOUS
      <4> QED BY <2>1, <4>2, <4>3
    <3>2. ~Waits(data)
      BY <2>3, <3>1, <2>1 DEF Waits, HEADER_LENGTH
    <3>3. FrameAt(data).opcode = data[4]
      BY DEF FrameAt
    <3>4. data[4] \notin Handlers
      BY <1>4, <2>3 DEF Handlers, WORLD_LIST, HEARTBEAT, SIGNATURE
    <3>5. Fits(FrameAt(data), piece)
      BY <1>2, <3>3, <3>4 DEF Fits
    <3>6. Bad(data) \/ Good(data)
      BY <2>1, <3>2 DEF Bad, Good
    <3> QED BY <1>1, <1>2, <3>1, <3>5, <3>6 DEF Ready
  <2>4. Len(data) \in Nat
    OBVIOUS
  <2>5. Len(data) >= 3
    BY <2>1, Zenon
  <2>6. Len(data) = 3 \/ Len(data) > 3
    <3>1. \A n \in Nat : n >= 3 => n = 3 \/ n > 3
      OBVIOUS
    <3> QED BY <2>4, <2>5, <3>1, Zenon
  <2> QED BY <2>2, <2>3, <2>6
<1>5. Going(piece)
  BY <1>1, <1>2, <1>4 DEF Going
<1>6. Sound(piece)
  <2>0. Len(piece.bytes) = 3 /\ piece.bytes[1] = z[1] /\ (z[1] = 0 \/ z[1] = SIGNATURE)
    BY <1>1, <1>2, Zenon
  <2>1. Len(piece.bytes) >= 3 /\ piece.bytes[1] \in {0, SIGNATURE}
    BY <2>0
  <2> QED BY <1>1, <1>2, <1>3, <1>5, <2>1, Zenon DEF Sound
<1> QED BY <1>6 DEF piece, z

(* A frame of length 1 has an opcode only: what it is parsed as is too     *)
(* short to decrypt.                                                       *)
LEMMA ShortSound == Sound(Junk(<<SIGNATURE, 0, 1, HEARTBEAT>>))
<1> DEFINE z == <<SIGNATURE, 0, 1, HEARTBEAT>>
           piece == Junk(z)
<1>1. z \in Seq(Byte) /\ Len(z) = 4 /\ z[1] = SIGNATURE /\ z[2] = 0 /\ z[3] = 1 /\ z[4] = HEARTBEAT
  BY DEF SIGNATURE, HEARTBEAT, Byte
<1> HIDE DEF z
<1>2. piece \in Pieced /\ piece.opcode = -1 /\ piece.bytes = z
  BY <1>1, JunkIs
<1> HIDE DEF piece
<1>3. Exact(z)
  <2>1. 2 + 1 = 3
    OBVIOUS
  <2>2. Total(z) = z[2] * 256 + z[3] + 3
    BY <2>1 DEF Total, Uint16, HEADER_LENGTH
  <2>3. 0 * 256 + 1 + 3 = 4
    OBVIOUS
  <2> QED BY <1>1, <2>2, <2>3 DEF Exact
<1>4. Halting(piece)
  <2>1. ASSUME NEW data \in Seq(Byte), Begins(z, data), Len(data) < Len(z) PROVE Waits(data)
    BY <1>3, <2>1, ExactWaits
  <2> QED BY <1>2, <2>1 DEF Halting
<1>5. ASSUME NEW data \in Seq(Byte), Begins(data, z) PROVE Ready(piece, data)
  <2>1. ~Waits(data) /\ Total(data) = Len(z) /\ data[1] = SIGNATURE /\ data[4] = HEARTBEAT
    BY <1>1, <1>3, <1>5, ExactReady
  <2>2. ServerType(HEARTBEAT) # "NONE"
    BY DEF ServerType, Encryption, ServerNone, ServerNormal, HEARTBEAT
  <2>3. FrameAt(data).opcode = HEARTBEAT /\ FrameAt(data).body = SubSeq(data, 6, 4)
    BY <1>1, <2>1, <2>2 DEF FrameAt
  <2>4. SubSeq(data, 6, 4) = <<>>
    OBVIOUS
  <2>5. TooShort(<<>>, HEARTBEAT)
    BY <2>2 DEF TooShort
  <2>6. Fits(FrameAt(data), piece)
    BY <1>2, <2>3, <2>4, <2>5 DEF Fits
  <2>7. Bad(data) \/ Good(data)
    BY <2>1 DEF Bad, Good
  <2> QED BY <1>2, <2>1, <2>6, <2>7 DEF Ready
<1>6. Going(piece)
  BY <1>2, <1>5 DEF Going
<1>7. Sound(piece)
  <2>0. Len(piece.bytes) = 4 /\ piece.bytes[1] = z[1] /\ (z[1] = 0 \/ z[1] = SIGNATURE)
    BY <1>1, <1>2, Zenon
  <2>1. Len(piece.bytes) >= 3 /\ piece.bytes[1] \in {0, SIGNATURE}
    BY <2>0
  <2> QED BY <1>1, <1>2, <1>4, <1>6, <2>1, Zenon DEF Sound
<1> QED BY <1>7 DEF piece, z

(* Trailing zeros never become a frame: their length is 0, and no signature*)
(* is before them.                                                         *)
LEMMA TrailingSound == Sound(Junk(<<0, 0, 0, 0>>))
<1> DEFINE z == <<0, 0, 0, 0>>
           piece == Junk(z)
<1>1. z \in Seq(Byte) /\ Len(z) = 4 /\ z[1] = 0 /\ z[2] = 0 /\ z[3] = 0
  BY DEF Byte
<1> HIDE DEF z
<1>2. piece \in Pieced /\ piece.opcode = -1 /\ piece.bytes = z
  BY <1>1, JunkIs
<1> HIDE DEF piece
<1>3. Halting(piece)
  BY <1>1, <1>2 DEF Halting, Waits, HEADER_LENGTH
<1>4. ASSUME NEW data \in Seq(Byte), Begins(data, z) PROVE Ready(piece, data)
  <2>1. Len(data) >= 4 /\ data[1] = 0 /\ data[2] = 0 /\ data[3] = 0 /\ Len(data) \in Nat
    BY <1>1, <1>4 DEF Begins
  <2>2. Total(data) = 3
    <3>1. 2 + 1 = 3
      OBVIOUS
    <3>2. Total(data) = data[2] * 256 + data[3] + 3
      BY <3>1 DEF Total, Uint16, HEADER_LENGTH
    <3>3. 0 * 256 + 0 + 3 = 3
      OBVIOUS
    <3> QED BY <2>1, <3>2, <3>3
  <2>3. ~Waits(data)
    BY <2>1, <2>2 DEF Waits, HEADER_LENGTH
  <2> QED BY <2>1, <2>3 DEF Ready, Bad, SIGNATURE
<1>5. Going(piece)
  BY <1>2, <1>4 DEF Going
<1>6. Sound(piece)
  <2>0. Len(piece.bytes) = 4 /\ piece.bytes[1] = z[1] /\ (z[1] = 0 \/ z[1] = SIGNATURE)
    BY <1>1, <1>2, Zenon
  <2>1. Len(piece.bytes) >= 3 /\ piece.bytes[1] \in {0, SIGNATURE}
    BY <2>0
  <2> QED BY <1>1, <1>2, <1>3, <1>5, <2>1, Zenon DEF Sound
<1> QED BY <1>6 DEF piece, z
-----------------------------------------------------------------------------
(* Nothing follows the list that a handler is called for.                  *)
Single(P) == \A k, l \in 1 .. Len(P) : k < l /\ P[k].opcode = WORLD_LIST => P[l].opcode \notin Handlers

(* One list, in the middle                                                 *)
LEMMA OneList ==
    ASSUME NEW V, NEW front \in Seq(V), NEW one \in Seq(V), Len(one) = 1, NEW back \in Seq(V),
           \A i \in 1 .. Len(front) : front[i].opcode # WORLD_LIST,
           \A i \in 1 .. Len(back) : back[i].opcode \notin Handlers
    PROVE  Single(front \o one \o back)
<1> DEFINE a == front \o one
           P == a \o back
<1>1. a \in Seq(V) /\ Len(a) = Len(front) + 1 /\ \A i \in 1 .. Len(front) : a[i] = front[i]
  <2>1. a = [k \in 1 .. Len(front) + Len(one) |-> IF k <= Len(front) THEN front[k] ELSE one[k - Len(front)]]
    BY ConcatIs
  <2>2. a \in Seq(V) /\ Len(a) = Len(front) + Len(one)
    BY ConcatProperties
  <2> HIDE DEF a
  <2>3. \A i \in 1 .. Len(front) : a[i] = front[i]
    BY <2>1
  <2> QED BY <2>2, <2>3
<1> HIDE DEF a
<1>2. /\ P \in Seq(V) /\ Len(P) = Len(a) + Len(back)
      /\ \A k \in 1 .. Len(P) : P[k] = IF k <= Len(a) THEN a[k] ELSE back[k - Len(a)]
  <2>1. P = [k \in 1 .. Len(a) + Len(back) |-> IF k <= Len(a) THEN a[k] ELSE back[k - Len(a)]]
    BY <1>1, ConcatIs
  <2>2. P \in Seq(V) /\ Len(P) = Len(a) + Len(back)
    BY <1>1, ConcatProperties
  <2> HIDE DEF P
  <2> QED BY <2>1, <2>2
<1> HIDE DEF P
<1>3. ASSUME NEW k \in 1 .. Len(P), NEW l \in 1 .. Len(P), k < l, P[k].opcode = WORLD_LIST
      PROVE  P[l].opcode \notin Handlers
  <2>0. Len(front) \in Nat /\ Len(back) \in Nat /\ Len(a) \in Nat /\ Len(P) \in Nat
    BY <1>1, <1>2
  <2>1. k > Len(front)
    <3>1. ASSUME k <= Len(front) PROVE FALSE
      <4>1. k \in 1 .. Len(front) /\ k <= Len(a)
        BY <1>1, <2>0, <3>1
      <4>2. P[k] = front[k]
        BY <1>1, <1>2, <4>1
      <4> QED BY <1>3, <4>1, <4>2
    <3> QED BY <2>0, <3>1
  <2>2. l - Len(a) \in 1 .. Len(back) /\ ~(l <= Len(a))
    BY <1>1, <1>2, <1>3, <2>0, <2>1
  <2>3. P[l] = back[l - Len(a)]
    BY <1>2, <2>2
  <2> QED BY <2>2, <2>3
<1>4. Single(P)
  BY <1>3 DEF Single
<1> QED BY <1>4 DEF P, a

(* The list, whole, truncated or with a broken signature                   *)
LEMMA ListPieceSound ==
    ASSUME NEW world \in Worlds, NEW shown \in Shown(world), NEW fault, NEW d \in DrawSet
    PROVE  Sound(ListPiece(world, shown, fault, d))
<1> DEFINE body  == WorldListBody(Len(world), shown)
           cut   == IF fault = "truncated" THEN SubSeq(body, 1, Len(body) - 1) ELSE body
           s     == (d.sequence + 1) % 256
           piece == Piece(WORLD_LIST, cut, s, d)
           p     == Packet(WORLD_LIST, cut, s, d)
<1>1. body \in Seq(Byte) /\ Len(body) \in Nat /\ Len(body) <= MaxBody
  <2>1. body \in Seq(Byte)
    BY ShownType, BodyType
  <2>2. Len(body) <= MaxBody
    BY WorldAssumption
  <2> QED BY <2>1, <2>2
<1>2. cut \in Seq(Byte) /\ Len(cut) <= MaxBody
  <2> HIDE DEF body
  <2>1. MaxBody \in Nat
    BY DEF MaxBody
  <2>2. SubSeq(body, 1, Len(body) - 1) \in Seq(Byte) /\ Len(SubSeq(body, 1, Len(body) - 1)) <= Len(body)
    <3>1. Len(body) - 1 \in Int /\ Len(body) - 1 <= Len(body)
      BY <1>1
    <3>2. SubSeq(body, 1, Len(body) - 1) \in Seq(Byte)
          /\ Len(SubSeq(body, 1, Len(body) - 1)) = IF 1 <= Len(body) - 1 THEN Len(body) - 1 - 1 + 1 ELSE 0
      BY <1>1, <3>1, SubBytes
    <3> QED BY <1>1, <3>2
  <2>3. Len(SubSeq(body, 1, Len(body) - 1)) <= MaxBody
    BY <1>1, <2>1, <2>2
  <2> QED BY <1>1, <2>2, <2>3
<1>3. s \in Byte /\ WORLD_LIST \in Byte
  <2>1. d.sequence \in Nat
    BY ByteIs DEF DrawSet
  <2>2. d.sequence + 1 \in Nat
    BY <2>1
  <2>3. WORLD_LIST \in Byte
    BY DEF Byte, WORLD_LIST
  <2> QED BY <2>2, <2>3, ModByte
<1> HIDE DEF cut, s
<1>4. Sound(piece)
  BY <1>2, <1>3, PieceSound
<1>5. Exact(p)
  BY <1>2, <1>3, PacketIs
<1>6. piece.bytes = p
  BY DEF Piece, Packet
<1>7. Sound(Junk([p EXCEPT ![1] = 0]))
  <2> HIDE DEF p
  <2> QED BY <1>5, BrokenSound
<1>8. ListPiece(world, shown, fault, d) = IF fault = "signature" THEN Junk([piece.bytes EXCEPT ![1] = 0]) ELSE piece
  BY DEF ListPiece, cut, s
<1> HIDE DEF piece, p
<1> QED BY <1>4, <1>6, <1>7, <1>8

SoundSet == {p \in Pieced : Sound(p)}

(* Everything the server sends in a run, whatever the fault                *)
LEMMA PiecesSound ==
    ASSUME NEW world \in Worlds, NEW shown \in Shown(world), NEW fault, NEW d \in DrawSet
    PROVE  Pieces(world, shown, fault, d) \in Seq(SoundSet) /\ Single(Pieces(world, shown, fault, d))
<1> DEFINE unhandled == Piece(Unhandled, <<7>>, 0, d)
           beat      == Piece(HEARTBEAT, <<3, 200>>, d.sequence, d)
           zero      == Junk(<<SIGNATURE, 0, 0>>)
           short     == Junk(<<SIGNATURE, 0, 1, HEARTBEAT>>)
           trailing  == Junk(<<0, 0, 0, 0>>)
           listed    == ListPiece(world, shown, fault, d)
           first  == <<unhandled, beat>>
           second == CASE fault = "zero"  -> <<zero>>
                       [] fault = "short" -> <<short>>
                       [] OTHER           -> <<>>
           third  == <<listed>>
           fourth == IF fault = "trailing" THEN <<trailing>> ELSE <<>>
<1>1. /\ Unhandled \in Byte /\ HEARTBEAT \in Byte /\ 0 \in Byte
      /\ <<7>> \in Seq(Byte) /\ <<3, 200>> \in Seq(Byte)
      /\ Len(<<7>>) <= MaxBody /\ Len(<<3, 200>>) <= MaxBody
      /\ HEARTBEAT # WORLD_LIST /\ Unhandled # WORLD_LIST /\ -1 # WORLD_LIST /\ -1 \notin Handlers
  BY DEF Byte, Unhandled, HEARTBEAT, WORLD_LIST, Handlers, MaxBody
<1>2. d.sequence \in Byte
  BY DEF DrawSet
<1>3. Sound(unhandled) /\ Sound(beat) /\ unhandled.opcode = Unhandled /\ beat.opcode = HEARTBEAT
  <2>1. Sound(unhandled) /\ Sound(beat)
    BY <1>1, <1>2, PieceSound
  <2>2. unhandled.opcode = Unhandled /\ beat.opcode = HEARTBEAT
    BY DEF Piece
  <2> QED BY <2>1, <2>2
<1>4. /\ Sound(zero) /\ Sound(short) /\ Sound(trailing)
      /\ zero.opcode = -1 /\ short.opcode = -1 /\ trailing.opcode = -1
  <2>1. zero.opcode = -1 /\ short.opcode = -1 /\ trailing.opcode = -1
    BY DEF Junk
  <2> QED BY <2>1, ZeroSound, ShortSound, TrailingSound
<1>5. Sound(listed)
  BY ListPieceSound
<1> HIDE DEF unhandled, beat, zero, short, trailing, listed
<1>6. /\ unhandled \in SoundSet /\ beat \in SoundSet /\ zero \in SoundSet /\ short \in SoundSet
      /\ trailing \in SoundSet /\ listed \in SoundSet
  BY <1>3, <1>4, <1>5 DEF SoundSet, Sound
<1>7. first \in Seq(SoundSet) /\ \A i \in 1 .. Len(first) : first[i].opcode # WORLD_LIST
  <2>1. first \in Seq(SoundSet) /\ Len(first) = 2 /\ first[1] = unhandled /\ first[2] = beat
    BY <1>6
  <2> HIDE DEF first
  <2>2. \A i \in 1 .. 2 : i = 1 \/ i = 2
    OBVIOUS
  <2> QED BY <1>1, <1>3, <2>1, <2>2
<1>8. second \in Seq(SoundSet) /\ \A i \in 1 .. Len(second) : second[i].opcode # WORLD_LIST
  <2>1. second = <<>> \/ second = <<zero>> \/ second = <<short>>
    OBVIOUS
  <2> HIDE DEF second
  <2>2. CASE second = <<>>
    BY <2>2
  <2>3. ASSUME NEW x \in SoundSet, x.opcode = -1, second = <<x>>
        PROVE  second \in Seq(SoundSet) /\ \A i \in 1 .. Len(second) : second[i].opcode # WORLD_LIST
    <3>1. second \in Seq(SoundSet) /\ Len(second) = 1 /\ second[1] = x
      BY <2>3
    <3>2. \A i \in 1 .. 1 : i = 1
      OBVIOUS
    <3> QED BY <1>1, <2>3, <3>1, <3>2
  <2> QED BY <1>4, <1>6, <2>1, <2>2, <2>3
<1>9. third \in Seq(SoundSet) /\ Len(third) = 1
  BY <1>6
<1>10. fourth \in Seq(SoundSet) /\ \A i \in 1 .. Len(fourth) : fourth[i].opcode \notin Handlers
  <2>1. fourth = <<>> \/ fourth = <<trailing>>
    OBVIOUS
  <2> HIDE DEF fourth
  <2>2. CASE fourth = <<>>
    BY <2>2
  <2>3. CASE fourth = <<trailing>>
    <3>1. fourth \in Seq(SoundSet) /\ Len(fourth) = 1 /\ fourth[1] = trailing
      BY <1>6, <2>3
    <3>2. \A i \in 1 .. 1 : i = 1
      OBVIOUS
    <3> QED BY <1>1, <1>4, <3>1, <3>2
  <2> QED BY <2>1, <2>2, <2>3
<1>11. Pieces(world, shown, fault, d) = first \o second \o third \o fourth
  BY DEF Pieces, unhandled, beat, zero, short, trailing, listed
<1> HIDE DEF first, second, third, fourth
<1> DEFINE front == first \o second
<1>12. front \in Seq(SoundSet) /\ \A i \in 1 .. Len(front) : front[i].opcode # WORLD_LIST
  <2>1. front \in Seq(SoundSet) /\ Len(front) = Len(first) + Len(second)
    BY <1>7, <1>8, ConcatProperties
  <2>2. front = [k \in 1 .. Len(first) + Len(second) |->
                   IF k <= Len(first) THEN first[k] ELSE second[k - Len(first)]]
    BY <1>7, <1>8, ConcatIs
  <2> HIDE DEF front
  <2>3. ASSUME NEW i \in 1 .. Len(front) PROVE front[i].opcode # WORLD_LIST
    <3>1. Len(first) \in Nat /\ Len(second) \in Nat
      BY <1>7, <1>8
    <3>2. CASE i <= Len(first)
      <4>1. i \in 1 .. Len(first) /\ front[i] = first[i]
        BY <2>1, <2>2, <3>1, <3>2
      <4> QED BY <1>7, <4>1
    <3>3. CASE ~(i <= Len(first))
      <4>1. i - Len(first) \in 1 .. Len(second) /\ front[i] = second[i - Len(first)]
        BY <2>1, <2>2, <3>1, <3>3
      <4> QED BY <1>8, <4>1
    <3> QED BY <3>2, <3>3
  <2> QED BY <2>1, <2>3
<1> HIDE DEF front
<1>13. Single(front \o third \o fourth)
  BY <1>9, <1>10, <1>12, OneList
<1>14. front \o third \o fourth \in Seq(SoundSet)
  BY <1>9, <1>10, <1>12, ConcatProperties
<1> QED BY <1>11, <1>13, <1>14 DEF front
-----------------------------------------------------------------------------
(* Pieces, where each ends in the stream, and the stream                   *)
Streamed(P, E, B) ==
    /\ P \in Seq(SoundSet) /\ E \in [0 .. Len(P) -> Nat] /\ B \in Seq(Byte)
    /\ E[0] = 0 /\ Len(B) = E[Len(P)]
    /\ \A k \in 1 .. Len(P) : E[k] = E[k - 1] + Len(P[k].bytes)
    /\ \A k \in 1 .. Len(P) : \A i \in 1 .. Len(P[k].bytes) : B[E[k - 1] + i] = P[k].bytes[i]

Ends(P) == [k \in 0 .. Len(P) |-> Len(Stream(P)[k])]

(* The parts of a piece                                                    *)
LEMMA SoundIs ==
    ASSUME NEW p \in SoundSet
    PROVE  /\ Sound(p) /\ p \in Pieced /\ p.bytes \in Seq(Byte) /\ Len(p.bytes) \in Nat /\ Len(p.bytes) >= 3
           /\ p.bytes[1] \in {0, SIGNATURE} /\ p.opcode \in Byte \cup {-1} /\ p.body \in Seq(Byte)
<1>1. Sound(p) /\ p \in Pieced
  BY DEF SoundSet
<1>2. p.bytes \in Seq(Byte) /\ p.opcode \in Byte \cup {-1} /\ p.body \in Seq(Byte)
  BY <1>1 DEF Pieced
<1>3. Len(p.bytes) \in Nat
  BY <1>2
<1> QED BY <1>1, <1>2, <1>3 DEF Sound

(* Parts one after the other: where each ends, and its bytes               *)
Placed(st, E, parts) ==
    /\ E \in [0 .. Len(parts) -> Nat] /\ E[0] = 0
    /\ \A k \in 1 .. Len(parts) : E[k] = E[k - 1] + Len(parts[k])
    /\ st[Len(parts)] \in Seq(Byte) /\ Len(st[Len(parts)]) = E[Len(parts)]
    /\ \A k \in 1 .. Len(parts) : \A i \in 1 .. Len(parts[k]) :
         st[Len(parts)][E[k - 1] + i] = parts[k][i]

LEMMA JointsPlaced ==
    ASSUME NEW parts \in Seq(Seq(Byte)), NEW st \in [0 .. Len(parts) -> Seq(Byte)], st[0] = <<>>,
           \A k \in 1 .. Len(parts) : st[k] = st[k - 1] \o parts[k]
    PROVE  Placed(st, [k \in 0 .. Len(parts) |-> Len(st[k])], parts)
<1> DEFINE n == Len(parts)
           E == [k \in 0 .. n |-> Len(st[k])]
<1>0. n \in Nat
  OBVIOUS
<1>2. /\ st \in [0 .. n -> Seq(Byte)] /\ st[0] = <<>>
      /\ \A k \in 1 .. n : st[k] = st[k - 1] \o parts[k]
  OBVIOUS
<1>3. \A k \in 1 .. n : parts[k] \in Seq(Byte) /\ Len(parts[k]) \in Nat
  <2>1. \A k \in 1 .. n : parts[k] \in Seq(Byte)
    OBVIOUS
  <2> QED BY <2>1
<1>4. E = [k \in 0 .. n |-> Len(st[k])]
  OBVIOUS
<1> HIDE DEF E, n
<1>5. \A k \in 0 .. n : st[k] \in Seq(Byte) /\ E[k] = Len(st[k]) /\ E[k] \in Nat
  <2>1. \A k \in 0 .. n : st[k] \in Seq(Byte) /\ E[k] = Len(st[k])
    BY <1>2, <1>4
  <2>2. ASSUME NEW k \in 0 .. n PROVE E[k] \in Nat
    <3>1. st[k] \in Seq(Byte)
      BY <2>1
    <3>2. Len(st[k]) \in Nat
      BY <3>1
    <3> QED BY <2>1, <3>2
  <2> QED BY <2>1, <2>2
<1>6. ASSUME NEW k \in 1 .. n PROVE Joins(st[k], st[k - 1], E[k - 1], parts[k], Len(parts[k]))
  <2>1. k - 1 \in 0 .. n
    BY <1>0
  <2>2. st[k - 1] \in Seq(Byte) /\ Len(st[k - 1]) = E[k - 1] /\ parts[k] \in Seq(Byte)
    BY <1>3, <1>5, <2>1
  <2>3. Joins(st[k - 1] \o parts[k], st[k - 1], Len(st[k - 1]), parts[k], Len(parts[k]))
    BY <2>2, JoinsLen
  <2>4. st[k] = st[k - 1] \o parts[k]
    BY <1>2
  <2> QED BY <2>2, <2>3, <2>4
<1>7. \A k \in 1 .. n : /\ E[k] = E[k - 1] + Len(parts[k])
                        /\ \A i \in 1 .. E[k - 1] : st[k][i] = st[k - 1][i]
                        /\ \A i \in 1 .. Len(parts[k]) : st[k][E[k - 1] + i] = parts[k][i]
  <2>1. ASSUME NEW k \in 1 .. n
        PROVE  /\ E[k] = E[k - 1] + Len(parts[k])
               /\ \A i \in 1 .. E[k - 1] : st[k][i] = st[k - 1][i]
               /\ \A i \in 1 .. Len(parts[k]) : st[k][E[k - 1] + i] = parts[k][i]
    <3>1. E[k] = Len(st[k])
      BY <1>0, <1>5
    <3> QED BY <1>6, <3>1 DEF Joins
  <2> QED BY <2>1
<1> DEFINE Same(k, m) == E[k] <= E[m] /\ \A i \in 1 .. E[k] : st[m][i] = st[k][i]
           S == {m \in 0 .. n : \A k \in 0 .. m : Same(k, m)}
<1>8. 0 .. n \subseteq S
  <2>1. 0 \in S
    <3>1. \A k \in 0 .. 0 : k = 0
      OBVIOUS
    <3>2. E[0] \in Int /\ 0 \in 0 .. n
      BY <1>0, <1>5
    <3>3. Same(0, 0)
      BY <3>2
    <3> HIDE DEF Same
    <3> QED BY <3>1, <3>2, <3>3
  <2>2. ASSUME NEW m \in 0 .. n - 1, m \in S PROVE m + 1 \in S
    <3>1. m + 1 \in 1 .. n /\ m + 1 \in 0 .. n /\ m \in 0 .. n /\ (m + 1) - 1 = m
      BY <1>0
    <3>2. E[m + 1] = E[m] + Len(parts[m + 1]) /\ Len(parts[m + 1]) \in Nat /\ E[m] \in Nat /\ E[m + 1] \in Nat
      BY <1>3, <1>5, <1>7, <3>1
    <3>3. \A i \in 1 .. E[m] : st[m + 1][i] = st[m][i]
      BY <1>7, <3>1
    <3>4. ASSUME NEW k \in 0 .. m + 1 PROVE Same(k, m + 1)
      <4>1. CASE k = m + 1
        BY <3>2, <4>1
      <4>2. CASE k # m + 1
        <5>1. k \in 0 .. m /\ E[k] \in Nat
          BY <1>0, <1>5, <4>2
        <5>2. Same(k, m)
          <6> HIDE DEF Same
          <6> QED BY <2>2, <5>1
        <5>3. E[k] <= E[m + 1]
          BY <3>2, <5>1, <5>2
        <5>4. ASSUME NEW i \in 1 .. E[k] PROVE st[m + 1][i] = st[k][i]
          <6>1. i \in 1 .. E[m]
            BY <3>2, <5>1, <5>2
          <6> QED BY <3>3, <5>2, <6>1
        <5> QED BY <5>3, <5>4
      <4> QED BY <4>1, <4>2
    <3> HIDE DEF Same
    <3> QED BY <3>1, <3>4
  <2> HIDE DEF S
  <2> QED BY <1>0, <2>1, <2>2, UpTo
<1>9. ASSUME NEW k \in 1 .. n, NEW i \in 1 .. Len(parts[k]) PROVE st[n][E[k - 1] + i] = parts[k][i]
  <2>1. n \in 0 .. n /\ k \in 0 .. n /\ k - 1 \in 0 .. n
    BY <1>0
  <2>2. Same(k, n)
    <3> HIDE DEF Same
    <3> QED BY <1>8, <2>1
  <2>3. E[k - 1] + i \in 1 .. E[k]
    <3>1. E[k] = E[k - 1] + Len(parts[k]) /\ E[k - 1] \in Nat /\ E[k] \in Nat /\ Len(parts[k]) \in Nat
      BY <1>3, <1>5, <1>7, <2>1
    <3>2. i \in 1 .. Len(parts[k])
      OBVIOUS
    <3>3. PICK e \in Nat, f \in Nat, l \in Nat : e = E[k - 1] /\ f = E[k] /\ l = Len(parts[k])
      BY <3>1
    <3>4. i \in 1 .. l /\ f = e + l
      BY <3>1, <3>2, <3>3, Zenon
    <3>5. e + i \in 1 .. f
      BY <3>4
    <3> QED BY <3>3, <3>5, Zenon
  <2>4. st[n][E[k - 1] + i] = st[k][E[k - 1] + i]
    BY <2>2, <2>3
  <2> QED BY <1>7, <2>4
<1>10. E[0] = 0 /\ E[n] = Len(st[n]) /\ st[n] \in Seq(Byte) /\ E \in [0 .. n -> Nat]
  <2>1. E[0] = Len(st[0]) /\ E[n] = Len(st[n]) /\ st[n] \in Seq(Byte)
    BY <1>0, <1>5
  <2>2. E[0] = 0
    BY <1>2, <2>1
  <2> QED BY <1>4, <1>5, <2>1, <2>2
<1>11. \A k \in 1 .. n : E[k] = E[k - 1] + Len(parts[k])
  BY <1>7
<1>12. \A k \in 1 .. n : \A i \in 1 .. Len(parts[k]) : st[n][E[k - 1] + i] = parts[k][i]
  BY <1>9
<1>13. Placed(st, E, parts)
  BY <1>10, <1>11, <1>12, Zenon DEF Placed, n
<1> QED BY <1>13 DEF E, n

(* The stream of sound pieces: where each of them ends, and its bytes      *)
LEMMA StreamIs ==
    ASSUME NEW P \in Seq(SoundSet)
    PROVE  Streamed(P, Ends(P), Stream(P)[Len(P)])
<1> DEFINE st == Stream(P)
           E == Ends(P)
           n == Len(P)
           b(k) == P[k].bytes
<1>0. n \in Nat /\ P \in Seq(Pieced)
  BY DEF SoundSet
<1>1. \A k \in 1 .. n : P[k] \in SoundSet
  OBVIOUS
<1>2. /\ st \in [0 .. n -> Seq(Byte)] /\ st[0] = <<>>
      /\ \A k \in 1 .. n : st[k] = st[k - 1] \o b(k)
  BY <1>0, StreamType
<1>3. \A k \in 1 .. n : b(k) \in Seq(Byte) /\ Len(b(k)) \in Nat
  BY <1>1, SoundIs
<1>4. E = [k \in 0 .. n |-> Len(st[k])]
  BY DEF Ends
<1> DEFINE parts == [k \in 1 .. n |-> b(k)]
<1> HIDE DEF st, E, n, b
<1>5. parts \in Seq(Seq(Byte)) /\ Len(parts) = n /\ \A k \in 1 .. n : parts[k] = b(k)
  BY <1>0, <1>3
<1> HIDE DEF parts
<1>6. Placed(st, [k \in 0 .. Len(parts) |-> Len(st[k])], parts)
  <2>1. /\ st \in [0 .. Len(parts) -> Seq(Byte)] /\ st[0] = <<>>
        /\ \A k \in 1 .. Len(parts) : st[k] = st[k - 1] \o parts[k]
    BY <1>2, <1>5
  <2> QED BY <1>5, <2>1, JointsPlaced
<1>7. Placed(st, E, parts)
  BY <1>4, <1>5, <1>6, Zenon
<1>8. /\ E \in [0 .. n -> Nat] /\ E[0] = 0
      /\ \A k \in 1 .. n : E[k] = E[k - 1] + Len(parts[k])
      /\ st[n] \in Seq(Byte) /\ Len(st[n]) = E[n]
      /\ \A k \in 1 .. n : \A i \in 1 .. Len(parts[k]) : st[n][E[k - 1] + i] = parts[k][i]
  BY <1>5, <1>7, Zenon DEF Placed
<1>9. /\ \A k \in 1 .. n : E[k] = E[k - 1] + Len(b(k))
      /\ \A k \in 1 .. n : \A i \in 1 .. Len(b(k)) : st[n][E[k - 1] + i] = b(k)[i]
  BY <1>5, <1>8
<1>10. Streamed(P, E, st[n])
  BY <1>8, <1>9 DEF Streamed, n, b
<1> QED BY <1>10 DEF st, E, n

(* The pieces of a stream, and their bytes in it                           *)
LEMMA EndsUp ==
    ASSUME NEW P, NEW E, NEW B, Streamed(P, E, B)
    PROVE  /\ Len(P) \in Nat /\ Len(B) \in Nat
           /\ \A k \in 0 .. Len(P) : E[k] \in Nat /\ E[k] <= Len(B)
           /\ \A k, l \in 0 .. Len(P) : k < l => E[k] < E[l]
<1> DEFINE n == Len(P)
           Up(k, m) == k < m => E[k] < E[m]
           S == {m \in 0 .. n : \A k \in 0 .. m : Up(k, m)}
<1>1. n \in Nat /\ \A k \in 0 .. n : E[k] \in Nat
  <2>1. P \in Seq(SoundSet) /\ E \in [0 .. n -> Nat]
    BY Zenon DEF Streamed
  <2> HIDE DEF S
  <2> QED BY <2>1
<1>2. ASSUME NEW m \in 0 .. n - 1 PROVE E[m] < E[m + 1]
  <2>1. m + 1 \in 1 .. n /\ (m + 1) - 1 = m /\ m \in 0 .. n
    BY <1>1
  <2>2. E[m + 1] = E[m] + Len(P[m + 1].bytes)
    BY <2>1 DEF Streamed
  <2>3. Len(P[m + 1].bytes) \in Nat /\ Len(P[m + 1].bytes) >= 3
    <3>1. P[m + 1] \in SoundSet
      BY <2>1 DEF Streamed
    <3> QED BY <3>1, SoundIs
  <2>4. E[m] \in Nat
    BY <1>1, <2>1
  <2> QED BY <2>2, <2>3, <2>4
<1> HIDE DEF n
<1>3. 0 .. n \subseteq S
  <2>1. 0 \in S
    BY <1>1
  <2>2. ASSUME NEW m \in 0 .. n - 1, m \in S PROVE m + 1 \in S
    <3>1. m + 1 \in 0 .. n /\ m \in 0 .. n
      BY <1>1
    <3>2. ASSUME NEW k \in 0 .. m + 1 PROVE Up(k, m + 1)
      <4>1. CASE k = m
        BY <1>2, <4>1
      <4>2. CASE k < m
        <5>1. k \in 0 .. m /\ k \in 0 .. n
          BY <1>1, <4>2
        <5>2. Up(k, m)
          BY <2>2, <5>1
        <5>3. E[k] \in Nat /\ E[m] \in Nat /\ E[m + 1] \in Nat
          BY <1>1, <3>1, <5>1
        <5> QED BY <1>2, <4>2, <5>2, <5>3
      <4>3. CASE ~(k < m + 1)
        BY <4>3
      <4> QED BY <1>1, <4>1, <4>2, <4>3
    <3> HIDE DEF Up
    <3> QED BY <3>1, <3>2
  <2> HIDE DEF S
  <2> QED BY <1>1, <2>1, <2>2, UpTo
<1>4. \A k, l \in 0 .. n : k < l => E[k] < E[l]
  <2>1. ASSUME NEW k \in 0 .. n, NEW l \in 0 .. n, k < l PROVE E[k] < E[l]
    <3>1. k \in 0 .. l
      BY <2>1
    <3>2. Up(k, l)
      <4> HIDE DEF Up
      <4> QED BY <1>3, <3>1
    <3> QED BY <2>1, <3>2
  <2> QED BY <2>1
<1>5. Len(B) = E[n] /\ Len(B) \in Nat
  <2>1. Len(B) = E[n]
    BY DEF Streamed, n
  <2> QED BY <1>1, <2>1
<1>6. \A k \in 0 .. n : E[k] <= Len(B)
  <2>1. ASSUME NEW k \in 0 .. n PROVE E[k] <= E[n]
    <3>1. n \in 0 .. n /\ E[k] \in Nat /\ E[n] \in Nat
      BY <1>1
    <3>2. CASE k = n
      BY <3>1, <3>2
    <3>3. CASE k # n
      <4>1. k < n
        BY <1>1, <3>3
      <4> QED BY <1>4, <3>1, <4>1
    <3> QED BY <3>2, <3>3
  <2> QED BY <1>5, <2>1
<1> QED BY <1>1, <1>4, <1>5, <1>6 DEF n
-----------------------------------------------------------------------------
(* What is left when j pieces are parsed and a bytes have come             *)
Left(B, E, j, a) == SubSeq(B, E[j] + 1, a)

(* What is left, byte by byte                                              *)
LEMMA LeftIs ==
    ASSUME NEW P, NEW E, NEW B, Streamed(P, E, B), NEW j \in 0 .. Len(P), NEW a \in E[j] .. Len(B)
    PROVE  /\ Left(B, E, j, a) \in Seq(Byte) /\ Len(Left(B, E, j, a)) = a - E[j]
           /\ E[j] \in Nat /\ a \in Nat
           /\ \A i \in 1 .. a - E[j] : Left(B, E, j, a)[i] = B[E[j] + i]
<1>1. E[j] \in Nat /\ Len(B) \in Nat
  BY EndsUp
<1>2. B \in Seq(Byte)
  BY DEF Streamed
<1>3. PICK e \in Nat : e = E[j]
  BY <1>1
<1>4. a \in Nat /\ a <= Len(B) /\ e <= a
  BY <1>1, <1>3
<1>5. /\ SubSeq(B, e + 1, a) \in Seq(Byte)
      /\ Len(SubSeq(B, e + 1, a)) = IF e + 1 <= a THEN a - (e + 1) + 1 ELSE 0
      /\ \A i \in 1 .. a - (e + 1) + 1 : SubSeq(B, e + 1, a)[i] = B[(e + 1) + i - 1]
  <2>1. e + 1 \in Nat \ {0} /\ a \in Int
    BY <1>4
  <2> QED BY <1>2, <1>4, <2>1, SubBytes
<1> DEFINE s == SubSeq(B, e + 1, a)
<1> HIDE DEF s
<1>6. s \in Seq(Byte) /\ Len(s) = a - e /\ \A i \in 1 .. a - e : s[i] = B[e + i]
  <2>1. Len(s) = a - e
    BY <1>4, <1>5 DEF s
  <2>2. ASSUME NEW i \in 1 .. a - e PROVE s[i] = B[e + i]
    <3>1. i \in 1 .. a - (e + 1) + 1 /\ (e + 1) + i - 1 = e + i
      BY <1>4
    <3> QED BY <1>5, <3>1 DEF s
  <2> QED BY <1>5, <2>1, <2>2 DEF s
<1> QED BY <1>3, <1>4, <1>6 DEF Left, s

(* The next piece is not all there.                                        *)
LEMMA PartWaits ==
    ASSUME NEW P, NEW E, NEW B, Streamed(P, E, B), NEW j \in 0 .. Len(P), NEW a \in E[j] .. Len(B),
           j = Len(P) \/ a < E[j + 1]
    PROVE  Waits(Left(B, E, j, a))
<1> DEFINE data == Left(B, E, j, a)
<1>1. /\ data \in Seq(Byte) /\ Len(data) = a - E[j] /\ E[j] \in Nat /\ a \in Nat
      /\ \A i \in 1 .. a - E[j] : data[i] = B[E[j] + i]
  BY LeftIs
<1>2. Len(P) \in Nat /\ Len(B) \in Nat
  BY EndsUp
<1> HIDE DEF data
<1>3. CASE j = Len(P)
  <2>1. E[j] = Len(B)
    BY <1>3 DEF Streamed
  <2>2. Len(data) = 0
    BY <1>1, <1>2, <2>1
  <2> QED BY <2>2 DEF Waits, HEADER_LENGTH, data
<1>4. CASE j # Len(P)
  <2>1. j + 1 \in 1 .. Len(P) /\ (j + 1) - 1 = j /\ a < E[j + 1]
    BY <1>2, <1>4
  <2> DEFINE p == P[j + 1]
  <2>2. p \in SoundSet
    BY <2>1 DEF Streamed
  <2>3. E[j + 1] = E[j] + Len(p.bytes) /\ \A i \in 1 .. Len(p.bytes) : B[E[j] + i] = p.bytes[i]
    BY <2>1 DEF Streamed
  <2> HIDE DEF p
  <2>4. Len(p.bytes) \in Nat /\ Halting(p)
    BY <2>2, SoundIs DEF Sound
  <2>5. Len(data) < Len(p.bytes)
    BY <1>1, <2>1, <2>3, <2>4
  <2>6. \A i \in 1 .. Len(data) : p.bytes[i] = data[i]
    <3>1. ASSUME NEW i \in 1 .. Len(data) PROVE p.bytes[i] = data[i]
      <4>1. i \in 1 .. a - E[j] /\ i \in 1 .. Len(p.bytes)
        BY <1>1, <2>4, <2>5
      <4> QED BY <1>1, <2>3, <4>1
    <3> QED BY <3>1
  <2>7. Begins(p.bytes, data)
    <3>1. Len(data) <= Len(p.bytes)
      BY <1>1, <2>4, <2>5
    <3> QED BY <2>6, <3>1 DEF Begins
  <2>8. Waits(data)
    BY <1>1, <2>4, <2>5, <2>7 DEF Halting
  <2> QED BY <2>8 DEF data
<1> QED BY <1>3, <1>4

(* The next piece is there.                                                *)
LEMMA WholeReady ==
    ASSUME NEW P, NEW E, NEW B, Streamed(P, E, B), NEW j \in 0 .. Len(P) - 1, NEW a \in E[j] .. Len(B),
           E[j + 1] <= a
    PROVE  /\ Ready(P[j + 1], Left(B, E, j, a))
           /\ Rest(Left(B, E, j, a), Len(P[j + 1].bytes)) = Left(B, E, j + 1, a)
           /\ E[j + 1] = E[j] + Len(P[j + 1].bytes)
<1> DEFINE data == Left(B, E, j, a)
           next == Left(B, E, j + 1, a)
           p == P[j + 1]
           l == Len(p.bytes)
<1>0. Len(P) \in Nat /\ Len(B) \in Nat
  BY EndsUp
<1>1. j \in 0 .. Len(P) /\ j + 1 \in 1 .. Len(P) /\ (j + 1) - 1 = j /\ j + 1 \in 0 .. Len(P)
  BY <1>0
<1>2. /\ data \in Seq(Byte) /\ Len(data) = a - E[j] /\ E[j] \in Nat /\ a \in Nat
      /\ \A i \in 1 .. a - E[j] : data[i] = B[E[j] + i]
  BY <1>1, LeftIs
<1>3. p \in SoundSet
  BY <1>1 DEF Streamed
<1>4. E[j + 1] = E[j] + l /\ \A i \in 1 .. l : B[E[j] + i] = p.bytes[i]
  BY <1>1 DEF Streamed
<1>5. l \in Nat /\ l >= 3 /\ Going(p) /\ E[j + 1] \in Nat
  BY <1>1, <1>3, SoundIs, EndsUp DEF Sound
<1>6. /\ next \in Seq(Byte) /\ Len(next) = a - E[j + 1]
      /\ \A i \in 1 .. a - E[j + 1] : next[i] = B[E[j + 1] + i]
  <2>1. a \in E[j + 1] .. Len(B)
    BY <1>2, <1>5
  <2>2. PICK m \in 0 .. Len(P) : m = j + 1
    BY <1>1
  <2>3. a \in E[m] .. Len(B)
    BY <2>1, <2>2, Zenon
  <2>4. /\ Left(B, E, m, a) \in Seq(Byte) /\ Len(Left(B, E, m, a)) = a - E[m]
        /\ \A i \in 1 .. a - E[m] : Left(B, E, m, a)[i] = B[E[m] + i]
    BY <2>3, LeftIs
  <2> QED BY <2>2, <2>4, Zenon
<1> HIDE DEF data, next, p, l
<1>7. Begins(data, p.bytes)
  <2>1. l <= Len(data)
    BY <1>2, <1>4, <1>5
  <2>2. ASSUME NEW i \in 1 .. l PROVE data[i] = p.bytes[i]
    <3>1. i \in 1 .. a - E[j]
      BY <1>2, <1>5, <2>1
    <3> QED BY <1>2, <1>4, <3>1
  <2> QED BY <2>1, <2>2 DEF Begins, l
<1>8. ASSUME Len(data) > l PROVE data[l + 1] \in {0, SIGNATURE}
  <2>1. E[j + 1] < a
    BY <1>2, <1>4, <1>5, <1>8
  <2>2. j + 1 < Len(P)
    <3>1. j + 1 # Len(P)
      <4>1. Len(B) = E[Len(P)]
        BY DEF Streamed
      <4> QED BY <1>0, <1>2, <1>5, <2>1, <4>1
    <3> QED BY <1>0, <1>1, <3>1
  <2>3. (j + 1) + 1 \in 1 .. Len(P) /\ ((j + 1) + 1) - 1 = j + 1
    BY <1>0, <2>2
  <2> DEFINE q == P[(j + 1) + 1]
  <2>4. q \in SoundSet
    BY <2>3 DEF Streamed
  <2>5. \A i \in 1 .. Len(q.bytes) : B[E[j + 1] + i] = q.bytes[i]
    BY <2>3 DEF Streamed
  <2> HIDE DEF q
  <2>6. Len(q.bytes) \in Nat /\ Len(q.bytes) >= 3 /\ q.bytes[1] \in {0, SIGNATURE}
    BY <2>4, SoundIs
  <2>7. B[E[j + 1] + 1] = q.bytes[1]
    <3>1. 1 \in 1 .. Len(q.bytes)
      BY <2>6
    <3> QED BY <2>5, <3>1
  <2>8. data[l + 1] = B[E[j] + (l + 1)]
    <3>1. l + 1 \in 1 .. a - E[j]
      BY <1>2, <1>5, <1>8
    <3> QED BY <1>2, <3>1
  <2>9. E[j] + (l + 1) = E[j + 1] + 1
    <3>1. \A e, f, g \in Nat : g = e + f => e + (f + 1) = g + 1
      OBVIOUS
    <3>2. E[j] \in Nat /\ l \in Nat /\ E[j + 1] \in Nat /\ E[j + 1] = E[j] + l
      BY <1>2, <1>4, <1>5, Zenon
    <3> QED BY <3>1, <3>2, Zenon
  <2> QED BY <2>6, <2>7, <2>8, <2>9
<1>9. Ready(p, data)
  BY <1>2, <1>5, <1>7, <1>8 DEF Going, l
<1>10. Rest(data, l) = next
  <2>1. Rest(data, l) = [i \in 1 .. Len(data) - l |-> data[l + i]]
    <3>1. l <= Len(data) /\ Len(data) \in Nat
      BY <1>2, <1>7 DEF Begins, l
    <3>2. data \in Seq(Byte) /\ l \in Nat
      BY <1>2, <1>5, Zenon
    <3> QED BY <3>1, <3>2 DEF Rest
  <2>2. Len(data) - l = a - E[j + 1]
    BY <1>2, <1>4, <1>5
  <2>3. ASSUME NEW i \in 1 .. a - E[j + 1] PROVE data[l + i] = next[i]
    <3>1. l + i \in 1 .. a - E[j] /\ E[j] + (l + i) = E[j + 1] + i
      BY <1>2, <1>4, <1>5
    <3> QED BY <1>2, <1>6, <3>1
  <2>4. next = [i \in 1 .. a - E[j + 1] |-> next[i]]
    BY <1>6
  <2> QED BY <2>1, <2>2, <2>3, <2>4
<1> QED BY <1>4, <1>9, <1>10 DEF data, next, p, l
-----------------------------------------------------------------------------
(* s has parsed the pieces from m + 1 to j.                                *)
Took(s, P, E, B, m, j, a) ==
    /\ E[j] <= a /\ s.left = Left(B, E, j, a)
    /\ Len(s.frames) = j - m
    /\ \A i \in 1 .. j - m : Fits(s.frames[i], P[m + i])

(* No handler waits for a piece that is there already.                     *)
Quiet(P, E, B, j, a) ==
    /\ Waits(Left(B, E, j, a))
    /\ \A k \in j + 1 .. Len(P) : E[k] <= a => P[k].opcode \notin Handlers

Lost(s) == s.raised # "no" /\ s.frames = <<>>

(* A turn takes the next piece, or raises, or there is nothing to take that*)
(* a handler waits for.                                                    *)
LEMMA TookTurn ==
    ASSUME NEW P, NEW E, NEW B, Streamed(P, E, B), NEW m \in 0 .. Len(P), NEW j \in m .. Len(P), NEW a \in E[m] .. Len(B),
           NEW s \in ParseStates, s.raised = "no", Took(s, P, E, B, m, j, a)
    PROVE  \/ Lost(ParseTurn(s))
           \/ ParseTurn(s) = s /\ Quiet(P, E, B, j, a)
           \/ /\ j + 1 \in m .. Len(P) /\ ParseTurn(s).raised = "no"
              /\ Took(ParseTurn(s), P, E, B, m, j + 1, a)
              /\ Len(ParseTurn(s).left) < Len(s.left)
<1> DEFINE t == ParseTurn(s)
           data == Left(B, E, j, a)
<1>0. /\ Len(P) \in Nat /\ Len(B) \in Nat
      /\ \A k \in 0 .. Len(P) : E[k] \in Nat /\ E[k] <= Len(B)
      /\ \A k, l \in 0 .. Len(P) : k < l => E[k] < E[l]
  BY EndsUp
<1>1. j \in 0 .. Len(P) /\ E[j] \in Nat /\ a \in Nat
  <2>1. j \in 0 .. Len(P) /\ m \in 0 .. Len(P)
    BY <1>0
  <2>2. E[m] \in Nat
    BY <1>0, <2>1
  <2> QED BY <1>0, <2>1, <2>2
<1>2. a \in E[j] .. Len(B) /\ s.left = data
  <2>1. E[j] <= a /\ s.left = data
    BY Zenon DEF Took
  <2>2. a <= Len(B)
    BY <1>0
  <2> QED BY <1>0, <1>1, <2>1, <2>2
<1>3. s.frames \in Seq(FrameSet) /\ s.left \in Seq(Byte)
  BY DEF ParseStates
<1>4. CASE j = Len(P) \/ a < E[j + 1]
  <2>1. Waits(data)
    BY <1>1, <1>2, <1>4, PartWaits
  <2>2. t = s
    BY <1>2, <2>1, TurnIs
  <2>3. ASSUME NEW k \in j + 1 .. Len(P), E[k] <= a PROVE FALSE
    <3>1. k \in 0 .. Len(P) /\ j + 1 \in 0 .. Len(P) /\ (k = j + 1 \/ j + 1 < k) /\ j # Len(P)
      BY <1>0, <1>1
    <3>2. E[j + 1] \in Nat /\ E[k] \in Nat
      BY <1>0, <3>1
    <3>3. E[j + 1] <= E[k]
      <4>1. CASE k = j + 1
        BY <3>2, <4>1
      <4>2. CASE j + 1 < k
        BY <1>0, <3>1, <3>2, <4>2
      <4> QED BY <3>1, <4>1, <4>2
    <3>4. a < E[j + 1]
      BY <1>4, <3>1
    <3> HIDE DEF t, data
    <3> QED BY <1>1, <2>3, <3>2, <3>3, <3>4
  <2>4. Quiet(P, E, B, j, a)
    BY <2>1, <2>3 DEF Quiet
  <2> QED BY <2>2, <2>4
<1>5. CASE ~(j = Len(P) \/ a < E[j + 1])
  <2> DEFINE p == P[j + 1]
  <2>1. j \in 0 .. Len(P) - 1 /\ j + 1 \in m .. Len(P) /\ j + 1 \in 0 .. Len(P)
    BY <1>0, <1>1, <1>5
  <2>2. E[j + 1] \in Nat
    BY <1>0, <2>1
  <2>3. E[j + 1] <= a
    BY <1>1, <1>5, <2>2
  <2>4. Ready(p, data) /\ Rest(data, Len(p.bytes)) = Left(B, E, j + 1, a) /\ E[j + 1] = E[j] + Len(p.bytes)
    BY <1>2, <2>1, <2>3, WholeReady
  <2>5. Len(data) = a - E[j]
    BY <1>1, <1>2, LeftIs
  <2>6. CASE Bad(data)
    BY <1>2, <2>6, TurnIs DEF Lost
  <2>7. CASE Good(data) /\ Total(data) = Len(p.bytes) /\ Fits(FrameAt(data), p)
    <3>1. t.raised = "no" /\ t.frames = Append(s.frames, FrameAt(data)) /\ t.left = Left(B, E, j + 1, a)
      BY <1>2, <2>4, <2>7, TurnIs
    <3>2. Len(t.left) = a - E[j + 1]
      <4>1. a \in E[j + 1] .. Len(B)
        BY <1>0, <1>1, <1>2, <2>2, <2>3
      <4>2. PICK k \in 0 .. Len(P) : k = j + 1
        BY <2>1
      <4>3. Len(Left(B, E, k, a)) = a - E[k]
        <5>1. a \in E[k] .. Len(B)
          BY <4>1, <4>2, Zenon
        <5> QED BY <5>1, LeftIs
      <4> QED BY <3>1, <4>2, <4>3, Zenon
    <3>3. E[j] < E[j + 1]
      <4>1. j < j + 1
        BY <1>1
      <4> QED BY <1>0, <1>1, <2>1, <4>1
    <3>4. Len(t.left) < Len(s.left)
      <4>1. Len(s.left) = a - E[j]
        BY <1>2, <2>5, Zenon
      <4> HIDE DEF t
      <4> QED BY <1>1, <2>2, <3>2, <3>3, <4>1
    <3>5. Took(t, P, E, B, m, j + 1, a)
      <4> DEFINE f == FrameAt(data)
                 x == s.frames
                 y == t.frames
      <4>1. y = Append(x, f) /\ x \in Seq(FrameSet)
        BY <1>3, <3>1
      <4>2. Len(x) = j - m /\ \A i \in 1 .. j - m : Fits(x[i], P[m + i])
        BY DEF Took
      <4>3. Fits(f, p)
        BY <2>7
      <4> HIDE DEF f, x, y, t, p
      <4>4. Len(y) = j - m + 1 /\ y[j - m + 1] = f /\ \A i \in 1 .. j - m : y[i] = x[i]
        BY <4>1, <4>2
      <4>5. Len(y) = (j + 1) - m
        BY <1>0, <1>1, <4>4
      <4>6. ASSUME NEW i \in 1 .. (j + 1) - m PROVE Fits(y[i], P[m + i])
        <5>1. CASE i \in 1 .. j - m
          BY <4>2, <4>4, <5>1
        <5>2. CASE i = j - m + 1
          <6>1. m + i = j + 1
            BY <1>0, <1>1, <5>2
          <6> QED BY <4>3, <4>4, <5>2, <6>1 DEF p
        <5>3. i \in 1 .. j - m \/ i = j - m + 1
          BY <1>0, <1>1
        <5> QED BY <5>1, <5>2, <5>3
      <4> QED BY <2>3, <3>1, <4>5, <4>6 DEF Took, y
    <3> QED BY <2>1, <3>1, <3>4, <3>5
  <2>8. CASE Waits(data) /\ p.opcode = -1 /\ Len(data) = Len(p.bytes)
    <3>1. t = s
      BY <1>2, <2>8, TurnIs
    <3>2. a = E[j + 1]
      <4>1. PICK e \in Nat, f \in Nat, x \in Nat : e = E[j] /\ f = E[j + 1] /\ x = a
        BY <1>1, <2>2
      <4>2. E[j + 1] = E[j] + (a - E[j])
        BY <2>4, <2>5, <2>8, Zenon
      <4>3. f = e + (x - e)
        BY <4>1, <4>2, Zenon
      <4>4. x = f
        BY <4>3
      <4> QED BY <4>1, <4>4, Zenon
    <3>3. ASSUME NEW k \in j + 1 .. Len(P), E[k] <= a PROVE P[k].opcode \notin Handlers
      <4>1. k = j + 1
        <5>1. k \in 0 .. Len(P) /\ (k = j + 1 \/ j + 1 < k)
          BY <1>0, <1>1
        <5>2. ASSUME j + 1 < k PROVE FALSE
          <6>1. E[j + 1] < E[k] /\ E[k] \in Nat
            BY <1>0, <2>1, <5>1, <5>2
          <6> HIDE DEF t
          <6> QED BY <2>2, <3>2, <3>3, <6>1
        <5> QED BY <5>1, <5>2
      <4>2. -1 \notin Handlers
        BY DEF Handlers, WORLD_LIST, HEARTBEAT
      <4> QED BY <2>8, <4>1, <4>2
    <3>4. Quiet(P, E, B, j, a)
      BY <2>8, <3>3 DEF Quiet
    <3> QED BY <3>1, <3>4
  <2> HIDE DEF t, data, p
  <2>9. Bad(data) \/ (Good(data) /\ Total(data) = Len(p.bytes) /\ Fits(FrameAt(data), p))
        \/ (Waits(data) /\ p.opcode = -1 /\ Len(data) = Len(p.bytes))
    BY <2>4 DEF Ready
  <2> QED BY <2>6, <2>7, <2>8, <2>9 DEF t, data, p
<1> QED BY <1>4, <1>5
-----------------------------------------------------------------------------
(* What the turns of parse_frames have made of the stream so far           *)
Taken(s, P, E, B, m, a, room) ==
    \/ Lost(s)
    \/ s.raised = "no" /\ \E j \in m .. Len(P) :
         Took(s, P, E, B, m, j, a) /\ (Quiet(P, E, B, j, a) \/ Len(s.left) <= room)

(* One turn of the loop, with the turns that remain: there are enough,     *)
(* since each that takes a piece leaves less.                              *)
LEMMA TakenTurn ==
    ASSUME NEW P, NEW E, NEW B, Streamed(P, E, B), NEW m \in 0 .. Len(P), NEW a \in E[m] .. Len(B),
           NEW s \in ParseStates, NEW room \in Int, Taken(s, P, E, B, m, a, room)
    PROVE  Taken(ParseTurn(s), P, E, B, m, a, room - 1)
<1>1. CASE Lost(s)
  <2>1. ParseTurn(s) = s
    BY <1>1, TurnIs DEF Lost
  <2> QED BY <1>1, <2>1 DEF Taken
<1>2. CASE ~Lost(s)
  <2>1. PICK j \in m .. Len(P) :
          /\ s.raised = "no" /\ Took(s, P, E, B, m, j, a)
          /\ Quiet(P, E, B, j, a) \/ Len(s.left) <= room
    BY <1>2 DEF Taken
  <2> DEFINE t == ParseTurn(s)
  <2>2. \/ Lost(t)
        \/ t = s /\ Quiet(P, E, B, j, a)
        \/ /\ j + 1 \in m .. Len(P) /\ t.raised = "no" /\ Took(t, P, E, B, m, j + 1, a)
           /\ Len(t.left) < Len(s.left)
    BY <2>1, TookTurn
  <2>3. t \in ParseStates /\ Len(t.left) \in Nat /\ Len(s.left) \in Nat
    <3>1. t \in ParseStates
      BY ParseTurnType
    <3> HIDE DEF t
    <3>2. t.left \in Seq(Byte) /\ s.left \in Seq(Byte)
      BY <3>1 DEF ParseStates
    <3> QED BY <3>1, <3>2
  <2>4. Quiet(P, E, B, j, a) => t = s
    <3>1. s.left = Left(B, E, j, a)
      BY <2>1 DEF Took
    <3> QED BY <3>1, TurnIs DEF Quiet
  <2> HIDE DEF t
  <2>5. CASE Lost(t)
    BY <2>5 DEF Taken, t
  <2>6. CASE t = s /\ Quiet(P, E, B, j, a)
    BY <2>1, <2>6 DEF Taken, t
  <2>7. CASE /\ j + 1 \in m .. Len(P) /\ t.raised = "no" /\ Took(t, P, E, B, m, j + 1, a)
             /\ Len(t.left) < Len(s.left) /\ ~Quiet(P, E, B, j, a)
    <3>1. Len(t.left) <= room - 1
      BY <2>1, <2>3, <2>7
    <3> QED BY <2>7, <3>1 DEF Taken, t
  <2> QED BY <2>1, <2>2, <2>4, <2>5, <2>6, <2>7
<1> QED BY <1>1, <1>2

(* All that parse_frames makes of what has come                            *)
LEMMA ParsedPieces ==
    ASSUME NEW P, NEW E, NEW B, Streamed(P, E, B), NEW m \in 0 .. Len(P), NEW a \in E[m] .. Len(B)
    PROVE  LET s == ParseFrames(Left(B, E, m, a))
           IN  /\ s \in ParseStates
               /\ \/ Lost(s)
                  \/ s.raised = "no" /\ \E j \in m .. Len(P) : Took(s, P, E, B, m, j, a) /\ Quiet(P, E, B, j, a)
<1> DEFINE data == Left(B, E, m, a)
           n == Len(data)
<1>1. data \in Seq(Byte) /\ n \in Nat
  BY LeftIs
<1> HIDE DEF data, n
<1>2. PICK after \in [0 .. n -> ParseStates] :
        /\ after[0] = Fresh(data)
        /\ \A k \in 1 .. n : after[k] = ParseTurn(after[k - 1])
        /\ ParseFrames(data) = after[n]
  BY <1>1, ParseLoop DEF n
<1> DEFINE S == {k \in 0 .. n : Taken(after[k], P, E, B, m, a, n - k)}
<1>3. 0 .. n \subseteq S
  <2>1. 0 \in S
    <3>1. /\ after[0].raised = "no" /\ after[0].left = data /\ after[0].frames = <<>>
      BY <1>2 DEF Fresh
    <3>2. m \in m .. Len(P) /\ m - m = 0 /\ m \in Nat
      BY EndsUp
    <3>3. E[m] <= a
      BY EndsUp
    <3>4. Took(after[0], P, E, B, m, m, a)
      BY <3>1, <3>2, <3>3 DEF Took, data
    <3>5. Len(after[0].left) <= n - 0
      BY <1>1, <3>1 DEF n
    <3>6. Taken(after[0], P, E, B, m, a, n - 0)
      BY <3>1, <3>2, <3>4, <3>5 DEF Taken
    <3> QED BY <1>1, <3>6
  <2>2. ASSUME NEW k \in 0 .. n - 1, k \in S PROVE k + 1 \in S
    <3>1. k \in 0 .. n /\ k + 1 \in 0 .. n /\ k + 1 \in 1 .. n /\ (k + 1) - 1 = k /\ n - k \in Int
          /\ (n - k) - 1 = n - (k + 1)
      BY <1>1
    <3>2. after[k] \in ParseStates /\ Taken(after[k], P, E, B, m, a, n - k)
      BY <2>2, <3>1
    <3>3. Taken(ParseTurn(after[k]), P, E, B, m, a, (n - k) - 1)
      BY <3>1, <3>2, TakenTurn
    <3>4. after[k + 1] = ParseTurn(after[k])
      BY <1>2, <3>1
    <3>5. Taken(after[k + 1], P, E, B, m, a, n - (k + 1))
      BY <3>1, <3>3, <3>4, Zenon
    <3> QED BY <3>1, <3>5
  <2> HIDE DEF S
  <2> QED BY <1>1, <2>1, <2>2, UpTo
<1> DEFINE s == after[n]
<1>4. s \in ParseStates /\ Taken(s, P, E, B, m, a, 0)
  <2>1. n \in 0 .. n /\ n - n = 0
    BY <1>1
  <2>2. Taken(s, P, E, B, m, a, n - n)
    BY <1>3, <2>1
  <2>3. s \in ParseStates
    BY <2>1
  <2> QED BY <2>1, <2>2, <2>3
<1> HIDE DEF s
<1>5. CASE Lost(s)
  BY <1>2, <1>4, <1>5 DEF data, s
<1>6. CASE ~Lost(s)
  <2>1. PICK j \in m .. Len(P) :
          /\ s.raised = "no" /\ Took(s, P, E, B, m, j, a)
          /\ Quiet(P, E, B, j, a) \/ Len(s.left) <= 0
    BY <1>4, <1>6 DEF Taken
  <2>2. s.left \in Seq(Byte) /\ Len(s.left) \in Nat
    <3>1. s.left \in Seq(Byte)
      BY <1>4 DEF ParseStates
    <3> QED BY <3>1
  <2>3. Quiet(P, E, B, j, a)
    <3>1. CASE Len(s.left) <= 0
      <4>1. Waits(s.left)
        BY <2>2, <3>1 DEF Waits, HEADER_LENGTH
      <4>2. ParseTurn(s) = s
        BY <1>4, <4>1, TurnIs
      <4>3. ~Lost(ParseTurn(s))
        BY <1>6, <4>2
      <4>4. ~(Len(ParseTurn(s).left) < Len(s.left))
        BY <2>2, <4>2
      <4> QED BY <1>4, <2>1, <4>3, <4>4, TookTurn
    <3> QED BY <2>1, <3>1
  <2> QED BY <1>2, <1>4, <2>1, <2>3 DEF data, s
<1> QED BY <1>5, <1>6
-----------------------------------------------------------------------------
(* What the first j of the told pieces are for the handlers, and what the  *)
(* handlers are due when a bytes have come                                 *)
EntryOf(t)    == [opcode |-> t.opcode, body |-> t.body]
Heard(T, j)   == {k \in 1 .. j : T[k].opcode \in Handlers}
Heed(T, j)    == Contents(Those(T, Heard(T, j)))
DueSet(T, a)  == {k \in DOMAIN T : T[k].opcode \in Handlers /\ T[k].end <= a}
Due(T, a)     == Contents(Those(T, DueSet(T, a)))
Rising(T)     == \A k, l \in 1 .. Len(T) : k < l => T[k].end < T[l].end

(* The contents of frames, and of one frame more                           *)
LEMMA ContentsIs ==
    ASSUME NEW X, NEW s \in Seq(X)
    PROVE  /\ Contents(s) \in Seq({EntryOf(x) : x \in X}) /\ Len(Contents(s)) = Len(s)
           /\ \A i \in 1 .. Len(s) : Contents(s)[i] = EntryOf(s[i])
<1>1. \A i \in 1 .. Len(s) : s[i] \in X
  OBVIOUS
<1> DEFINE n == Len(s)
<1>2. n \in Nat
  OBVIOUS
<1>3. Contents(s) = [i \in 1 .. n |-> EntryOf(s[i])]
  BY DEF Contents, EntryOf
<1> HIDE DEF n
<1> DEFINE V == {EntryOf(x) : x \in X}
<1>4. \A i \in 1 .. n : EntryOf(s[i]) \in V
  BY <1>1 DEF n
<1> HIDE DEF V
<1>5. Contents(s) \in [1 .. n -> V]
  BY <1>3, <1>4
<1>6. Contents(s) \in Seq(V) /\ Len(Contents(s)) = n
  BY <1>2, <1>5
<1> QED BY <1>3, <1>6 DEF n, V

LEMMA ContentsMore ==
    ASSUME NEW X, NEW s \in Seq(X), NEW x \in X
    PROVE  Contents(Append(s, x)) = Append(Contents(s), EntryOf(x))
<1> DEFINE g == Append(s, x)
           n == Len(s)
           c == Contents(s)
           b == Contents(g)
           V == {EntryOf(y) : y \in X}
<1>1. /\ n \in Nat /\ g \in Seq(X) /\ Len(g) = n + 1
      /\ g[n + 1] = x /\ \A k \in 1 .. n : g[k] = s[k]
  OBVIOUS
<1> HIDE DEF g, n
<1>2. c \in Seq(V) /\ Len(c) = n /\ \A i \in 1 .. n : c[i] = EntryOf(s[i])
  BY ContentsIs DEF n
<1>3. b \in Seq(V) /\ Len(b) = n + 1 /\ \A i \in 1 .. n + 1 : b[i] = EntryOf(g[i])
  BY <1>1, ContentsIs
<1>4. EntryOf(x) \in V
  OBVIOUS
<1>5. n + 1 \in 1 .. n + 1 /\ \A i \in 1 .. n : i \in 1 .. n + 1
  BY <1>1
<1> DEFINE e == EntryOf(x)
<1> HIDE DEF b, c, V, e
<1>6. b[n + 1] = e /\ \A i \in 1 .. n : b[i] = c[i]
  BY <1>1, <1>2, <1>3, <1>5 DEF e
<1> DEFINE z == Append(c, e)
<1>7. z \in Seq(V) /\ Len(z) = n + 1 /\ z[n + 1] = e /\ \A i \in 1 .. n : z[i] = c[i]
  BY <1>2, <1>4 DEF e
<1> HIDE DEF z
<1>8. b = z
  <2>1. \A i \in 1 .. n + 1 : i = n + 1 \/ i \in 1 .. n
    BY <1>1
  <2>2. \A i \in 1 .. n + 1 : b[i] = z[i]
    BY <1>6, <1>7, <2>1
  <2> QED BY <1>3, <1>7, <2>2
<1> QED BY <1>8 DEF b, c, g, z, e

(* What the handlers have had of one piece more, and of none               *)
LEMMA HeedMore ==
    ASSUME NEW T \in Seq(Sayings), NEW j \in 1 .. Len(T)
    PROVE  Heed(T, j) = IF T[j].opcode \in Handlers THEN Append(Heed(T, j - 1), EntryOf(T[j]))
                        ELSE Heed(T, j - 1)
<1> DEFINE S == Heard(T, j)
           R == Heard(T, j - 1)
<1>1. Len(T) \in Nat /\ DOMAIN T = 1 .. Len(T) /\ T[j] \in Sayings
  OBVIOUS
<1>2. CASE T[j].opcode \notin Handlers
  <2>1. \A k \in 1 .. j : k = j \/ k \in 1 .. j - 1
    BY <1>1
  <2>2. \A k \in 1 .. j - 1 : k \in 1 .. j
    BY <1>1
  <2>3. S = R
    BY <1>2, <2>1, <2>2 DEF Heard
  <2> QED BY <1>2, <2>3 DEF Heed
<1>3. CASE T[j].opcode \in Handlers
  <2>1. \A k \in 1 .. j : (k = j /\ k \notin 1 .. j - 1) \/ (k # j /\ k \in 1 .. j - 1)
    BY <1>1
  <2>2. \A k \in 1 .. j - 1 : k \in 1 .. j
    BY <1>1
  <2>3. j \in 1 .. j /\ \A k \in 1 .. j : k \in 1 .. Len(T) /\ k <= j
    BY <1>1
  <2>4. j \in S /\ S \ {j} = R
    BY <1>3, <2>1, <2>2, <2>3 DEF Heard
  <2>5. S \in SUBSET (1 .. Len(T)) /\ \A y \in S : y <= j
    BY <2>3 DEF Heard
  <2> HIDE DEF S, R
  <2>6. Those(T, S) = Append(Those(T, R), T[j])
    <3>1. Those(T, S) = Append(Those(T, S \ {j}), T[j])
      BY <2>4, <2>5, ThoseMore
    <3> QED BY <2>4, <3>1
  <2>7. Those(T, R) \in Seq(Sayings)
    <3>1. R \in SUBSET DOMAIN T
      BY <1>1, <2>4, <2>5
    <3> QED BY <3>1, ThoseType
  <2>8. Contents(Append(Those(T, R), T[j])) = Append(Contents(Those(T, R)), EntryOf(T[j]))
    BY <1>1, <2>7, ContentsMore
  <2> QED BY <1>3, <2>6, <2>8 DEF Heed, S, R
<1> QED BY <1>2, <1>3

LEMMA HeedNone == ASSUME NEW T PROVE Heed(T, 0) = <<>>
<1>1. Heard(T, 0) = {}
  BY DEF Heard
<1>2. Those(T, Heard(T, 0)) = <<>>
  BY <1>1, ThoseNone
<1> QED BY <1>2 DEF Heed, Contents

(* What has been handed on of pieces that are all there is due.            *)
LEMMA DueBegins ==
    ASSUME NEW T \in Seq(Sayings), Rising(T), NEW j \in 0 .. Len(T), NEW a \in Nat,
           j = 0 \/ T[j].end <= a
    PROVE  Len(Heed(T, j)) <= Len(Due(T, a)) /\ Heed(T, j) = SubSeq(Due(T, a), 1, Len(Heed(T, j)))
<1> DEFINE S == DueSet(T, a)
           R == Heard(T, j)
<1>1. Len(T) \in Nat /\ DOMAIN T = 1 .. Len(T) /\ \A k \in 1 .. Len(T) : T[k].end \in Nat
  <2>1. \A k \in 1 .. Len(T) : T[k] \in Sayings
    OBVIOUS
  <2> QED BY <2>1 DEF Sayings
<1>2. ASSUME NEW k \in 1 .. j PROVE k \in 1 .. Len(T) /\ T[k].end <= a
  <2>1. k \in 1 .. Len(T) /\ j \in 1 .. Len(T) /\ (k = j \/ k < j) /\ j # 0
    BY <1>1
  <2>2. CASE k = j
    BY <2>1, <2>2
  <2>3. CASE k < j
    <3>1. T[k].end < T[j].end /\ T[k].end \in Nat /\ T[j].end \in Nat
      BY <1>1, <2>1, <2>3 DEF Rising
    <3> QED BY <2>1, <3>1
  <2> QED BY <2>1, <2>2, <2>3
<1>3. R \subseteq S
  BY <1>1, <1>2 DEF Heard, DueSet
<1>4. S \in SUBSET (1 .. Len(T))
  BY <1>1 DEF DueSet
<1>5. ASSUME NEW x \in S, NEW y \in R, x < y PROVE x \in R
  <2>1. x \in 1 .. Len(T) /\ T[x].opcode \in Handlers /\ y \in 1 .. j
    BY <1>1 DEF DueSet, Heard
  <2>2. x \in 1 .. j
    BY <1>1, <1>5, <2>1
  <2> QED BY <2>1, <2>2 DEF Heard
<1> HIDE DEF S, R
<1> DEFINE s == Those(T, S)
           r == Those(T, R)
           l == Len(r)
<1>6. l \in Nat /\ l <= Len(s) /\ r = SubSeq(s, 1, l)
  BY <1>3, <1>4, <1>5, ThoseLow
<1>7. s \in Seq(Sayings) /\ r \in Seq(Sayings)
  <2>1. S \in SUBSET DOMAIN T /\ R \in SUBSET DOMAIN T
    BY <1>1, <1>3, <1>4
  <2> QED BY <2>1, ThoseType
<1> HIDE DEF s, r
<1> DEFINE V == {EntryOf(x) : x \in Sayings}
           c == Contents(s)
           b == Contents(r)
<1>8. /\ c \in Seq(V) /\ Len(c) = Len(s) /\ \A i \in 1 .. Len(s) : c[i] = EntryOf(s[i])
      /\ b \in Seq(V) /\ Len(b) = l /\ \A i \in 1 .. l : b[i] = EntryOf(r[i])
  BY <1>7, ContentsIs
<1>9. Len(s) \in Nat /\ \A i \in 1 .. l : r[i] = s[i] /\ i \in 1 .. Len(s)
  <2>1. Len(s) \in Nat
    BY <1>7
  <2>2. \A i \in 1 .. l : SubSeq(s, 1, l)[i] = s[i]
    BY <1>6, <1>7, <2>1
  <2> HIDE DEF l
  <2>3. \A i \in 1 .. l : i \in 1 .. Len(s)
    BY <1>6, <2>1
  <2> QED BY <1>6, <2>1, <2>2, <2>3
<1> HIDE DEF V, c, b, l
<1>10. \A i \in 1 .. l : b[i] = c[i]
  BY <1>8, <1>9
<1>11. b = SubSeq(c, 1, l)
  <2>1. SubSeq(c, 1, l) = [i \in 1 .. l |-> c[i]]
    BY <1>6, <1>8, <1>9
  <2>2. b = [i \in 1 .. l |-> b[i]]
    BY <1>6, <1>8
  <2> QED BY <1>10, <2>1, <2>2
<1>12. l <= Len(c)
  BY <1>6, <1>8
<1>13. b = Heed(T, j) /\ c = Due(T, a) /\ Len(b) = l
  BY <1>8 DEF b, c, r, s, S, R, Heed, Due
<1> QED BY <1>11, <1>12, <1>13

(* Nothing else is due: all of it has been handed on.                      *)
LEMMA DueAll ==
    ASSUME NEW T \in Seq(Sayings), Rising(T), NEW j \in 0 .. Len(T), NEW a \in Nat,
           j = 0 \/ T[j].end <= a,
           \A k \in j + 1 .. Len(T) : T[k].end <= a => T[k].opcode \notin Handlers
    PROVE  Heed(T, j) = Due(T, a)
<1>1. Len(T) \in Nat /\ DOMAIN T = 1 .. Len(T) /\ \A k \in 1 .. Len(T) : T[k].end \in Nat
  <2>1. \A k \in 1 .. Len(T) : T[k] \in Sayings
    OBVIOUS
  <2> QED BY <2>1 DEF Sayings
<1>2. ASSUME NEW k \in 1 .. j PROVE k \in 1 .. Len(T) /\ T[k].end <= a
  <2>1. k \in 1 .. Len(T) /\ j \in 1 .. Len(T) /\ (k = j \/ k < j) /\ j # 0
    BY <1>1
  <2>2. CASE k = j
    BY <2>1, <2>2
  <2>3. CASE k < j
    <3>1. T[k].end < T[j].end /\ T[k].end \in Nat /\ T[j].end \in Nat
      BY <1>1, <2>1, <2>3 DEF Rising
    <3> QED BY <2>1, <3>1
  <2> QED BY <2>1, <2>2, <2>3
<1>3. \A k \in 1 .. Len(T) : k \in 1 .. j \/ k \in j + 1 .. Len(T)
  BY <1>1
<1>4. Heard(T, j) = DueSet(T, a)
  BY <1>1, <1>2, <1>3 DEF Heard, DueSet
<1> QED BY <1>4 DEF Heed, Due
-----------------------------------------------------------------------------
(* What one frame does to the handlers' state                              *)
EntryFrom(f) == [opcode |-> f.opcode, body |-> ClientDecrypt(f.body, f.opcode, f.sequence)]

Passed(s, t) == t = s
Refused(s, t) == t.phase = "raised" /\ t.handled = s.handled /\ t.said = s.said
Beaten(s, t, e) ==
    /\ e.opcode = HEARTBEAT /\ e \in HandledSet /\ HeartbeatResponse(e.body) \in Seq(Byte)
    /\ t.phase = "reading" /\ t.handled = Append(s.handled, e)
    /\ t.said = Send(HEARTBEAT_RESPONSE, HeartbeatResponse(e.body), s.said, draw)
Listed(s, t, e) ==
    /\ e.opcode = WORLD_LIST /\ e \in HandledSet
    /\ t.phase = "list" /\ t.handled = Append(s.handled, e) /\ t.said = s.said

LEMMA DispatchIs ==
    ASSUME NEW s \in DispatchStates, NEW f \in FrameSet
    PROVE  \/ (s.phase # "reading" \/ f.opcode \notin Handlers) /\ Passed(s, Dispatch(s, f))
           \/ /\ s.phase = "reading" /\ f.opcode \in Handlers
              /\ \/ Refused(s, Dispatch(s, f))
                 \/ ~TooShort(f.body, f.opcode)
                    /\ (Beaten(s, Dispatch(s, f), EntryFrom(f)) \/ Listed(s, Dispatch(s, f), EntryFrom(f)))
<1> DEFINE body  == ClientDecrypt(f.body, f.opcode, f.sequence)
           entry == [opcode |-> f.opcode, body |-> body]
           found == ParseWorldList(body)
           t == Dispatch(s, f)
<1>1. /\ s.phase \in {"reading", "list", "raised"} /\ s.handled \in Seq(HandledSet)
      /\ s.said \in Seq(Seq(Byte)) /\ s.list \in ListSet
      /\ s = [phase |-> s.phase, handled |-> s.handled, said |-> s.said, list |-> s.list]
  BY DEF DispatchStates
<1>2. f.opcode \in Byte /\ f.sequence \in Byte /\ f.body \in Seq(Byte)
  BY DEF FrameSet
<1>3. CASE s.phase # "reading" \/ f.opcode \notin Handlers
  BY <1>3 DEF Dispatch, Passed
<1>a. ASSUME s.phase = "reading", f.opcode \in Handlers, Dispatch(s, f) = [s EXCEPT !.phase = "raised"]
      PROVE  Refused(s, t)
  BY <1>1, <1>a DEF Refused
<1>4. CASE s.phase = "reading" /\ f.opcode \in Handlers /\ TooShort(f.body, f.opcode)
  <2>1. Dispatch(s, f) = [s EXCEPT !.phase = "raised"]
    BY <1>4 DEF Dispatch
  <2> QED BY <1>4, <1>a, <2>1
<1>5. CASE s.phase = "reading" /\ f.opcode \in Handlers /\ ~TooShort(f.body, f.opcode)
  <2>1. body \in Seq(Byte)
    BY <1>2, <1>5, DecryptType
  <2>2. entry \in HandledSet /\ entry = EntryFrom(f) /\ entry.opcode = f.opcode /\ entry.body = body
    <3>1. entry = EntryFrom(f)
      BY DEF EntryFrom
    <3> HIDE DEF body
    <3> QED BY <1>5, <2>1, <3>1 DEF HandledSet
  <2>4. CASE f.opcode = HEARTBEAT /\ ParseHeartbeat(body).raised # "no"
    <3>1. Dispatch(s, f) = [s EXCEPT !.phase = "raised"]
      BY <1>5, <2>4 DEF Dispatch
    <3> QED BY <1>5, <1>a, <3>1
  <2>5. CASE f.opcode = HEARTBEAT /\ ParseHeartbeat(body).raised = "no"
    <3>1. HeartbeatResponse(body) \in Seq(Byte)
      <4> HIDE DEF body
      <4>1. Len(body) >= 2 /\ Len(body) \in Nat
        BY <2>1, <2>5 DEF ParseHeartbeat
      <4>2. body[1] \in Byte /\ body[2] \in Byte
        BY <2>1, <4>1
      <4> QED BY <4>2 DEF HeartbeatResponse
    <3> DEFINE sent == Send(HEARTBEAT_RESPONSE, HeartbeatResponse(body), s.said, draw)
    <3>4. Dispatch(s, f) = [s EXCEPT !.handled = Append(s.handled, entry), !.said = sent]
      BY <1>5, <2>5 DEF Dispatch
    <3>a. sent = Send(HEARTBEAT_RESPONSE, HeartbeatResponse(entry.body), s.said, draw)
      BY <2>2, Zenon
    <3>b. HeartbeatResponse(entry.body) \in Seq(Byte)
      BY <2>2, <3>1, Zenon
    <3> HIDE DEF sent, entry, body
    <3>5. t.phase = "reading" /\ t.handled = Append(s.handled, entry) /\ t.said = sent
      BY <1>1, <1>5, <3>4
    <3> HIDE DEF t
    <3>6. Beaten(s, t, entry)
      BY <2>2, <2>5, <3>a, <3>b, <3>5, Zenon DEF Beaten
    <3> QED BY <1>5, <2>2, <3>6, Zenon DEF t
  <2>a. f.opcode = HEARTBEAT \/ f.opcode = WORLD_LIST
    BY <1>5 DEF Handlers
  <2>6. CASE f.opcode # HEARTBEAT /\ found.raised # "no"
    <3>1. Dispatch(s, f) = [s EXCEPT !.phase = "raised"]
      BY <1>5, <2>6 DEF Dispatch
    <3> QED BY <1>5, <1>a, <3>1
  <2>7. CASE f.opcode # HEARTBEAT /\ found.raised = "no"
    <3> DEFINE got == [count |-> found.count, members |-> found.members]
    <3>3. Dispatch(s, f) = [s EXCEPT !.phase = "list", !.handled = Append(s.handled, entry), !.list = got]
      BY <1>5, <2>7 DEF Dispatch
    <3> HIDE DEF entry, got
    <3>5. t.phase = "list" /\ t.handled = Append(s.handled, entry) /\ t.said = s.said
      BY <1>1, <3>3
    <3> HIDE DEF t
    <3>6. Listed(s, t, entry)
      BY <2>2, <2>7, <2>a, <3>5, Zenon DEF Listed
    <3> QED BY <1>5, <2>2, <3>6, Zenon DEF t
  <2> QED BY <2>4, <2>5, <2>6, <2>7
<1> QED BY <1>3, <1>4, <1>5

(* How far the handlers have come with the first i of the told pieces      *)
Handed(s, T, i) ==
    \/ s.phase = "reading" /\ s.handled = Heed(T, i)
    \/ /\ s.phase = "list" /\ s.handled = Heed(T, i)
       /\ \E l \in 1 .. i : T[l].opcode = WORLD_LIST
    \/ s.phase = "raised" /\ \E k \in 0 .. i : s.handled = Heed(T, k)

(* A frame that fits the next piece brings the handlers to it. After the   *)
(* list no handler is called, and none is due.                             *)
LEMMA HandedMore ==
    ASSUME NEW T \in Seq(Sayings), Single(T), NEW i \in 1 .. Len(T),
           NEW s \in DispatchStates, NEW f \in FrameSet, Fits(f, T[i]), Handed(s, T, i - 1)
    PROVE  Handed(Dispatch(s, f), T, i)
<1> DEFINE t == Dispatch(s, f)
           h == Heed(T, i)
           g == Heed(T, i - 1)
<1>1. i - 1 \in 0 .. i /\ i \in 0 .. i /\ i \in 1 .. i /\ Len(T) \in Nat
  OBVIOUS
<1>2. \A k : (k \in 1 .. i - 1 => k \in 1 .. i) /\ (k \in 0 .. i - 1 => k \in 0 .. i)
  BY <1>1
<1>3. h = IF T[i].opcode \in Handlers THEN Append(g, EntryOf(T[i])) ELSE g
  BY HeedMore
<1>4. -1 \notin Handlers /\ HEARTBEAT # WORLD_LIST
  BY DEF Handlers, HEARTBEAT, WORLD_LIST
<1>5. CASE s.phase = "raised"
  <2>1. t = s
    BY <1>5 DEF Dispatch
  <2>2. PICK k \in 0 .. i - 1 : s.handled = Heed(T, k)
    BY <1>5 DEF Handed
  <2> HIDE DEF t
  <2> QED BY <1>2, <1>5, <2>1, <2>2 DEF Handed, t
<1>6. CASE s.phase = "list"
  <2>1. t = s
    BY <1>6 DEF Dispatch
  <2>2. PICK l \in 1 .. i - 1 : T[l].opcode = WORLD_LIST
    BY <1>6 DEF Handed
  <2>3. T[i].opcode \notin Handlers
    <3>1. l \in 1 .. Len(T) /\ l < i
      BY <1>1
    <3> QED BY <2>2, <3>1 DEF Single
  <2>4. s.handled = h
    BY <1>3, <1>6, <2>3 DEF Handed
  <2> HIDE DEF t, h, g
  <2> QED BY <1>2, <1>6, <2>1, <2>2, <2>4 DEF Handed, t, h
<1>7. CASE s.phase = "reading"
  <2>1. s.handled = g
    BY <1>7 DEF Handed
  <2>2. ASSUME Passed(s, t), f.opcode \notin Handlers PROVE Handed(t, T, i)
    <3>1. T[i].opcode \notin Handlers
      BY <1>4, <2>2 DEF Fits
    <3>2. t = s /\ h = g
      BY <1>3, <2>2, <3>1 DEF Passed
    <3> HIDE DEF t, h, g
    <3> QED BY <1>7, <2>1, <3>2 DEF Handed, h
  <2>3. ASSUME Refused(s, t) PROVE Handed(t, T, i)
    <3>1. t.phase = "raised" /\ t.handled = g
      BY <2>1, <2>3 DEF Refused
    <3> HIDE DEF t
    <3> QED BY <1>1, <3>1 DEF Handed
  <2>4. ASSUME f.opcode \in Handlers, ~TooShort(f.body, f.opcode)
        PROVE  h = Append(g, EntryFrom(f)) /\ T[i].opcode = f.opcode
    <3>1. T[i].opcode = f.opcode /\ ClientDecrypt(f.body, f.opcode, f.sequence) = T[i].body
      BY <2>4 DEF Fits
    <3>2. EntryFrom(f) = EntryOf(T[i])
      BY <3>1, Zenon DEF EntryFrom, EntryOf
    <3> HIDE DEF h, g
    <3> QED BY <1>3, <2>4, <3>1, <3>2
  <2> HIDE DEF h, g, t
  <2>5. ASSUME f.opcode \in Handlers, ~TooShort(f.body, f.opcode), Beaten(s, t, EntryFrom(f)) PROVE Handed(t, T, i)
    <3>1. t.phase = "reading" /\ t.handled = h
      BY <2>1, <2>4, <2>5, Zenon DEF Beaten
    <3> QED BY <3>1 DEF Handed, h
  <2>6. ASSUME f.opcode \in Handlers, ~TooShort(f.body, f.opcode), Listed(s, t, EntryFrom(f)) PROVE Handed(t, T, i)
    <3>1. t.phase = "list" /\ t.handled = h
      BY <2>1, <2>4, <2>6, Zenon DEF Listed
    <3>2. EntryFrom(f).opcode = f.opcode
      BY DEF EntryFrom
    <3>3. T[i].opcode = WORLD_LIST
      BY <2>4, <2>6, <3>2, Zenon DEF Listed
    <3> QED BY <1>1, <3>1, <3>3 DEF Handed, h
  <2>7. \/ Passed(s, t) /\ f.opcode \notin Handlers
        \/ Refused(s, t)
        \/ /\ f.opcode \in Handlers /\ ~TooShort(f.body, f.opcode)
           /\ Beaten(s, t, EntryFrom(f)) \/ Listed(s, t, EntryFrom(f))
    BY <1>7, DispatchIs, Zenon DEF t
  <2> QED BY <2>2, <2>3, <2>5, <2>6, <2>7, Zenon DEF t
<1>8. s.phase \in {"reading", "list", "raised"}
  BY DEF DispatchStates
<1> QED BY <1>5, <1>6, <1>7, <1>8

(* Whatever the frame, every heartbeat has its answer.                     *)
LEMMA AnswersKept ==
    ASSUME NEW s \in DispatchStates, NEW f \in FrameSet, draw \in DrawSet, DigestIsBytes,
           Answers(s.handled, s.said)
    PROVE  Answers(Dispatch(s, f).handled, Dispatch(s, f).said)
<1> DEFINE t == Dispatch(s, f)
           e == EntryFrom(f)
<1>1. s.handled \in Seq(HandledSet) /\ s.said \in Seq(Seq(Byte))
  BY DEF DispatchStates
<1>2. Passed(s, t) \/ Refused(s, t) \/ Beaten(s, t, e) \/ Listed(s, t, e)
  BY DispatchIs, Zenon
<1> HIDE DEF t, e
<1>3. CASE Passed(s, t)
  BY <1>3 DEF Passed, t
<1>4. CASE Refused(s, t)
  BY <1>4 DEF Refused, t
<1>5. CASE Beaten(s, t, e)
  <2>1. Answers(Append(s.handled, e), Send(HEARTBEAT_RESPONSE, HeartbeatResponse(e.body), s.said, draw))
    BY <1>1, <1>5, AnswersMore DEF Beaten
  <2> QED BY <1>5, <2>1, Zenon DEF Beaten, t
<1>6. CASE Listed(s, t, e)
  <2>1. e.opcode # HEARTBEAT /\ e \in HandledSet
    BY <1>6 DEF Listed, HEARTBEAT, WORLD_LIST
  <2>2. Answers(Append(s.handled, e), s.said)
    BY <1>1, <2>1, AnswersSame
  <2> QED BY <1>6, <2>2, Zenon DEF Listed, t
<1> QED BY <1>2, <1>3, <1>4, <1>5, <1>6

(* All the frames of one read                                              *)
LEMMA DispatchedPieces ==
    ASSUME NEW T \in Seq(Sayings), Single(T), NEW m \in 0 .. Len(T), NEW j \in m .. Len(T),
           NEW frames \in Seq(FrameSet), Len(frames) = j - m,
           \A i \in 1 .. j - m : Fits(frames[i], T[m + i]),
           ReadingNow \in DispatchStates, draw \in DrawSet, DigestIsBytes,
           handled = Heed(T, m), Answers(handled, said)
    PROVE  /\ Dispatched(frames) \in DispatchStates
           /\ Handed(Dispatched(frames), T, j)
           /\ Answers(Dispatched(frames).handled, Dispatched(frames).said)
<1>1. PICK after \in [0 .. Len(frames) -> DispatchStates] :
        /\ after[0] = ReadingNow
        /\ \A k \in 1 .. Len(frames) : after[k] = Dispatch(after[k - 1], frames[k])
        /\ Dispatched(frames) = after[Len(frames)]
  BY DispatchLoop
<1> DEFINE n == Len(frames)
           Goes(s, i) == Handed(s, T, i) /\ Answers(s.handled, s.said)
           S == {k \in 0 .. n : Goes(after[k], m + k)}
<1>2. n \in Nat /\ n = j - m /\ m + n = j /\ Len(T) \in Nat
  OBVIOUS
<1>3. 0 \in S
  <2>1. after[0].phase = "reading" /\ after[0].handled = handled /\ after[0].said = said
    BY <1>1 DEF ReadingNow
  <2>2. m + 0 = m /\ 0 \in 0 .. n
    BY <1>2
  <2>3. Handed(after[0], T, m)
    BY <2>1, Zenon DEF Handed
  <2>4. Answers(after[0].handled, after[0].said)
    BY <2>1, Zenon
  <2> HIDE DEF n
  <2> QED BY <2>2, <2>3, <2>4
<1>4. ASSUME NEW k \in 0 .. n - 1, k \in S PROVE k + 1 \in S
  <2>1. k \in 0 .. n /\ k + 1 \in 0 .. n /\ k + 1 \in 1 .. n /\ (k + 1) - 1 = k
    BY <1>2
  <2>2. PICK i \in 1 .. Len(T) : i = m + (k + 1) /\ i - 1 = m + k
    BY <1>2, <2>1
  <2>3. after[k] \in DispatchStates /\ frames[k + 1] \in FrameSet /\ after[k + 1] = Dispatch(after[k], frames[k + 1])
    BY <1>1, <2>1
  <2>4. Fits(frames[k + 1], T[i])
    <3>1. k + 1 \in 1 .. j - m
      BY <1>2, <2>1
    <3> QED BY <2>2, <3>1
  <2>5. Handed(after[k], T, i - 1) /\ Answers(after[k].handled, after[k].said)
    BY <1>4, <2>2
  <2> DEFINE s == after[k]
             f == frames[k + 1]
  <2> HIDE DEF s, f
  <2>6. Handed(Dispatch(s, f), T, i)
    BY <2>3, <2>4, <2>5, HandedMore DEF s, f
  <2>7. Answers(Dispatch(s, f).handled, Dispatch(s, f).said)
    BY <2>3, <2>5, AnswersKept DEF s, f
  <2>8. Goes(after[k + 1], m + (k + 1))
    BY <2>2, <2>3, <2>6, <2>7, Zenon DEF s, f
  <2> HIDE DEF Goes
  <2> QED BY <2>1, <2>8
<1>5. 0 .. n \subseteq S
  <2> HIDE DEF S
  <2> QED BY <1>2, <1>3, <1>4, UpTo
<1>6. n \in 0 .. n
  BY <1>2
<1>7. after[n] \in DispatchStates
  BY <1>6
<1>8. Goes(after[n], m + n)
  <2> HIDE DEF Goes
  <2> QED BY <1>5, <1>6
<1>9. Handed(after[n], T, j) /\ Answers(after[n].handled, after[n].said)
  BY <1>2, <1>8, Zenon
<1> QED BY <1>1, <1>7, <1>9, Zenon
-----------------------------------------------------------------------------
(* What the server sent is P, of which j pieces are parsed.                *)
Told(P, E) == [k \in 1 .. Len(P) |-> [opcode |-> P[k].opcode, body |-> P[k].body, end |-> E[k]]]

Flows(P, E, B, j) ==
    /\ Streamed(P, E, B) /\ Single(P) /\ j \in 0 .. Len(P)
    /\ told = Told(P, E)
    /\ arrived \in E[j] .. Len(B) /\ wire = Rest(B, arrived) /\ buffer = Left(B, E, j, arrived)
    /\ handled = Heed(told, j)

Prefix(h, due) == Len(h) <= Len(due) /\ h = SubSeq(due, 1, Len(h))

Sent ==
    /\ Prefix(handled, Due(told, arrived))
    /\ phase # "raised" => handled = Due(told, arrived)
    /\ phase = "idle" => told = <<>> /\ wire = <<>> /\ arrived = 0 /\ buffer = <<>> /\ handled = <<>>
    /\ phase = "reading" => \E P, E, B : \E j \in 0 .. Len(P) : Flows(P, E, B, j)
    /\ phase # "idle" => Answers(handled, said)

(* The pieces as they are told                                             *)
LEMMA ToldIs ==
    ASSUME NEW P, NEW E, NEW B, Streamed(P, E, B), Single(P)
    PROVE  /\ Told(P, E) \in Seq(Sayings) /\ Len(Told(P, E)) = Len(P) /\ Rising(Told(P, E)) /\ Single(Told(P, E))
           /\ \A k \in 1 .. Len(P) : /\ Told(P, E)[k].opcode = P[k].opcode /\ Told(P, E)[k].body = P[k].body
                                     /\ Told(P, E)[k].end = E[k]
<1> DEFINE T == Told(P, E)
           n == Len(P)
           say(k) == [opcode |-> P[k].opcode, body |-> P[k].body, end |-> E[k]]
<1>1. /\ n \in Nat /\ \A k \in 0 .. n : E[k] \in Nat
      /\ \A k, l \in 0 .. n : k < l => E[k] < E[l]
  BY EndsUp
<1>2. \A k \in 1 .. n : say(k) \in Sayings
  <2>1. ASSUME NEW k \in 1 .. n PROVE say(k) \in Sayings
    <3>1. P[k] \in SoundSet
      BY DEF Streamed
    <3>2. P[k].opcode \in Byte \cup {-1} /\ P[k].body \in Seq(Byte)
      BY <3>1, SoundIs
    <3>3. E[k] \in Nat
      BY <1>1
    <3> QED BY <3>2, <3>3 DEF Sayings
  <2> QED BY <2>1
<1>3. T = [k \in 1 .. n |-> say(k)]
  BY DEF Told
<1> HIDE DEF T, n, say
<1>4. T \in [1 .. n -> Sayings]
  BY <1>2, <1>3
<1>5. T \in Seq(Sayings) /\ Len(T) = n
  BY <1>1, <1>4
<1>6. \A k \in 1 .. n : T[k].opcode = P[k].opcode /\ T[k].body = P[k].body /\ T[k].end = E[k]
  BY <1>3 DEF say
<1>7. Rising(T)
  <2>1. ASSUME NEW k \in 1 .. n, NEW l \in 1 .. n, k < l PROVE T[k].end < T[l].end
    <3>1. k \in 0 .. n /\ l \in 0 .. n
      BY <1>1
    <3>2. E[k] < E[l]
      BY <1>1, <2>1, <3>1
    <3> QED BY <1>6, <3>2
  <2> QED BY <1>5, <2>1 DEF Rising
<1>8. Single(T)
  <2>1. ASSUME NEW k \in 1 .. n, NEW l \in 1 .. n, k < l, T[k].opcode = WORLD_LIST
        PROVE  T[l].opcode \notin Handlers
    <3>1. P[k].opcode = WORLD_LIST
      BY <1>6, <2>1
    <3>2. P[l].opcode \notin Handlers
      BY <2>1, <3>1 DEF Single, n
    <3> QED BY <1>6, <3>2
  <2> QED BY <1>5, <2>1 DEF Single
<1> QED BY <1>5, <1>6, <1>7, <1>8 DEF T, n

(* Before the first byte                                                   *)
LEMMA StreamStart ==
    ASSUME NEW B \in Seq(Byte)
    PROVE  Rest(B, 0) = B /\ SubSeq(B, 1, 0) = <<>>
<1>1. 0 + 1 = 1 /\ SubSeq(B, 1, Len(B)) = B /\ SubSeq(B, 1, 0) = <<>>
  OBVIOUS
<1> QED BY <1>1 DEF Rest

(* The invariant of the stream holds at first.                             *)
LEMMA SentInit == DataInit => Sent
<1> SUFFICES ASSUME DataInit PROVE Sent
  OBVIOUS
<1>1. /\ phase = "idle" /\ told = <<>> /\ wire = <<>> /\ arrived = 0 /\ buffer = <<>> /\ handled = <<>>
  BY DEF DataInit
<1>2. Due(<<>>, 0) = <<>>
  <2>1. DueSet(<<>>, 0) = {}
    BY DEF DueSet
  <2>2. Those(<<>>, DueSet(<<>>, 0)) = <<>>
    BY <2>1, ThoseNone
  <2> QED BY <2>2 DEF Due, Contents
<1>3. Prefix(<<>>, <<>>)
  BY DEF Prefix
<1> QED BY <1>1, <1>2, <1>3 DEF Sent

(* Ask: the pieces of the run are sound, and none of them has come.        *)
LEMMA SentAsk == ASSUME DataInv, Sent, Ask, DigestIsBytes PROVE Sent'
<1>1. PICK shown \in Shown(online'), d \in Draws, fault \in {"none"} \cup Faults : Request(shown, fault, d)
  BY DEF Ask
<1>2. online' \in Worlds /\ phase = "idle"
  BY DEF Ask
<1>3. d \in DrawSet
  BY DrawType
<1>4. PICK P, E, B :
        /\ P = Pieces(online', shown, fault, d) /\ E = Ends(P) /\ B = Stream(P)[Len(P)]
        /\ phase' = "reading" /\ said' = Send(WORLD_LIST_REQUEST, <<>>, <<>>, d)
        /\ wire' = B
        /\ told' = [k \in DOMAIN P |-> [opcode |-> P[k].opcode, body |-> P[k].body,
                                        end |-> Len(Stream(P)[k])]]
        /\ arrived' = arrived /\ buffer' = buffer /\ handled' = handled
  <2>1. PICK pieces \in {Pieces(online', shown, fault, d)} : \E stream \in {Stream(pieces)} :
          /\ phase' = "reading" /\ said' = Send(WORLD_LIST_REQUEST, <<>>, <<>>, d)
          /\ wire' = stream[Len(pieces)]
          /\ told' = [k \in DOMAIN pieces |-> [opcode |-> pieces[k].opcode, body |-> pieces[k].body,
                                               end |-> Len(stream[k])]]
          /\ UNCHANGED <<now, rows, seen, json, arrived, buffer, handled, list>>
    BY <1>1 DEF Request
  <2>2. pieces = Pieces(online', shown, fault, d)
    OBVIOUS
  <2> QED BY <2>1, <2>2
<1>5. P \in Seq(SoundSet) /\ Single(P)
  <2>1. PICK w \in Worlds : w = online'
    BY <1>2
  <2>2. Pieces(w, shown, fault, d) \in Seq(SoundSet) /\ Single(Pieces(w, shown, fault, d))
    <3>1. shown \in Shown(w)
      BY <2>1
    <3> QED BY <1>3, <3>1, PiecesSound
  <2> QED BY <1>4, <2>1, <2>2
<1>6. Streamed(P, E, B)
  <2>1. Streamed(P, Ends(P), Stream(P)[Len(P)])
    BY <1>5, StreamIs
  <2> QED BY <1>4, <2>1
<1>7. Len(P) \in Nat /\ DOMAIN P = 1 .. Len(P) /\ B \in Seq(Byte) /\ E[0] = 0 /\ Len(B) \in Nat
  <2>1. B \in Seq(Byte) /\ E[0] = 0
    BY <1>6, Zenon DEF Streamed
  <2>2. Len(B) \in Nat
    BY <1>6, EndsUp
  <2> QED BY <1>5, <2>1, <2>2
<1>8. \A k \in 1 .. Len(P) : E[k] = Len(Stream(P)[k])
  <2>1. \A k \in 1 .. Len(P) : k \in 0 .. Len(P)
    BY <1>7
  <2>2. E = Ends(P)
    BY <1>4
  <2> QED BY <2>1, <2>2 DEF Ends
<1>9. told' = Told(P, E)
  BY <1>4, <1>7, <1>8 DEF Told
<1>10. arrived' = 0 /\ buffer' = <<>> /\ handled' = <<>>
  BY <1>2, <1>4 DEF Sent
<1>11. Flows(P, E, B, 0)'
  <2>1. 0 \in 0 .. Len(P) /\ 0 \in E[0] .. Len(B)
    BY <1>7
  <2>2. wire' = Rest(B, 0)
    BY <1>4, <1>7, StreamStart
  <2>3. Left(B, E, 0, 0) = <<>>
    <3>1. Left(B, E, 0, 0) = SubSeq(B, 0 + 1, 0)
      BY <1>7 DEF Left
    <3>2. 0 + 1 = 1
      OBVIOUS
    <3>3. SubSeq(B, 1, 0) = <<>>
      BY <1>7, StreamStart
    <3> QED BY <3>1, <3>2, <3>3
  <2>4. Heed(told', 0) = <<>>
    BY HeedNone
  <2>5. arrived' \in E[0] .. Len(B) /\ wire' = Rest(B, arrived') /\ buffer' = Left(B, E, 0, arrived')
    BY <1>10, <2>1, <2>2, <2>3, Zenon
  <2>6. handled' = Heed(told', 0)
    BY <1>10, <2>4
  <2> QED BY <1>5, <1>6, <1>9, <2>1, <2>5, <2>6, Zenon DEF Flows
<1>12. Due(told', 0) = <<>>
  <2> DEFINE T == Told(P, E)
  <2>1. /\ T \in Seq(Sayings) /\ Len(T) = Len(P) /\ Rising(T)
        /\ \A k \in 1 .. Len(P) : T[k].end = E[k]
    BY <1>5, <1>6, ToldIs
  <2> HIDE DEF T
  <2>2. ASSUME NEW k \in 0 + 1 .. Len(T) PROVE ~(T[k].end <= 0)
    <3>1. k \in 1 .. Len(P) /\ k \in 0 .. Len(P) /\ 0 \in 0 .. Len(P) /\ 0 < k
      BY <1>7, <2>1
    <3>2. E[0] < E[k] /\ E[k] \in Nat
      BY <1>6, <3>1, EndsUp
    <3>3. T[k].end = E[k]
      BY <2>1, <3>1
    <3> QED BY <1>7, <3>2, <3>3
  <2>3. 0 \in 0 .. Len(T) /\ 0 \in Nat
    BY <1>7, <2>1
  <2>4. Heed(T, 0) = Due(T, 0)
    BY <2>1, <2>2, <2>3, DueAll
  <2> QED BY <1>9, <2>4, HeedNone DEF T
<1>13. Prefix(<<>>, <<>>)
  BY DEF Prefix
<1>14. Answers(handled', said')
  BY <1>3, <1>4, <1>10, AnswersFirst
<1>15. \E p, e, b : \E j \in 0 .. Len(p) : Flows(p, e, b, j)'
  BY <1>7, <1>11
<1> QED BY <1>4, <1>10, <1>12, <1>13, <1>14, <1>15, Zenon DEF Sent

(* n more bytes                                                            *)
More(E, B, j, a, n) ==
    /\ Left(B, E, j, a) \o SubSeq(Rest(B, a), 1, n) = Left(B, E, j, a + n)
    /\ Rest(Rest(B, a), n) = Rest(B, a + n)
    /\ Len(Rest(B, a)) = Len(B) - a

LEMMA MoreBytes ==
    ASSUME NEW P, NEW E, NEW B, Streamed(P, E, B), NEW j \in 0 .. Len(P), NEW a \in E[j] .. Len(B),
           NEW n \in 0 .. Len(B) - a
    PROVE  More(E, B, j, a, n)
<1>0. B \in Seq(Byte) /\ Len(B) \in Nat /\ E[j] \in Nat
  <2>1. B \in Seq(Byte)
    BY Zenon DEF Streamed
  <2> QED BY <2>1, EndsUp
<1>1. PICK e \in Nat, l \in Nat : e = E[j] /\ l = Len(B)
  BY <1>0
<1>2. a \in Nat /\ e <= a /\ n \in Nat /\ a + n <= l /\ a <= l
  BY <1>1
<1> DEFINE r == Rest(B, a)
           s == SubSeq(r, 1, n)
           x == Left(B, E, j, a)
           y == Left(B, E, j, a + n)
           z == x \o s
<1>b. /\ Left(B, E, j, a) \in Seq(Byte) /\ Len(Left(B, E, j, a)) = a - E[j]
      /\ \A i \in 1 .. a - E[j] : Left(B, E, j, a)[i] = B[E[j] + i]
  <2> HIDE DEF r, s, x, y, z
  <2> QED BY LeftIs
<1>3. r \in Seq(Byte) /\ Len(r) = l - a /\ \A i \in 1 .. l - a : r[i] = B[a + i]
  <2>1. /\ SubSeq(B, a + 1, l) \in Seq(Byte)
        /\ Len(SubSeq(B, a + 1, l)) = IF a + 1 <= l THEN l - (a + 1) + 1 ELSE 0
        /\ \A i \in 1 .. l - (a + 1) + 1 : SubSeq(B, a + 1, l)[i] = B[(a + 1) + i - 1]
    <3>1. a + 1 \in Nat \ {0} /\ l \in Int
      BY <1>2
    <3> QED BY <1>0, <1>1, <1>2, <3>1, SubBytes
  <2>2. r = SubSeq(B, a + 1, l)
    BY <1>1 DEF Rest
  <2>3. Len(r) = l - a
    <3> HIDE DEF r
    <3> QED BY <1>2, <2>1, <2>2
  <2>4. ASSUME NEW i \in 1 .. l - a PROVE r[i] = B[a + i]
    <3>1. i \in 1 .. l - (a + 1) + 1 /\ (a + 1) + i - 1 = a + i
      BY <1>2
    <3> HIDE DEF r
    <3> QED BY <2>1, <2>2, <3>1
  <2> HIDE DEF r
  <2> QED BY <2>1, <2>2, <2>3, <2>4
<1> HIDE DEF r
<1>4. s \in Seq(Byte) /\ Len(s) = n /\ \A i \in 1 .. n : s[i] = r[i]
  <2>1. n <= Len(r) /\ Len(r) \in Nat
    BY <1>2, <1>3
  <2> QED BY <1>2, <1>3, <2>1
<1>5. x \in Seq(Byte) /\ Len(x) = a - e /\ \A i \in 1 .. a - e : x[i] = B[e + i]
  <2>1. /\ x \in Seq(Byte) /\ Len(x) = a - E[j]
        /\ \A i \in 1 .. a - E[j] : x[i] = B[E[j] + i]
    BY <1>b, Zenon
  <2> HIDE DEF x
  <2> QED BY <1>1, <2>1, Zenon
<1>6. y \in Seq(Byte) /\ Len(y) = (a + n) - e /\ \A i \in 1 .. (a + n) - e : y[i] = B[e + i]
  <2>1. PICK c \in Nat : c = a + n
    BY <1>2
  <2>2. c \in E[j] .. Len(B)
    BY <1>1, <1>2, <2>1
  <2>3. /\ Left(B, E, j, c) \in Seq(Byte) /\ Len(Left(B, E, j, c)) = c - E[j]
        /\ \A i \in 1 .. c - E[j] : Left(B, E, j, c)[i] = B[E[j] + i]
    BY <2>2, LeftIs
  <2> QED BY <1>1, <2>1, <2>3, Zenon
<1> HIDE DEF x, y, s
<1>7. Joins(z, x, Len(x), s, Len(s))
  BY <1>4, <1>5, JoinsLen
<1>8. z \in Seq(Byte) /\ Len(z) = (a - e) + n
  <2>1. z \in Seq(Byte) /\ Len(z) = Len(x) + Len(s)
    BY <1>4, <1>5, ConcatProperties
  <2> QED BY <1>4, <1>5, <2>1
<1>9. /\ \A i \in 1 .. a - e : z[i] = x[i]
      /\ \A i \in 1 .. n : z[(a - e) + i] = s[i]
  <2> HIDE DEF z
  <2> QED BY <1>4, <1>5, <1>7, Zenon DEF Joins
<1> HIDE DEF z
<1>10. ASSUME NEW i \in 1 .. (a + n) - e PROVE z[i] = y[i]
  <2>1. CASE i <= a - e
    <3>1. i \in 1 .. a - e
      BY <1>2, <2>1
    <3> QED BY <1>5, <1>6, <1>9, <3>1
  <2>2. CASE i > a - e
    <3>1. PICK c \in 1 .. n : i = (a - e) + c /\ a + c = e + i /\ c \in 1 .. l - a
      <4>1. /\ i - (a - e) \in 1 .. n /\ i = (a - e) + (i - (a - e)) /\ a + (i - (a - e)) = e + i
            /\ i - (a - e) \in 1 .. l - a
        BY <1>2, <2>2
      <4> QED BY <4>1
    <3>2. z[i] = s[c] /\ s[c] = r[c]
      BY <1>4, <1>9, <3>1
    <3>3. r[c] = B[e + i]
      BY <1>3, <3>1
    <3>4. y[i] = B[e + i]
      BY <1>6
    <3> QED BY <3>2, <3>3, <3>4
  <2> QED BY <1>2, <2>1, <2>2
<1>11. z = y
  <2>1. Len(z) = (a + n) - e
    BY <1>2, <1>8
  <2> QED BY <1>6, <1>8, <1>10, <2>1
<1>12. Rest(r, n) = Rest(B, a + n)
  <2>1. Rest(r, n) = [i \in 1 .. (l - a) - n |-> r[n + i]]
    <3>1. PICK c \in Nat : c = Len(r) /\ c = l - a /\ n <= c
      BY <1>2, <1>3
    <3>2. Rest(r, n) = [i \in 1 .. c - n |-> r[n + i]]
      <4>1. r \in Seq(Byte) /\ n \in Nat /\ Len(r) = c /\ n <= c
        BY <1>2, <1>3, <3>1, Zenon
      <4> QED BY <4>1 DEF Rest
    <3> QED BY <3>1, <3>2, Zenon
  <2>2. Rest(B, a + n) = [i \in 1 .. l - (a + n) |-> B[(a + n) + i]]
    <3>1. PICK c \in Nat : c = a + n /\ c <= l
      BY <1>2
    <3>2. Rest(B, c) = [i \in 1 .. l - c |-> B[c + i]]
      BY <1>0, <1>1, <3>1 DEF Rest
    <3> QED BY <3>1, <3>2, Zenon
  <2>3. (l - a) - n = l - (a + n)
    BY <1>2
  <2>4. \A i \in 1 .. l - (a + n) : r[n + i] = B[(a + n) + i]
    <3>1. ASSUME NEW i \in 1 .. l - (a + n) PROVE r[n + i] = B[(a + n) + i]
      <4>1. n + i \in 1 .. l - a /\ a + (n + i) = (a + n) + i
        BY <1>2
      <4>2. r[n + i] = B[a + (n + i)]
        BY <1>3, <4>1
      <4> QED BY <4>1, <4>2
    <3> QED BY <3>1
  <2> QED BY <2>1, <2>2, <2>3, <2>4
<1> QED BY <1>1, <1>3, <1>11, <1>12 DEF More, z, x, y, s, r
-----------------------------------------------------------------------------
(* What a read makes of n more bytes                                       *)
LEMMA ReadPieces ==
    ASSUME NEW P, NEW E, NEW B, Streamed(P, E, B), Single(P), NEW m \in 0 .. Len(P), NEW a \in E[m] .. Len(B),
           NEW T, T = Told(P, E), handled = Heed(T, m), Answers(handled, said),
           NEW s, s = ParseFrames(Left(B, E, m, a)), NEW t, t = Dispatched(s.frames),
           ReadingNow \in DispatchStates, draw \in DrawSet, DigestIsBytes
    PROVE  /\ Answers(t.handled, t.said) /\ Prefix(t.handled, Due(T, a))
           /\ s.raised = "no" /\ t.phase # "raised" => t.handled = Due(T, a)
           /\ s.raised = "no" /\ t.phase = "reading" =>
                \E j \in 0 .. Len(P) : a \in E[j] .. Len(B) /\ s.left = Left(B, E, j, a) /\ t.handled = Heed(T, j)
<1>1. /\ s \in ParseStates
      /\ \/ Lost(s)
         \/ s.raised = "no" /\ \E j \in m .. Len(P) : Took(s, P, E, B, m, j, a) /\ Quiet(P, E, B, j, a)
  BY ParsedPieces
<1>2. /\ T \in Seq(Sayings) /\ Len(T) = Len(P) /\ Rising(T) /\ Single(T)
      /\ \A k \in 1 .. Len(P) : T[k].opcode = P[k].opcode /\ T[k].body = P[k].body /\ T[k].end = E[k]
  BY ToldIs
<1>3. /\ Len(P) \in Nat /\ Len(B) \in Nat /\ \A k \in 0 .. Len(P) : E[k] \in Nat
      /\ \A k, l \in 0 .. Len(P) : k < l => E[k] < E[l]
  BY EndsUp
<1>4. s.frames \in Seq(FrameSet) /\ a \in Nat /\ a <= Len(B)
  <2>1. s.frames \in Seq(FrameSet)
    BY <1>1 DEF ParseStates
  <2>2. E[m] \in Nat
    BY <1>3
  <2> QED BY <1>3, <2>1, <2>2
<1>5. ASSUME NEW j \in m .. Len(P), E[j] <= a, Len(s.frames) = j - m,
             \A i \in 1 .. j - m : Fits(s.frames[i], T[m + i])
      PROVE  /\ t \in DispatchStates /\ Handed(t, T, j) /\ Answers(t.handled, t.said)
             /\ Prefix(t.handled, Due(T, a))
  <2>1. m \in 0 .. Len(T) /\ j \in m .. Len(T)
    BY <1>2
  <2> DEFINE frames == s.frames
  <2> HIDE DEF frames
  <2>2. /\ Dispatched(frames) \in DispatchStates /\ Handed(Dispatched(frames), T, j)
        /\ Answers(Dispatched(frames).handled, Dispatched(frames).said)
    <3>1. frames \in Seq(FrameSet) /\ Len(frames) = j - m /\ \A i \in 1 .. j - m : Fits(frames[i], T[m + i])
      BY <1>4, <1>5 DEF frames
    <3>2. T \in Seq(Sayings) /\ Single(T)
      BY <1>2
    <3> QED BY <2>1, <3>1, <3>2, DispatchedPieces
  <2>3. t \in DispatchStates /\ Handed(t, T, j) /\ Answers(t.handled, t.said)
    BY <2>2 DEF frames
  <2>4. PICK k \in 0 .. j : t.handled = Heed(T, k)
    <3>1. j \in 0 .. j
      BY <1>3
    <3> QED BY <2>3, <3>1 DEF Handed
  <2>5. k \in 0 .. Len(T) /\ (k = 0 \/ T[k].end <= a)
    <3>1. k \in 0 .. Len(T) /\ k \in 0 .. Len(P) /\ j \in 0 .. Len(P) /\ (k = j \/ k < j)
      BY <1>2, <1>3
    <3>2. E[k] <= a
      <4>1. CASE k = j
        BY <1>5, <4>1
      <4>2. CASE k < j
        <5>1. E[k] < E[j] /\ E[k] \in Nat /\ E[j] \in Nat
          BY <1>3, <3>1, <4>2
        <5> QED BY <1>4, <1>5, <5>1
      <4> QED BY <3>1, <4>1, <4>2
    <3>3. k = 0 \/ k \in 1 .. Len(P)
      BY <3>1
    <3> QED BY <1>2, <3>1, <3>2, <3>3
  <2>6. Len(Heed(T, k)) <= Len(Due(T, a)) /\ Heed(T, k) = SubSeq(Due(T, a), 1, Len(Heed(T, k)))
    BY <1>2, <1>4, <2>5, DueBegins
  <2> QED BY <2>3, <2>4, <2>6, Zenon DEF Prefix
<1>6. CASE Lost(s)
  <2>1. m \in m .. Len(P) /\ m - m = 0 /\ E[m] <= a
    BY <1>3
  <2>2. Len(s.frames) = m - m /\ s.raised # "no"
    BY <1>6, <2>1 DEF Lost
  <2>3. \A i \in 1 .. m - m : FALSE
    BY <2>1
  <2>4. Answers(t.handled, t.said) /\ Prefix(t.handled, Due(T, a))
    BY <1>5, <2>1, <2>2, <2>3
  <2> QED BY <2>2, <2>4
<1>7. CASE s.raised = "no" /\ \E j \in m .. Len(P) : Took(s, P, E, B, m, j, a) /\ Quiet(P, E, B, j, a)
  <2>1. PICK j \in m .. Len(P) : Took(s, P, E, B, m, j, a) /\ Quiet(P, E, B, j, a)
    BY <1>7
  <2>2. E[j] <= a /\ s.left = Left(B, E, j, a) /\ Len(s.frames) = j - m
        /\ \A i \in 1 .. j - m : Fits(s.frames[i], P[m + i])
    BY <2>1 DEF Took
  <2>3. ASSUME NEW i \in 1 .. j - m PROVE Fits(s.frames[i], T[m + i])
    <3>1. m + i \in 1 .. Len(P)
      BY <1>3
    <3> QED BY <1>2, <2>2, <3>1 DEF Fits
  <2>4. /\ t \in DispatchStates /\ Handed(t, T, j) /\ Answers(t.handled, t.said)
        /\ Prefix(t.handled, Due(T, a))
    BY <1>5, <2>2, <2>3
  <2>5. j \in 0 .. Len(P) /\ j \in 0 .. Len(T) /\ (j = 0 \/ j \in 1 .. Len(P))
    BY <1>2, <1>3
  <2>6. Heed(T, j) = Due(T, a)
    <3>1. j = 0 \/ T[j].end <= a
      BY <1>2, <2>2, <2>5
    <3>2. ASSUME NEW k \in j + 1 .. Len(T), T[k].end <= a PROVE T[k].opcode \notin Handlers
      <4>1. k \in 1 .. Len(P) /\ k \in j + 1 .. Len(P)
        BY <1>2, <2>5
      <4>2. E[k] <= a
        BY <1>2, <3>2, <4>1
      <4>3. P[k].opcode \notin Handlers
        BY <2>1, <4>1, <4>2 DEF Quiet
      <4> QED BY <1>2, <4>1, <4>3
    <3> QED BY <1>2, <1>4, <2>5, <3>1, <3>2, DueAll
  <2>7. t.phase # "raised" => t.handled = Heed(T, j)
    BY <2>4 DEF Handed
  <2>8. a \in E[j] .. Len(B)
    <3>1. E[j] \in Nat
      BY <1>3, <2>5
    <3> QED BY <1>3, <1>4, <2>2, <3>1
  <2>9. t.phase = "reading" => t.phase # "raised"
    OBVIOUS
  <2> QED BY <2>2, <2>4, <2>5, <2>6, <2>7, <2>8, <2>9, Zenon
<1> QED BY <1>1, <1>6, <1>7

(* Read: n more bytes, wherever that cuts the stream                       *)
LEMMA SentRead == ASSUME DataInv, Sent, Read, DigestIsBytes PROVE Sent'
<1>1. PICK n \in {k \in ChunkSizes : k < Len(wire)} \cup {Len(wire)} : Chunk(n)
  BY DEF Read
<1>2. phase = "reading" /\ told' = told
  BY DEF Read
<1>3. PICK P, E, B, j : j \in 0 .. Len(P) /\ Flows(P, E, B, j)
  BY <1>2 DEF Sent
<1>4. /\ Streamed(P, E, B) /\ Single(P) /\ told = Told(P, E) /\ arrived \in E[j] .. Len(B)
      /\ wire = Rest(B, arrived) /\ buffer = Left(B, E, j, arrived) /\ handled = Heed(told, j)
  BY <1>3, Zenon DEF Flows
<1>5. Answers(handled, said)
  BY <1>2 DEF Sent
<1>6. E[j] \in Nat /\ Len(B) \in Nat /\ arrived \in Nat /\ arrived <= Len(B)
  <2>1. E[j] \in Nat /\ Len(B) \in Nat
    BY <1>3, <1>4, EndsUp
  <2> QED BY <1>4, <2>1
<1>7. n \in 0 .. Len(B) - arrived
  <2>1. Len(wire) = Len(B) - arrived
    <3>1. 0 \in 0 .. Len(B) - arrived
      BY <1>6
    <3>2. Len(Rest(B, arrived)) = Len(B) - arrived
      <4>1. More(E, B, j, arrived, 0)
        BY <1>3, <1>4, <3>1, MoreBytes
      <4> QED BY <4>1, Zenon DEF More
    <3> QED BY <1>4, <3>2, Zenon
  <2>2. n \in Nat /\ n <= Len(wire)
    BY <1>6, <2>1, BoundAssumption
  <2> QED BY <1>6, <2>1, <2>2
<1>8. PICK a \in E[j] .. Len(B) : a = arrived + n
  BY <1>4, <1>6, <1>7
<1>9. buffer \o SubSeq(wire, 1, n) = Left(B, E, j, a) /\ Rest(wire, n) = Rest(B, a)
  <2>1. /\ Left(B, E, j, arrived) \o SubSeq(Rest(B, arrived), 1, n) = Left(B, E, j, arrived + n)
        /\ Rest(Rest(B, arrived), n) = Rest(B, arrived + n)
    <3>1. PICK c \in E[j] .. Len(B) : c = arrived
      BY <1>4
    <3>2. n \in 0 .. Len(B) - c
      BY <1>7, <3>1
    <3>3. /\ Left(B, E, j, c) \o SubSeq(Rest(B, c), 1, n) = Left(B, E, j, c + n)
          /\ Rest(Rest(B, c), n) = Rest(B, c + n)
      <4>1. More(E, B, j, c, n)
        BY <1>3, <1>4, <3>2, MoreBytes
      <4> QED BY <4>1, Zenon DEF More
    <3> QED BY <3>1, <3>3, Zenon
  <2> QED BY <1>4, <1>8, <2>1, Zenon
<1>10. PICK s, t :
        /\ s = Parsed(n) /\ t = Dispatched(s.frames)
        /\ wire' = Rest(wire, n) /\ arrived' = arrived + n /\ buffer' = s.left
        /\ phase' = (IF s.raised # "no" THEN "raised" ELSE t.phase)
        /\ handled' = t.handled /\ said' = t.said
  <2>1. PICK s \in {Parsed(n)} : \E t \in {Dispatched(s.frames)} :
        /\ wire' = Rest(wire, n) /\ arrived' = arrived + n /\ buffer' = s.left
        /\ phase' = (IF s.raised # "no" THEN "raised" ELSE t.phase)
        /\ handled' = t.handled /\ said' = t.said
    BY <1>1 DEF Chunk
  <2>2. s = Parsed(n)
    OBVIOUS
  <2> QED BY <2>1, <2>2
<1>11. PICK T : T = told
  OBVIOUS
<1>12. /\ Answers(t.handled, t.said) /\ Prefix(t.handled, Due(T, a))
       /\ s.raised = "no" /\ t.phase # "raised" => t.handled = Due(T, a)
       /\ s.raised = "no" /\ t.phase = "reading" =>
            \E l \in 0 .. Len(P) : a \in E[l] .. Len(B) /\ s.left = Left(B, E, l, a) /\ t.handled = Heed(T, l)
  <2>1. s = ParseFrames(Left(B, E, j, a))
    BY <1>9, <1>10, Zenon DEF Parsed
  <2>2. ReadingNow \in DispatchStates
    BY DEF DataInv, Typed, ReadingNow, DispatchStates
  <2>3. draw \in DrawSet
    BY DrawTyped DEF DataInv
  <2>4. T = Told(P, E) /\ handled = Heed(T, j) /\ t = Dispatched(s.frames)
    BY <1>4, <1>10, <1>11
  <2> QED BY <1>3, <1>4, <1>5, <2>1, <2>2, <2>3, <2>4, ReadPieces
<1>13. told' = T /\ arrived' = a /\ handled' = t.handled /\ said' = t.said /\ wire' = Rest(B, a) /\ buffer' = s.left
  BY <1>2, <1>8, <1>9, <1>10, <1>11, Zenon
<1>14. Prefix(handled', Due(told', arrived')) /\ Answers(handled', said')
  BY <1>12, <1>13, Zenon
<1>15. phase' # "raised" => handled' = Due(told', arrived')
  <2>1. phase' # "raised" => s.raised = "no" /\ t.phase # "raised"
    BY <1>10
  <2> QED BY <1>12, <1>13, <2>1, Zenon
<1>16. ASSUME phase' = "reading" PROVE \E p, e, b : \E l \in 0 .. Len(p) : Flows(p, e, b, l)'
  <2>1. s.raised = "no" /\ t.phase = "reading"
    BY <1>10, <1>16
  <2>2. PICK l \in 0 .. Len(P) : a \in E[l] .. Len(B) /\ s.left = Left(B, E, l, a) /\ t.handled = Heed(T, l)
    BY <1>12, <2>1
  <2>3. /\ arrived' \in E[l] .. Len(B) /\ wire' = Rest(B, arrived') /\ buffer' = Left(B, E, l, arrived')
        /\ handled' = Heed(told', l) /\ told' = Told(P, E)
    BY <1>4, <1>11, <1>13, <2>2, Zenon
  <2>4. Flows(P, E, B, l)'
    BY <1>4, <2>3, Zenon DEF Flows
  <2> QED BY <2>4
<1>17. phase' # "idle"
  <2>1. t.phase \in {"reading", "list", "raised"}
    <3>1. Dispatched(s.frames).phase \in {"reading", "list", "raised"}
      <4>1. s \in ParseStates
        BY <1>3, <1>4, <1>9, <1>10, ParsedPieces DEF Parsed
      <4> DEFINE frames == s.frames
      <4>2. frames \in Seq(FrameSet)
        BY <4>1 DEF ParseStates
      <4> HIDE DEF frames
      <4>3. ReadingNow \in DispatchStates
        BY DEF DataInv, Typed, ReadingNow, DispatchStates
      <4>4. draw \in DrawSet
        BY DrawTyped DEF DataInv
      <4>5. \E f \in [0 .. Len(frames) -> DispatchStates] : Dispatched(frames) = f[Len(frames)]
        BY <4>2, <4>3, <4>4, DispatchLoop
      <4>6. Len(frames) \in 0 .. Len(frames)
        BY <4>2
      <4>7. Dispatched(frames) \in DispatchStates
        BY <4>5, <4>6
      <4> QED BY <4>7 DEF DispatchStates, frames
    <3> QED BY <1>10, <3>1
  <2> QED BY <1>10, <2>1
<1> QED BY <1>14, <1>15, <1>16, <1>17, Zenon DEF Sent

(* A run that ends leaves nothing.                                         *)
LEMMA SentRested == ASSUME Rested PROVE Sent'
<1>1. /\ phase' = "idle" /\ told' = <<>> /\ wire' = <<>> /\ arrived' = 0 /\ buffer' = <<>> /\ handled' = <<>>
  BY DEF Rested
<1>2. Due(<<>>, 0) = <<>>
  <2>1. DueSet(<<>>, 0) = {}
    BY DEF DueSet
  <2>2. Those(<<>>, DueSet(<<>>, 0)) = <<>>
    BY <2>1, ThoseNone
  <2> QED BY <2>2 DEF Due, Contents
<1>3. Prefix(<<>>, <<>>)
  BY DEF Prefix
<1>4. Due(told', arrived') = <<>>
  BY <1>1, <1>2, Zenon
<1>5. "idle" # "reading"
  OBVIOUS
<1> QED BY <1>1, <1>3, <1>4, <1>5, Zenon DEF Sent

(* Every step                                                              *)
LEMMA SentStep == ASSUME DataInv, Sent, [DataNext]_vars, DigestIsBytes PROVE Sent'
<1>1. CASE Ask
  BY <1>1, SentAsk
<1>2. CASE Read
  BY <1>2, SentRead
<1>3. CASE RecordSample \/ RecordFailure \/ DieWithoutRow
  <2>1. Rested
    BY <1>3 DEF RecordSample, RecordFailure, DieWithoutRow
  <2> QED BY <2>1, SentRested
<1>4. CASE ExportJson \/ TimePasses \/ UNCHANGED vars
  <2>1. UNCHANGED <<phase, online, draw, told, wire, arrived, buffer, handled, said, list>>
    BY <1>4 DEF ExportJson, TimePasses, vars, reading
  <2>2. phase' = phase /\ told' = told /\ wire' = wire /\ arrived' = arrived /\ buffer' = buffer
        /\ handled' = handled /\ said' = said
    BY <2>1
  <2>3. ASSUME NEW P, NEW E, NEW B, NEW j PROVE Flows(P, E, B, j)' = Flows(P, E, B, j)
    BY <2>2 DEF Flows
  <2> QED BY <2>2, <2>3, Zenon DEF Sent
<1> QED BY <1>1, <1>2, <1>3, <1>4 DEF DataNext

(* The property follows.                                                   *)
LEMMA FramesFollow == DataInv /\ Sent => FramesAsSent
<1> SUFFICES ASSUME DataInv, Sent PROVE FramesAsSent
  OBVIOUS
<1>1. handled \in Seq(HandledSet) /\ said \in Seq(Seq(Byte))
  BY DEF DataInv, Typed
<1>2. phase # "idle" =>
        [i \in 1 .. Len(said) |-> ServerReads(said[i])] =
          <<[opcode |-> WORLD_LIST_REQUEST, body |-> <<>>]>>
            \o [i \in 1 .. Len(Beats(handled)) |-> Reply(Beats(handled)[i])]
  BY <1>1, AnswersEqual DEF Sent
<1>3. /\ Len(handled) <= Len(Due(told, arrived)) /\ handled = SubSeq(Due(told, arrived), 1, Len(handled))
      /\ phase # "raised" => handled = Due(told, arrived)
  BY DEF Sent, Prefix
<1> QED BY <1>2, <1>3 DEF FramesAsSent, Due, DueSet, Beats, Reply

(* parse_frames and the cipher: wherever the stream is cut and whatever is *)
(* wrong with it, the handlers get what the server sent, in order, each    *)
(* frame as soon as its last byte is there, and after an exception none    *)
(* that it did not send; what the server reads in return is the request and*)
(* one answer for every heartbeat, with the two values swapped.            *)
THEOREM FramesAlwaysAsSent == ASSUME DigestIsBytes PROVE DataSpec => []FramesAsSent
<1>1. DataInv /\ DataInv' /\ Sent /\ [DataNext]_vars => Sent'
  BY SentStep
<1> QED BY DataInvariant, SentInit, <1>1, FramesFollow, PTL DEF DataSpec
-----------------------------------------------------------------------------
(* An entry of the list, after the first o bytes                           *)
Spelled(data, o, m) ==
    /\ data[o + 1] = m.class + (IF m.isGuilded THEN 8 ELSE 0) /\ data[o + 3] = m.status
    /\ data[o + 4] = 0 /\ data[o + 6] = Len(m.name)
    /\ \A i \in 1 .. Len(m.name) : data[(o + 6) + i] = m.name[i]

(* The body of a list: entry k is after the first F[k - 1] bytes.          *)
Laid(data, F, n, shown) ==
    /\ data \in Seq(Byte) /\ F \in [0 .. Len(shown) -> Nat] /\ F[0] = 4
    /\ Len(data) = F[Len(shown)]
    /\ Uint16(data, 1) = n /\ Uint16(data, 3) = Len(shown)
    /\ \A k \in 1 .. Len(shown) : F[k] = F[k - 1] + (6 + Len(shown[k].name))
    /\ \A k \in 1 .. Len(shown) : Spelled(data, F[k - 1], shown[k])

Word(n) == n \in Nat /\ n < 65536

(* An entry is six bytes and a name.                                       *)
LEMMA EntrySpelled ==
    ASSUME NEW m \in Person, Len(m.name) < 256
    PROVE  /\ EntryBytes(m) \in Seq(Byte) /\ Len(EntryBytes(m)) = 6 + Len(m.name) /\ Len(m.name) \in Nat
           /\ Spelled(EntryBytes(m), 0, m)
<1> DEFINE c == m.class + (IF m.isGuilded THEN 8 ELSE 0)
           l == Len(m.name)
           s == <<c, 255, m.status, 0, 0, l>>
           e == EntryBytes(m)
<1>1. c \in Byte
  <2>1. m.class \in 0 .. 7
    BY DEF Person
  <2>2. m.class + 8 \in Byte /\ m.class + 0 \in Byte
    BY <2>1, SmallBytes
  <2> QED BY <2>2
<1>2. m.status \in Byte /\ m.name \in Seq(Byte) /\ l \in Nat
  <2>1. m.status \in Byte /\ m.name \in Seq(Byte)
    BY DEF Person
  <2> QED BY <2>1
<1>3. l \in Byte /\ 255 \in Byte /\ 0 \in Byte
  BY <1>2, SmallBytes, ByteIs
<1>4. e = s \o m.name
  BY DEF EntryBytes
<1> HIDE DEF c, l, e
<1>5. s \in Seq(Byte) /\ Len(s) = 6 /\ s[1] = c /\ s[3] = m.status /\ s[4] = 0 /\ s[6] = l
  BY <1>1, <1>2, <1>3
<1> HIDE DEF s
<1>6. Joins(e, s, 6, m.name, l)
  BY <1>2, <1>4, <1>5, JoinsAt DEF l
<1>7. e \in Seq(Byte) /\ Len(e) = 6 + l
      /\ (\A k \in 1 .. 6 : e[k] = s[k]) /\ \A k \in 1 .. l : e[6 + k] = m.name[k]
  BY <1>6, Zenon DEF Joins
<1>8. e[1] = c /\ e[3] = m.status /\ e[4] = 0 /\ e[6] = l
  BY <1>5, <1>7
<1>9. 0 + 1 = 1 /\ 0 + 3 = 3 /\ 0 + 4 = 4 /\ 0 + 6 = 6
  OBVIOUS
<1>10. Spelled(e, 0, m)
  BY <1>7, <1>8, <1>9, Zenon DEF Spelled, c, l
<1> QED BY <1>2, <1>7, <1>10, Zenon DEF e, l

(* An entry stays spelled when bytes come before it.                       *)
LEMMA SpelledLater ==
    ASSUME NEW m \in Person, NEW o \in Nat, NEW e, NEW data, Spelled(e, 0, m), Len(m.name) \in Nat,
           \A i \in 1 .. 6 + Len(m.name) : data[o + i] = e[i]
    PROVE  Spelled(data, o, m)
<1> DEFINE l == Len(m.name)
           c == m.class + (IF m.isGuilded THEN 8 ELSE 0)
<1>1. 0 + 1 = 1 /\ 0 + 3 = 3 /\ 0 + 4 = 4 /\ 0 + 6 = 6
  OBVIOUS
<1>2. e[1] = c /\ e[3] = m.status /\ e[4] = 0 /\ e[6] = l /\ \A i \in 1 .. l : e[6 + i] = m.name[i]
  BY <1>1, Zenon DEF Spelled
<1>3. l \in Nat /\ \A i \in 1 .. 6 + l : data[o + i] = e[i]
  OBVIOUS
<1> HIDE DEF c, l
<1>4. /\ data[o + 1] = c /\ data[o + 3] = m.status /\ data[o + 4] = 0 /\ data[o + 6] = l
  <2>1. 1 \in 1 .. 6 + l /\ 3 \in 1 .. 6 + l /\ 4 \in 1 .. 6 + l /\ 6 \in 1 .. 6 + l
    BY <1>3
  <2> QED BY <1>2, <1>3, <2>1, Zenon
<1>5. ASSUME NEW i \in 1 .. l PROVE data[(o + 6) + i] = m.name[i]
  <2>1. 6 + i \in 1 .. 6 + l /\ o + (6 + i) = (o + 6) + i
    BY <1>3
  <2>2. data[o + (6 + i)] = e[6 + i]
    BY <1>3, <2>1
  <2> QED BY <1>2, <2>1, <2>2
<1> QED BY <1>4, <1>5 DEF Spelled, c, l

(* z is four bytes and then y, the entries one after the other: entry k    *)
(* begins E[k - 1] bytes into y.                                           *)
Assembled(n, shown, N, parts, E, y, z, F) ==
    /\ n \in Nat /\ N \in Nat /\ N = Len(shown) /\ Len(parts) = N
    /\ \A k \in 1 .. N : shown[k] \in Person
    /\ \A k \in 1 .. N : Len(parts[k]) = 6 + Len(shown[k].name) /\ Len(shown[k].name) \in Nat
    /\ \A k \in 1 .. N : Spelled(parts[k], 0, shown[k])
    /\ E \in [0 .. N -> Nat] /\ E[0] = 0
    /\ \A k \in 1 .. N : E[k] = E[k - 1] + Len(parts[k])
    /\ \A k \in 1 .. N : \A i \in 1 .. Len(parts[k]) : y[E[k - 1] + i] = parts[k][i]
    /\ z \in Seq(Byte) /\ Len(z) = 4 + E[N] /\ (\A k \in 1 .. E[N] : z[4 + k] = y[k])
    /\ Uint16(z, 1) = n /\ Uint16(z, 3) = N
    /\ F \in [0 .. N -> Nat] /\ \A k \in 0 .. N : F[k] = 4 + E[k]

(* The count, how many entries there are, and the entries at their places  *)
LEMMA LaidOut ==
    ASSUME NEW n, NEW shown, NEW N, NEW parts, NEW E, NEW y, NEW z, NEW F,
           Assembled(n, shown, N, parts, E, y, z, F)
    PROVE  Laid(z, F, n, shown)
<1> USE DEF Assembled
<1>1. F[0] = 4 /\ Len(z) = F[N]
  <2>1. 0 \in 0 .. N /\ N \in 0 .. N /\ 4 + 0 = 4
    OBVIOUS
  <2> QED BY <2>1, Zenon
<1>16. ASSUME NEW k \in 1 .. N
       PROVE  F[k] = F[k - 1] + (6 + Len(shown[k].name)) /\ Spelled(z, F[k - 1], shown[k])
  <2>1. k \in 0 .. N /\ k - 1 \in 0 .. N
    OBVIOUS
  <2>a. E[k - 1] \in Nat /\ E[k] \in Nat /\ Len(shown[k].name) \in Nat
    BY <2>1
  <2>2. PICK e \in Nat, f \in Nat, l \in Nat : e = E[k - 1] /\ f = E[k] /\ l = Len(shown[k].name)
    BY <2>a, Zenon
  <2>b. F[k] = 4 + f /\ F[k - 1] = 4 + e
    BY <2>1, <2>2, Zenon
  <2>c. Len(parts[k]) = 6 + l
    BY <2>2, Zenon
  <2>3. f = e + (6 + l)
    BY <2>c, <2>2, Zenon
  <2>4. F[k] = F[k - 1] + (6 + l)
    <3>1. 4 + f = (4 + e) + (6 + l)
      BY <2>3
    <3> QED BY <2>b, <3>1, Zenon
  <2>5. f <= E[N]
    <3> DEFINE S == {j \in 0 .. N : k <= j => f <= E[j]}
    <3>2. 0 \in S
      BY <2>1
    <3>3. ASSUME NEW j \in 0 .. N - 1, j \in S PROVE j + 1 \in S
      <4>1. j \in 0 .. N /\ j + 1 \in 0 .. N /\ j + 1 \in 1 .. N /\ (j + 1) - 1 = j
        OBVIOUS
      <4>2. PICK g \in Nat, h \in Nat, w \in Nat : g = E[j] /\ h = E[j + 1] /\ w = Len(shown[j + 1].name)
        <5>1. E[j] \in Nat /\ E[j + 1] \in Nat /\ Len(shown[j + 1].name) \in Nat
          BY <4>1
        <5> QED BY <5>1, Zenon
      <4>3. h = g + (6 + w)
        BY <4>1, <4>2, Zenon
      <4>4. k <= j => f <= g
        BY <3>3, <4>2
      <4>5. k <= j + 1 => f <= h
        <5>1. CASE k <= j
          BY <4>3, <4>4, <5>1
        <5>2. CASE k = j + 1
          <6>1. f = h
            BY <2>2, <4>2, <5>2, Zenon
          <6> QED BY <6>1
        <5>3. k <= j + 1 => k <= j \/ k = j + 1
          OBVIOUS
        <5> QED BY <5>1, <5>2, <5>3
      <4> QED BY <4>1, <4>2, <4>5, Zenon
    <3>4. 0 .. N \subseteq S
      <4> HIDE DEF S
      <4> QED BY <3>2, <3>3, UpTo
    <3>5. N \in 0 .. N /\ k <= N
      OBVIOUS
    <3> QED BY <3>4, <3>5, Zenon
  <2>6. ASSUME NEW i \in 1 .. 6 + l PROVE z[(4 + e) + i] = parts[k][i]
    <3>1. PICK h \in Nat : h = E[N]
      <4>1. N \in 0 .. N
        OBVIOUS
      <4> QED BY <4>1, Zenon
    <3>2. f <= h
      BY <2>5, <3>1, Zenon
    <3>3. e + i \in 1 .. h /\ 4 + (e + i) = (4 + e) + i
      BY <2>3, <3>2
    <3>4. z[4 + (e + i)] = y[e + i]
      BY <3>1, <3>3, Zenon
    <3>5. y[E[k - 1] + i] = parts[k][i]
      BY <2>c, Zenon
    <3> QED BY <2>2, <3>3, <3>4, <3>5, Zenon
  <2>7. Spelled(z, 4 + e, shown[k])
    <3>1. Spelled(parts[k], 0, shown[k]) /\ shown[k] \in Person
      OBVIOUS
    <3>2. \A i \in 1 .. 6 + Len(shown[k].name) : z[(4 + e) + i] = parts[k][i]
      BY <2>2, <2>6, Zenon
    <3>3. PICK o \in Nat : o = 4 + e
      OBVIOUS
    <3>4. \A i \in 1 .. 6 + Len(shown[k].name) : z[o + i] = parts[k][i]
      BY <3>2, <3>3, Zenon
    <3> QED BY <2>a, <3>1, <3>3, <3>4, SpelledLater, Zenon
  <2> QED BY <2>2, <2>b, <2>4, <2>7, Zenon
<1> QED BY <1>1, <1>16, Zenon DEF Laid, Assembled

(* The body of a list has such a layout.                                   *)
LEMMA BodyLaid ==
    ASSUME NEW n, Word(n), NEW shown, Named(shown), Word(Len(shown))
    PROVE  \E F : Laid(WorldListBody(n, shown), F, n, shown)
<1>1. Len(shown) \in Nat /\ shown \in Seq(Person)
      /\ \A k \in 1 .. Len(shown) : shown[k] \in Person /\ Len(shown[k].name) < 256
  BY DEF Named
<1>M. n \in Nat
  BY DEF Word
<1>N. PICK N \in Nat : N = Len(shown)
  BY <1>1, Zenon
<1>2. PICK parts : parts = EntryParts(shown)
  OBVIOUS
<1>2a. parts \in Seq(Seq(Byte)) /\ Len(parts) = N /\ \A k \in 1 .. N : parts[k] = EntryBytes(shown[k])
  BY <1>N, <1>2, EntryPartsType, Zenon
<1>3. /\ \A k \in 1 .. N : Len(parts[k]) = 6 + Len(shown[k].name) /\ Len(shown[k].name) \in Nat
      /\ \A k \in 1 .. N : Spelled(parts[k], 0, shown[k])
  BY <1>1, <1>N, <1>2a, EntrySpelled, Zenon
<1>4. PICK st : st = Joints(parts)
  OBVIOUS
<1>5. PICK y, u, v : y = ListBytes(shown) /\ u = TwoBytes(n) /\ v = TwoBytes(N)
  OBVIOUS
<1>5a. y = st[N]
  BY <1>N, <1>2, <1>4, <1>5, Zenon DEF ListBytes, EntryParts
<1>6. /\ u \in Seq(Byte) /\ Len(u) = 2 /\ u[1] = (n \div 256) % 256 /\ u[2] = n % 256
      /\ v \in Seq(Byte) /\ Len(v) = 2 /\ v[1] = (N \div 256) % 256 /\ v[2] = N % 256
  BY <1>5, <1>M, TwoBytesType
<1>7. st \in [0 .. N -> Seq(Byte)] /\ st[0] = <<>> /\ \A k \in 1 .. N : st[k] = st[k - 1] \o parts[k]
  BY <1>2a, <1>4, JointsLoop, Zenon
<1>a. PICK E : E = [k \in 0 .. Len(parts) |-> Len(st[k])]
  OBVIOUS
<1>b. Placed(st, E, parts)
  BY <1>2a, <1>7, <1>a, JointsPlaced, Zenon
<1>8. /\ E \in [0 .. N -> Nat] /\ E[0] = 0
      /\ \A k \in 1 .. N : E[k] = E[k - 1] + Len(parts[k])
      /\ y \in Seq(Byte) /\ Len(y) = E[N]
      /\ \A k \in 1 .. N : \A i \in 1 .. Len(parts[k]) : y[E[k - 1] + i] = parts[k][i]
  BY <1>2a, <1>5a, <1>b, Zenon DEF Placed
<1>c. PICK h \in Nat : h = E[N]
  <2>1. N \in 0 .. N
    OBVIOUS
  <2> QED BY <1>8, <2>1, Zenon
<1>d. PICK x, z : x = u \o v /\ z = x \o y
  OBVIOUS
<1>e. z = WorldListBody(n, shown)
  BY <1>N, <1>5, <1>d, Zenon DEF WorldListBody
<1>9. Joins(x, u, 2, v, 2)
  BY <1>6, <1>d, JoinsAt
<1>10. x \in Seq(Byte) /\ Len(x) = 4 /\ x[1] = u[1] /\ x[2] = u[2] /\ x[3] = v[1] /\ x[4] = v[2]
  <2>1. x \in Seq(Byte) /\ Len(x) = 2 + 2 /\ (\A k \in 1 .. 2 : x[k] = u[k]) /\ \A k \in 1 .. 2 : x[2 + k] = v[k]
    BY <1>9, Zenon DEF Joins
  <2>2. 2 + 2 = 4 /\ 2 + 1 = 3 /\ 1 \in 1 .. 2 /\ 2 \in 1 .. 2
    OBVIOUS
  <2> QED BY <2>1, <2>2, Zenon
<1>11. Joins(z, x, 4, y, h)
  BY <1>8, <1>10, <1>c, <1>d, JoinsAt
<1>12. z \in Seq(Byte) /\ Len(z) = 4 + h /\ (\A k \in 1 .. 4 : z[k] = x[k]) /\ \A k \in 1 .. h : z[4 + k] = y[k]
  BY <1>11, Zenon DEF Joins
<1>13. Uint16(z, 1) = n /\ Uint16(z, 3) = N
  <2>1. z[1] = (n \div 256) % 256 /\ z[2] = n % 256 /\ z[3] = (N \div 256) % 256 /\ z[4] = N % 256
    BY <1>6, <1>10, <1>12
  <2>2. Uint16(z, 1) = z[1] * 256 + z[2] /\ Uint16(z, 3) = z[3] * 256 + z[4]
    BY DEF Uint16
  <2>3. ((n \div 256) % 256) * 256 + (n % 256) = n /\ ((N \div 256) % 256) * 256 + (N % 256) = N
    BY <1>N, <1>M, TwoDigits DEF Word
  <2> QED BY <2>1, <2>2, <2>3, Zenon
<1>14. PICK F : F = [k \in 0 .. N |-> 4 + E[k]]
  OBVIOUS
<1>15. F \in [0 .. N -> Nat] /\ \A k \in 0 .. N : F[k] = 4 + E[k]
  BY <1>8, <1>14
<1>16. \A k \in 1 .. N : shown[k] \in Person
  BY <1>1, <1>N
<1>17. Laid(z, F, n, shown)
  <2>1. z \in Seq(Byte) /\ Len(z) = 4 + E[N] /\ \A k \in 1 .. E[N] : z[4 + k] = y[k]
    BY <1>12, <1>c, Zenon
  <2>2. Len(parts) = N /\ N = Len(shown) /\ N \in Nat
    BY <1>2a, <1>N
  <2>3. Assembled(n, shown, N, parts, E, y, z, F)
    BY <2>1, <2>2, <1>3, <1>8, <1>13, <1>15, <1>16, <1>M, Zenon DEF Assembled
  <2> QED BY <2>3, LaidOut, Zenon
<1> QED BY <1>17, <1>e, Zenon
-----------------------------------------------------------------------------
(* An entry as it is read, and the member it was written from              *)
Alike(x, m) == x.class = m.class /\ x.status = m.status /\ x.name = m.name

(* data is D, as far as it goes.                                           *)
Opening(data, D) ==
    /\ data \in Seq(Byte) /\ D \in Seq(Byte) /\ Len(data) <= Len(D)
    /\ \A i \in 1 .. Len(data) : data[i] = D[i]

NextEntry(s, at, x) == [at |-> at, members |-> Append(s.members, x), raised |-> "no"]

(* Where the parts of an entry are, counted from 0 and from 1              *)
LEMMA EntryOffsets ==
    ASSUME NEW o \in Nat, NEW l \in Nat
    PROVE  /\ (o + 1) + 3 = o + 4 /\ (o + 1) + 5 + 0 = o + 6 /\ (o + 1) + 2 = o + 3
           /\ (o + 6) + l = o + (6 + l) /\ (o + 6) + l + 1 = o + (6 + l) + 1
OBVIOUS

(* What a turn makes of the state of the loop                              *)
LEMMA EntrySet ==
    ASSUME NEW s \in EntryStates, s.raised = "no", NEW a \in Nat, NEW x
    PROVE  [s EXCEPT !.at = a, !.members = Append(@, x)] = NextEntry(s, a, x)
<1> DEFINE e == [s EXCEPT !.at = a, !.members = Append(@, x)]
           r == NextEntry(s, a, x)
<1>1. e = [i \in DOMAIN e |-> e[i]] /\ DOMAIN e = {"at", "members", "raised"}
      /\ e.at = a /\ e.members = Append(s.members, x) /\ e.raised = s.raised
  <2>1. s \in [at : Nat \ {0}, members : Seq(MemberSet), raised : {"no", "ValueError"}]
    BY DEF EntryStates
  <2>2. DOMAIN s = {"at", "members", "raised"}
    BY <2>1
  <2> QED BY <2>2
<1>2. r = [i \in DOMAIN r |-> r[i]] /\ DOMAIN r = {"at", "members", "raised"}
      /\ r.at = a /\ r.members = Append(s.members, x) /\ r.raised = "no"
  BY DEF NextEntry
<1> HIDE DEF e, r
<1>3. \A i \in {"at", "members", "raised"} : e[i] = r[i]
  BY <1>1, <1>2
<1>4. e = r
  BY <1>1, <1>2, <1>3
<1> QED BY <1>4 DEF e, r

(* A part of bytes, byte by byte                                           *)
LEMMA PartOf ==
    ASSUME NEW data \in Seq(Byte), NEW q \in Nat, NEW l \in Nat, q + l <= Len(data)
    PROVE  /\ SubSeq(data, q + 1, q + l) \in Seq(Byte) /\ Len(SubSeq(data, q + 1, q + l)) = l
           /\ \A i \in 1 .. l : SubSeq(data, q + 1, q + l)[i] = data[q + i]
<1> DEFINE m == q + 1
           n == q + l
<1>1. m \in Nat \ {0} /\ n \in Int /\ n <= Len(data) /\ n - m + 1 = l /\ \A i \in 1 .. l : m + i - 1 = q + i
  OBVIOUS
<1>2. (IF m <= n THEN n - m + 1 ELSE 0) = l
  OBVIOUS
<1> HIDE DEF m, n
<1>3. /\ SubSeq(data, m, n) \in Seq(Byte)
      /\ Len(SubSeq(data, m, n)) = IF m <= n THEN n - m + 1 ELSE 0
      /\ \A i \in 1 .. n - m + 1 : SubSeq(data, m, n)[i] = data[m + i - 1]
  BY <1>1, SubBytes, Zenon
<1>4. PICK g : g = SubSeq(data, m, n)
  OBVIOUS
<1>5. g \in Seq(Byte) /\ Len(g) = l /\ \A i \in 1 .. l : g[i] = data[q + i]
  <2>1. ASSUME NEW i \in 1 .. l PROVE g[i] = data[q + i]
    <3>1. i \in 1 .. n - m + 1 /\ m + i - 1 = q + i
      BY <1>1, Zenon
    <3> QED BY <1>3, <1>4, <3>1, Zenon
  <2> QED BY <1>2, <1>3, <1>4, <2>1, Zenon
<1> QED BY <1>4, <1>5, Zenon DEF m, n

(* An entry that is there to its end is read as the member it was written  *)
(* from.                                                                   *)
LEMMA EntryRead ==
    ASSUME NEW D, NEW data, Opening(data, D), NEW o \in Nat, NEW m \in Person, NEW l \in Nat, l = Len(m.name),
           Spelled(D, o, m)
    PROVE  /\ EntryFits(data, o + 1) <=> o + (6 + l) <= Len(data)
           /\ o + (6 + l) <= Len(data) =>
                /\ data[o + 4] = 0 /\ data[o + 6] = l
                /\ Alike(MemberAt(data, o + 1), m)
<1>1. data \in Seq(Byte) /\ Len(data) \in Nat /\ \A i \in 1 .. Len(data) : data[i] = D[i]
  BY DEF Opening
<1>2. /\ D[o + 1] = m.class + (IF m.isGuilded THEN 8 ELSE 0) /\ D[o + 3] = m.status
      /\ D[o + 4] = 0 /\ D[o + 6] = l
      /\ \A i \in 1 .. l : D[(o + 6) + i] = m.name[i]
  BY DEF Spelled
<1>3. (o + 1) + 3 = o + 4 /\ (o + 1) + 5 + 0 = o + 6 /\ (o + 1) + 2 = o + 3 /\ (o + 6) + l = o + (6 + l)
  BY EntryOffsets, Zenon
<1>4. PICK n \in Nat : n = Len(data)
  BY <1>1
<1>5. o + 4 <= n => data[o + 4] = 0
  <2>1. o + 4 <= n => o + 4 \in 1 .. n
    OBVIOUS
  <2> QED BY <1>1, <1>2, <1>4, <2>1
<1>6. o + 6 <= n => data[o + 6] = l
  <2>1. o + 6 <= n => o + 6 \in 1 .. n
    OBVIOUS
  <2> QED BY <1>1, <1>2, <1>4, <2>1
<1>7. EntryFits(data, o + 1) <=> o + (6 + l) <= n
  <2>1. EntryFits(data, o + 1) <=>
          /\ o + 4 <= n
          /\ (o + 1) + 5 + data[o + 4] <= n
          /\ (o + 1) + 5 + data[o + 4] + data[(o + 1) + 5 + data[o + 4]] <= n
    BY <1>3, <1>4, Zenon DEF EntryFits
  <2>2. CASE o + 4 <= n
    <3>1. EntryFits(data, o + 1) <=> o + 6 <= n /\ o + 6 + data[o + 6] <= n
      BY <1>3, <1>5, <2>1, <2>2, Zenon
    <3>2. CASE o + 6 <= n
      <4>1. EntryFits(data, o + 1) <=> (o + 6) + l <= n
        BY <1>6, <3>1, <3>2, Zenon
      <4> QED BY <1>3, <4>1, Zenon
    <3>3. CASE ~(o + 6 <= n)
      <4>1. ~(o + (6 + l) <= n)
        BY <3>3
      <4> QED BY <3>1, <3>3, <4>1
    <3> QED BY <3>2, <3>3
  <2>3. CASE ~(o + 4 <= n)
    <3>1. ~(o + (6 + l) <= n)
      BY <2>3
    <3> QED BY <2>1, <2>3, <3>1
  <2> QED BY <2>2, <2>3
<1>8. ASSUME o + (6 + l) <= n
      PROVE  data[o + 4] = 0 /\ data[o + 6] = l /\ Alike(MemberAt(data, o + 1), m)
  <2>1. o + 4 <= n /\ o + 6 <= n /\ o + 1 \in 1 .. n /\ o + 3 \in 1 .. n
    BY <1>8
  <2>2. data[o + 4] = 0 /\ data[o + 6] = l
    BY <1>5, <1>6, <2>1
  <2>3. data[o + 1] = m.class + (IF m.isGuilded THEN 8 ELSE 0) /\ data[o + 3] = m.status
    BY <1>1, <1>2, <1>4, <2>1, Zenon
  <2>4. data[o + 1] % 8 = m.class
    <3>1. m.class \in 0 .. 7
      BY DEF Person
    <3>2. PICK c \in 0 .. 7 : c = m.class
      BY <3>1
    <3>3. (c + 8) % 8 = c /\ (c + 0) % 8 = c
      BY <3>2
    <3> QED BY <2>3, <3>2, <3>3
  <2>5. MemberAt(data, o + 1).class = data[o + 1] % 8 /\ MemberAt(data, o + 1).status = data[o + 3]
        /\ MemberAt(data, o + 1).name = String8(data, (o + 1) + 5 + data[o + 4])
    BY <1>3 DEF MemberAt
  <2>6. (o + 1) + 5 + data[o + 4] = o + 6
    BY <1>3, <2>2, Zenon
  <2>7. String8(data, o + 6) = m.name
    <3>1. String8(data, o + 6) = SubSeq(data, (o + 6) + 1, (o + 6) + l)
      BY <2>2 DEF String8
    <3> DEFINE g == SubSeq(data, (o + 6) + 1, (o + 6) + l)
    <3>2. g \in Seq(Byte) /\ Len(g) = l /\ \A i \in 1 .. l : g[i] = data[(o + 6) + i]
      <4>1. PICK q \in Nat : q = o + 6
        OBVIOUS
      <4>2. q + l <= n
        BY <1>3, <1>8, <4>1, Zenon
      <4>3. SubSeq(data, q + 1, q + l) \in Seq(Byte) /\ Len(SubSeq(data, q + 1, q + l)) = l
            /\ \A i \in 1 .. l : SubSeq(data, q + 1, q + l)[i] = data[q + i]
        <5> HIDE DEF g
        <5> QED BY <1>1, <1>4, <4>2, PartOf
      <4> QED BY <4>1, <4>3, Zenon
    <3> HIDE DEF g
    <3>3. m.name \in Seq(Byte)
      BY DEF Person
    <3>4. ASSUME NEW i \in 1 .. l PROVE g[i] = m.name[i]
      <4>1. (o + 6) + i \in 1 .. n
        BY <1>8
      <4> QED BY <1>1, <1>2, <1>4, <3>2, <4>1, Zenon
    <3>5. g = m.name
      BY <3>2, <3>3, <3>4
    <3> QED BY <3>1, <3>5 DEF g
  <2> QED BY <2>2, <2>3, <2>4, <2>5, <2>6, <2>7, Zenon DEF Alike
<1> QED BY <1>4, <1>7, <1>8, Zenon

AtEntry(D, data, o, m, l, s) ==
    /\ Opening(data, D) /\ o \in Nat /\ m \in Person /\ l \in Nat /\ l = Len(m.name) /\ Spelled(D, o, m)
    /\ s \in EntryStates /\ s.at = o + 1 /\ s.raised = "no"

(* A turn at the beginning of an entry takes it, or raises if its end is   *)
(* missing.                                                                *)
LEMMA EntryTurned ==
    ASSUME NEW D, NEW data, NEW o, NEW m, NEW l, NEW s, AtEntry(D, data, o, m, l, s)
    PROVE  IF o + (6 + l) <= Len(data)
           THEN \E x \in MemberSet : Alike(x, m) /\ EntryTurn(data, s) = NextEntry(s, o + (6 + l) + 1, x)
           ELSE EntryTurn(data, s).raised # "no"
<1>0. /\ Opening(data, D) /\ o \in Nat /\ m \in Person /\ l \in Nat /\ l = Len(m.name) /\ Spelled(D, o, m)
      /\ s \in EntryStates /\ s.at = o + 1 /\ s.raised = "no"
  BY Zenon DEF AtEntry
<1>1. /\ EntryFits(data, o + 1) <=> o + (6 + l) <= Len(data)
      /\ o + (6 + l) <= Len(data) => data[o + 4] = 0 /\ data[o + 6] = l /\ Alike(MemberAt(data, o + 1), m)
  BY <1>0, EntryRead
<1>2. s = [at |-> s.at, members |-> s.members, raised |-> s.raised] /\ s.members \in Seq(MemberSet)
  BY <1>0 DEF EntryStates
<1>3. CASE o + (6 + l) <= Len(data)
  <2> DEFINE x == MemberAt(data, o + 1)
  <2>1. (o + 1) + 3 = o + 4 /\ (o + 1) + 5 + 0 = o + 6 /\ (o + 6) + l + 1 = o + (6 + l) + 1
    BY <1>0, EntryOffsets, Zenon
  <2>2. s.at + 5 + data[s.at + 3] = o + 6
    BY <1>0, <1>1, <1>3, <2>1, Zenon
  <2>3. EntryTurn(data, s) = [s EXCEPT !.at = (o + 6) + data[o + 6] + 1, !.members = Append(@, x)]
    BY <1>0, <1>1, <1>3, <2>2, Zenon DEF EntryTurn
  <2>4. (o + 6) + data[o + 6] + 1 = o + (6 + l) + 1
    BY <1>0, <1>1, <1>3, <2>1, Zenon
  <2> DEFINE a == o + (6 + l) + 1
  <2>5. EntryTurn(data, s) = [s EXCEPT !.at = a, !.members = Append(@, x)]
    BY <2>3, <2>4, Zenon
  <2> HIDE DEF a, x
  <2>6. [s EXCEPT !.at = a, !.members = Append(@, x)] = NextEntry(s, a, x)
    <3>1. a \in Nat
      BY <1>0 DEF a
    <3> QED BY <1>0, <3>1, EntrySet, Zenon
  <2>7. x \in MemberSet
    <3>1. EntryTurn(data, s) \in EntryStates
      BY <1>0, EntryTurnType DEF Opening
    <3>2. Append(s.members, x) \in Seq(MemberSet)
      BY <2>5, <2>6, <3>1 DEF EntryStates, NextEntry
    <3>3. Len(Append(s.members, x)) = Len(s.members) + 1 /\ Append(s.members, x)[Len(s.members) + 1] = x
          /\ Len(s.members) + 1 \in 1 .. Len(s.members) + 1
      BY <1>2
    <3> DEFINE q == Append(s.members, x)
    <3> HIDE DEF q
    <3>4. q \in Seq(MemberSet) /\ Len(s.members) + 1 \in 1 .. Len(q)
      BY <3>2, <3>3 DEF q
    <3>5. q[Len(s.members) + 1] \in MemberSet
      BY <3>4
    <3> QED BY <3>3, <3>5 DEF q
  <2>8. Alike(x, m)
    BY <1>1, <1>3 DEF x
  <2> QED BY <1>3, <2>5, <2>6, <2>7, <2>8, Zenon DEF a
<1>4. CASE ~(o + (6 + l) <= Len(data))
  <2>1. EntryTurn(data, s) = [s EXCEPT !.raised = "ValueError"]
    BY <1>0, <1>1, <1>4, Zenon DEF EntryTurn
  <2>2. EntryTurn(data, s).raised = "ValueError"
    BY <1>2, <2>1
  <2> QED BY <1>4, <2>2
<1> QED BY <1>3, <1>4
-----------------------------------------------------------------------------
(* The first k entries read are of the first k members.                    *)
Mirror(members, shown, k) ==
    /\ members \in Seq(MemberSet) /\ Len(members) = k
    /\ \A i \in 1 .. k : Alike(members[i], shown[i])

At(s, F, shown, k) == s.at = F[k] + 1 /\ s.raised = "no" /\ Mirror(s.members, shown, k)

(* The entries come one after the other.                                   *)
LEMMA LaidUp ==
    ASSUME NEW D, NEW F, NEW n, NEW shown, Laid(D, F, n, shown), Len(shown) \in Nat,
           \A k \in 1 .. Len(shown) : Len(shown[k].name) \in Nat
    PROVE  \A j \in 0 .. Len(shown) : F[j] \in Nat /\ 4 <= F[j] /\ \A k \in 0 .. j : F[k] <= F[j]
<1>1. PICK N \in Nat : N = Len(shown)
  OBVIOUS
<1>2. /\ F \in [0 .. N -> Nat] /\ F[0] = 4
      /\ \A k \in 1 .. N : F[k] = F[k - 1] + (6 + Len(shown[k].name))
  BY <1>1, Zenon DEF Laid
<1>3. ASSUME NEW k \in 1 .. N PROVE F[k - 1] \in Nat /\ F[k] \in Nat /\ F[k - 1] <= F[k]
  <2>1. k - 1 \in 0 .. N /\ k \in 0 .. N
    OBVIOUS
  <2>2. F[k - 1] \in Nat /\ F[k] \in Nat /\ Len(shown[k].name) \in Nat
    BY <1>1, <1>2, <2>1
  <2>3. PICK e \in Nat, f \in Nat, l \in Nat : e = F[k - 1] /\ f = F[k] /\ l = Len(shown[k].name)
    BY <2>2, Zenon
  <2>4. f = e + (6 + l)
    BY <1>2, <2>3, Zenon
  <2>5. e <= f
    BY <2>4
  <2> QED BY <2>2, <2>3, <2>5, Zenon
<1> DEFINE S == {j \in 0 .. N : F[j] \in Nat /\ 4 <= F[j] /\ \A k \in 0 .. j : F[k] <= F[j]}
<1>4. 0 \in S
  BY <1>2
<1>5. ASSUME NEW j \in 0 .. N - 1, j \in S PROVE j + 1 \in S
  <2>1. j + 1 \in 1 .. N /\ j + 1 \in 0 .. N /\ (j + 1) - 1 = j /\ j \in 0 .. N
    OBVIOUS
  <2>2. F[j] \in Nat /\ F[j + 1] \in Nat /\ F[j] <= F[j + 1]
    BY <1>3, <2>1, Zenon
  <2>3. 4 <= F[j] /\ \A k \in 0 .. j : F[k] <= F[j]
    BY <1>5
  <2>4. PICK e \in Nat, f \in Nat : e = F[j] /\ f = F[j + 1]
    BY <2>2, Zenon
  <2>5. 4 <= f
    BY <2>2, <2>3, <2>4
  <2>6. ASSUME NEW k \in 0 .. j + 1 PROVE F[k] <= f
    <3>1. k = j + 1 \/ k \in 0 .. j
      OBVIOUS
    <3>2. CASE k = j + 1
      BY <2>4, <3>2
    <3>3. CASE k \in 0 .. j
      <4>1. F[k] <= e
        BY <2>3, <2>4, <3>3
      <4>2. k \in 0 .. N
        BY <3>3
      <4>3. PICK g \in Nat : g = F[k]
        BY <1>2, <4>2
      <4> QED BY <2>2, <2>4, <4>1, <4>3
    <3> QED BY <3>1, <3>2, <3>3
  <2> QED BY <2>1, <2>2, <2>4, <2>5, <2>6, Zenon
<1>6. 0 .. N \subseteq S
  <2> HIDE DEF S
  <2> QED BY <1>4, <1>5, UpTo
<1> QED BY <1>1, <1>6, Zenon

(* A turn of the loop takes the next member.                               *)
LEMMA TurnAt ==
    ASSUME NEW D, NEW data, Opening(data, D), NEW F, NEW n, NEW shown, Laid(D, F, n, shown),
           NEW k \in 1 .. Len(shown), shown[k] \in Person, NEW o \in Nat, o = F[k - 1], NEW l \in Nat,
           l = Len(shown[k].name), F[k] = o + (6 + l),
           NEW s \in EntryStates, At(s, F, shown, k - 1), Len(shown) \in Nat
    PROVE  IF F[k] <= Len(data) THEN At(EntryTurn(data, s), F, shown, k)
           ELSE EntryTurn(data, s).raised # "no"
<1>1. PICK m \in Person : m = shown[k]
  OBVIOUS
<1>2. Spelled(D, o, m)
  BY <1>1, Zenon DEF Laid
<1>3. s.at = o + 1 /\ s.raised = "no" /\ Mirror(s.members, shown, k - 1)
  BY Zenon DEF At
<1>4. l = Len(m.name)
  BY <1>1, Zenon
<1>5. IF o + (6 + l) <= Len(data)
      THEN \E x \in MemberSet : Alike(x, m) /\ EntryTurn(data, s) = NextEntry(s, o + (6 + l) + 1, x)
      ELSE EntryTurn(data, s).raised # "no"
  <2>1. AtEntry(D, data, o, m, l, s)
    BY <1>2, <1>3, <1>4, Zenon DEF AtEntry
  <2> QED BY <2>1, EntryTurned, Zenon
<1>6. CASE F[k] <= Len(data)
  <2>1. o + (6 + l) <= Len(data)
    BY <1>6, Zenon
  <2>2. PICK x \in MemberSet : Alike(x, m) /\ EntryTurn(data, s) = NextEntry(s, o + (6 + l) + 1, x)
    BY <1>5, <2>1, Zenon
  <2>3. PICK t : t = NextEntry(s, o + (6 + l) + 1, x)
    OBVIOUS
  <2>4. t.at = F[k] + 1 /\ t.raised = "no" /\ t.members = Append(s.members, x)
    BY <2>3 DEF NextEntry
  <2>5. Mirror(Append(s.members, x), shown, k)
    <3>1. PICK q \in Seq(MemberSet) : q = s.members
      BY <1>3 DEF Mirror
    <3>2. Len(q) = k - 1 /\ \A i \in 1 .. k - 1 : Alike(q[i], shown[i])
      BY <1>3, <3>1, Zenon DEF Mirror
    <3>3. k \in Nat /\ k = (k - 1) + 1
      OBVIOUS
    <3>4. /\ Append(q, x) \in Seq(MemberSet) /\ Len(Append(q, x)) = k /\ Append(q, x)[k] = x
          /\ \A i \in 1 .. k - 1 : Append(q, x)[i] = q[i]
      BY <3>2, <3>3, AppendProperties
    <3>5. ASSUME NEW i \in 1 .. k PROVE Alike(Append(q, x)[i], shown[i])
      <4>1. i = k \/ i \in 1 .. k - 1
        BY <3>3
      <4> QED BY <1>1, <2>2, <3>2, <3>4, <4>1, Zenon
    <3> QED BY <3>1, <3>4, <3>5, Zenon DEF Mirror
  <2>6. At(t, F, shown, k)
    BY <2>4, <2>5, Zenon DEF At
  <2> QED BY <1>6, <2>2, <2>3, <2>6, Zenon
<1>7. CASE ~(F[k] <= Len(data))
  <2>1. ~(o + (6 + l) <= Len(data))
    BY <1>7, Zenon
  <2> QED BY <1>5, <1>7, <2>1, Zenon
<1> QED BY <1>6, <1>7
-----------------------------------------------------------------------------
(* The states of the loop over the entries                                 *)
Turns(data, m, after) ==
    /\ after \in [0 .. m -> EntryStates] /\ after[0] = FirstEntry
    /\ \A k \in 1 .. m : after[k] = EntryTurn(data, after[k - 1])

(* The turns take the members that are there to their ends, and the turn   *)
(* after them raises.                                                      *)
LEMMA TurnsReach ==
    ASSUME NEW D, NEW data, Opening(data, D), NEW F, NEW n, NEW shown, Laid(D, F, n, shown), Named(shown),
           NEW after, Turns(data, Len(shown), after)
    PROVE  /\ \A j \in 0 .. Len(shown) : F[j] <= Len(data) => At(after[j], F, shown, j)
           /\ \A j \in 1 .. Len(shown) : F[j - 1] <= Len(data) /\ ~(F[j] <= Len(data)) => after[j].raised # "no"
<1>1. PICK N \in Nat : N = Len(shown)
  BY DEF Named
<1>2. \A k \in 1 .. N : shown[k] \in Person /\ Len(shown[k].name) \in Nat
  <2>1. \A k \in 1 .. N : shown[k] \in Person
    BY <1>1 DEF Named
  <2>2. \A m \in Person : Len(m.name) \in Nat
    BY DEF Person
  <2> QED BY <2>1, <2>2, Zenon
<1>3. \A j \in 0 .. N : F[j] \in Nat /\ 4 <= F[j] /\ \A k \in 0 .. j : F[k] <= F[j]
  BY <1>1, <1>2, LaidUp, Zenon
<1>4. PICK h \in Nat : h = Len(data)
  BY DEF Opening
<1>5. /\ F[0] = 4 /\ \A k \in 1 .. N : F[k] = F[k - 1] + (6 + Len(shown[k].name))
  BY <1>1, Zenon DEF Laid
<1>6. /\ after \in [0 .. N -> EntryStates] /\ after[0] = FirstEntry
      /\ \A k \in 1 .. N : after[k] = EntryTurn(data, after[k - 1])
  BY <1>1, Zenon DEF Turns
<1>7. ASSUME NEW k \in 1 .. N, At(after[k - 1], F, shown, k - 1)
      PROVE  IF F[k] <= h THEN At(after[k], F, shown, k) ELSE after[k].raised # "no"
  <2>1. k - 1 \in 0 .. N
    OBVIOUS
  <2>2. PICK o \in Nat : o = F[k - 1]
    BY <1>3, <2>1, Zenon
  <2>3. PICK l \in Nat : l = Len(shown[k].name)
    BY <1>2, Zenon
  <2>4. F[k] = o + (6 + l)
    BY <1>5, <2>2, <2>3, Zenon
  <2>5. PICK s \in EntryStates : s = after[k - 1]
    BY <1>6, <2>1, Zenon
  <2>6. At(s, F, shown, k - 1) /\ shown[k] \in Person /\ k \in 1 .. Len(shown) /\ Len(shown) \in Nat
    BY <1>1, <1>2, <1>7, <2>5, Zenon
  <2>7. after[k] = EntryTurn(data, s)
    BY <1>6, <2>5, Zenon
  <2>8. IF F[k] <= Len(data) THEN At(EntryTurn(data, s), F, shown, k) ELSE EntryTurn(data, s).raised # "no"
    BY <2>2, <2>3, <2>4, <2>6, TurnAt
  <2> QED BY <1>4, <2>7, <2>8, Zenon
<1> DEFINE S == {j \in 0 .. N : F[j] <= h => At(after[j], F, shown, j)}
<1>8. 0 \in S
  <2>1. 4 + 1 = 5 /\ 0 \in 0 .. N
    OBVIOUS
  <2>2. FirstEntry.at = 5 /\ FirstEntry.raised = "no" /\ FirstEntry.members = <<>>
    BY DEF FirstEntry
  <2>3. Mirror(<<>>, shown, 0)
    BY DEF Mirror
  <2>4. At(after[0], F, shown, 0)
    BY <1>5, <1>6, <2>1, <2>2, <2>3, Zenon DEF At
  <2> QED BY <2>1, <2>4, Zenon
<1>9. ASSUME NEW j \in 0 .. N - 1, j \in S PROVE j + 1 \in S
  <2>1. j + 1 \in 1 .. N /\ j + 1 \in 0 .. N /\ (j + 1) - 1 = j /\ j \in 0 .. N /\ j \in 0 .. j + 1
    OBVIOUS
  <2>2. CASE F[j + 1] <= h
    <3>1. F[j] \in Nat /\ F[j + 1] \in Nat /\ F[j] <= F[j + 1]
      BY <1>3, <2>1, Zenon
    <3>2. F[j] <= h
      BY <2>2, <3>1
    <3>3. At(after[(j + 1) - 1], F, shown, (j + 1) - 1)
      BY <1>9, <2>1, <3>2, Zenon
    <3>4. At(after[j + 1], F, shown, j + 1)
      BY <1>7, <2>1, <2>2, <3>3, Zenon
    <3> QED BY <2>1, <3>4, Zenon
  <2> QED BY <2>1, <2>2, Zenon
<1>10. 0 .. N \subseteq S
  <2> HIDE DEF S
  <2> QED BY <1>8, <1>9, UpTo
<1>11. \A j \in 0 .. N : F[j] <= h => At(after[j], F, shown, j)
  BY <1>10, Zenon
<1> HIDE DEF S
<1>12. ASSUME NEW j \in 1 .. N, F[j - 1] <= h, ~(F[j] <= h) PROVE after[j].raised # "no"
  <2>1. j - 1 \in 0 .. N
    OBVIOUS
  <2>2. At(after[j - 1], F, shown, j - 1)
    BY <1>11, <1>12, <2>1, Zenon
  <2> QED BY <1>7, <1>12, <2>2, Zenon
<1> QED BY <1>1, <1>4, <1>11, <1>12, Zenon

(* The list that is read is the one that was written.                      *)
ReadAs(p, n, shown) == p.raised = "no" /\ p.count = n /\ Mirror(p.members, shown, Len(shown))

(* parse_world_list undoes what the server does: it gives the count and the*)
(* members, in their order.                                                *)
LEMMA WholeRead ==
    ASSUME NEW n, Word(n), NEW shown, Named(shown), Word(Len(shown))
    PROVE  ReadAs(ParseWorldList(WorldListBody(n, shown)), n, shown)
<1>1. PICK D : D = WorldListBody(n, shown)
  OBVIOUS
<1>2. PICK F : Laid(D, F, n, shown)
  BY <1>1, BodyLaid, Zenon
<1>3. PICK N \in Nat : N = Len(shown)
  BY DEF Named
<1>4. D \in Seq(Byte) /\ Len(D) = F[N] /\ Uint16(D, 1) = n /\ Uint16(D, 3) = N
  BY <1>2, <1>3, Zenon DEF Laid
<1>5. Opening(D, D)
  <2>1. Len(D) <= Len(D)
    BY <1>4
  <2> QED BY <1>4, <2>1, Zenon DEF Opening
<1>6. PICK after : Turns(D, N, after) /\ Entries(D, N) = after[N]
  BY <1>4, EntryLoop, Zenon DEF Turns
<1>7. N \in 0 .. N /\ \A k \in 1 .. N : Len(shown[k].name) \in Nat
  BY <1>3 DEF Named, Person
<1>8. F[N] \in Nat /\ 4 <= F[N]
  BY <1>2, <1>3, <1>7, LaidUp, Zenon
<1>9. F[N] <= Len(D) /\ ~(Len(D) < 4)
  BY <1>4, <1>8
<1>10. At(after[N], F, shown, N)
  BY <1>2, <1>3, <1>5, <1>6, <1>7, <1>9, TurnsReach, Zenon
<1>11. ParseWorldList(D) = [raised |-> after[N].raised, count |-> n, members |-> after[N].members]
  BY <1>4, <1>6, <1>9, Zenon DEF ParseWorldList
<1>12. ParseWorldList(D).raised = after[N].raised /\ ParseWorldList(D).count = n
       /\ ParseWorldList(D).members = after[N].members
  BY <1>11
<1> QED BY <1>1, <1>3, <1>10, <1>12, Zenon DEF At, ReadAs

(* A list without its last byte raises.                                    *)
LEMMA CutRead ==
    ASSUME NEW n, Word(n), NEW shown, Named(shown), Word(Len(shown)), NEW D, D = WorldListBody(n, shown)
    PROVE  ParseWorldList(SubSeq(D, 1, Len(D) - 1)).raised # "no"
<1>2. PICK F : Laid(D, F, n, shown)
  BY BodyLaid, Zenon
<1>3. PICK N \in Nat : N = Len(shown)
  BY DEF Named
<1>4. D \in Seq(Byte) /\ Len(D) = F[N] /\ Uint16(D, 3) = N /\ F[0] = 4
  BY <1>2, <1>3, Zenon DEF Laid
<1>5. /\ N \in 0 .. N
      /\ \A k \in 1 .. N : Len(shown[k].name) \in Nat
  BY <1>3 DEF Named, Person
<1>6. F[N] \in Nat /\ 4 <= F[N]
  BY <1>2, <1>3, <1>5, LaidUp, Zenon
<1>7. PICK h \in Nat : Len(D) = h + 1 /\ h = Len(D) - 1
  BY <1>4, <1>6
<1>8. PICK data : data = SubSeq(D, 1, Len(D) - 1)
  OBVIOUS
<1>9. data \in Seq(Byte) /\ Len(data) = h /\ \A i \in 1 .. h : data[i] = D[i]
  <2>1. h <= Len(D) /\ 0 + 1 = 1 /\ 0 + h = h /\ 0 + h <= Len(D) /\ \A i \in 1 .. h : 0 + i = i
    BY <1>7
  <2>2. 0 \in Nat
    OBVIOUS
  <2>3. SubSeq(D, 0 + 1, 0 + h) \in Seq(Byte) /\ Len(SubSeq(D, 0 + 1, 0 + h)) = h
        /\ \A i \in 1 .. h : SubSeq(D, 0 + 1, 0 + h)[i] = D[0 + i]
    BY <1>4, <2>1, <2>2, PartOf, Zenon
  <2> QED BY <1>7, <1>8, <2>1, <2>3, Zenon
<1>10. Opening(data, D)
  <2>1. h <= Len(D)
    BY <1>7
  <2> QED BY <1>4, <1>9, <2>1, Zenon DEF Opening
<1>11. CASE Len(data) < 4
  <2>1. ParseWorldList(data).raised = "ValueError"
    BY <1>11 DEF ParseWorldList
  <2> QED BY <1>8, <2>1
<1>12. CASE ~(Len(data) < 4)
  <2>1. 4 <= h /\ 1 <= N
    <3>1. 4 <= h
      BY <1>9, <1>12
    <3>2. N # 0
      <4>1. N = 0 => Len(D) = 4
        BY <1>4, Zenon
      <4>2. Len(D) # 4
        BY <1>7, <3>1
      <4> QED BY <4>1, <4>2
    <3> QED BY <3>1, <3>2
  <2>2. Uint16(data, 3) = N
    <3>1. 3 \in 1 .. h /\ 4 \in 1 .. h /\ 3 + 1 = 4
      BY <2>1
    <3>2. Uint16(data, 3) = data[3] * 256 + data[4] /\ Uint16(D, 3) = D[3] * 256 + D[4]
      BY DEF Uint16
    <3>3. data[3] = D[3] /\ data[4] = D[4]
      BY <1>9, <3>1, Zenon
    <3> QED BY <1>4, <3>2, <3>3
  <2>3. PICK after : Turns(data, N, after) /\ Entries(data, N) = after[N]
    BY <1>9, EntryLoop, Zenon DEF Turns
  <2>4. N \in 1 .. N /\ N - 1 \in 0 .. N
    BY <2>1
  <2>5. F[N] = F[N - 1] + (6 + Len(shown[N].name))
    BY <1>2, <1>3, <2>4, Zenon DEF Laid
  <2>6. F[N - 1] <= h /\ ~(F[N] <= h)
    <3>1. F[N - 1] \in Nat
      BY <1>2, <1>3, <1>5, <2>4, LaidUp, Zenon
    <3>2. PICK e \in Nat, l \in Nat, f \in Nat : e = F[N - 1] /\ l = Len(shown[N].name) /\ f = F[N]
      BY <1>5, <1>6, <2>4, <3>1, Zenon
    <3>3. f = e + (6 + l) /\ f = h + 1
      BY <1>4, <1>7, <2>5, <3>2, Zenon
    <3>4. e <= h /\ ~(f <= h)
      BY <3>3
    <3> QED BY <3>2, <3>4, Zenon
  <2>7. after[N].raised # "no"
    BY <1>2, <1>3, <1>9, <1>10, <2>3, <2>4, <2>6, TurnsReach, Zenon
  <2>8. ParseWorldList(data).raised = after[N].raised
    <3>1. ParseWorldList(data) = [raised |-> after[N].raised, count |-> Uint16(data, 1),
                                  members |-> after[N].members]
      BY <1>12, <2>2, <2>3, Zenon DEF ParseWorldList
    <3> QED BY <3>1
  <2> QED BY <1>8, <2>7, <2>8, Zenon
<1> QED BY <1>11, <1>12
-----------------------------------------------------------------------------
(* SampleCountsOthers, of one row                                          *)
Tells(counts, world) ==
    /\ counts["total"] = Cardinality(OthersIn(world))
    /\ counts["active"] = Cardinality({k \in OthersIn(world) : world[k].status # 2 /\ world[k].status # 5})
    /\ \A c \in 1 .. 6 :
         counts[Columns[c]] = Cardinality({k \in OthersIn(world) : world[k].class = c - 1})

OneToOne(g, S, T) ==
    /\ IsFiniteSet(S) /\ g \in [S -> T]
    /\ \A i, j \in S : g[i] = g[j] => i = j
    /\ \A x \in T : \E i \in S : g[i] = x

(* g takes the entries that are counted to the people they are of.         *)
Pairs(g, S, T, members, world) ==
    /\ OneToOne(g, S, T)
    /\ \A i \in S : members[i].status = world[g[i]].status /\ members[i].class = world[g[i]].class

Matched(g, S, T, A, B) ==
    OneToOne(g, S, T) /\ A \in SUBSET S /\ B \in SUBSET T /\ \A i \in S : i \in A <=> g[i] \in B

(* Which of the entries in S are active, and of a class                    *)
ActiveOf(members, S)   == {i \in S : members[i].status \notin AFK}
ClassOf(members, S, c) == {i \in S : ClassName(members[i].class) = Columns[c]}

(* Matched sets have as many elements.                                     *)
LEMMA SameSize ==
    ASSUME NEW g, NEW S, NEW T, NEW A, NEW B, Matched(g, S, T, A, B)
    PROVE  Cardinality(A) = Cardinality(B)
<1> DEFINE f == [i \in A |-> g[i]]
<1> USE DEF Matched, OneToOne
<1>1. f \in [A -> B] /\ \A i \in A : f[i] = g[i]
  OBVIOUS
<1> HIDE DEF f
<1>2. \A i, j \in A : f[i] = f[j] => i = j
  BY <1>1
<1>3. \A x \in B : \E i \in A : f[i] = x
  BY <1>1
<1>4. f \in Bijection(A, B)
  BY <1>1, <1>2, <1>3 DEF Bijection, Injection, Surjection, IsInjective
<1>5. IsFiniteSet(A) /\ ExistsBijection(A, B)
  BY <1>4, FS_Subset DEF ExistsBijection
<1> QED BY <1>5, FS_Bijection

(* Each of the six columns is of one class.                                *)
LEMMA ClassNames ==
    /\ \A k \in 0 .. 7, c \in 1 .. 6 : ClassName(k) = Columns[c] <=> k = c - 1
    /\ \A c \in 1 .. 6 : Columns[c] \in Fields /\ Columns[c] # "total" /\ Columns[c] # "active"
    /\ "total" \in Fields /\ "active" \in Fields
<1>1. /\ Columns[1] = "peasant" /\ Columns[2] = "warrior" /\ Columns[3] = "rogue"
      /\ Columns[4] = "wizard" /\ Columns[5] = "priest" /\ Columns[6] = "monk"
  BY DEF Columns
<1>2. ASSUME NEW k \in 0 .. 7, NEW c \in 1 .. 6 PROVE ClassName(k) = Columns[c] <=> k = c - 1
  <2>1. \A a, b \in 1 .. 6 : Columns[a] = Columns[b] => a = b
    <3>1. ASSUME NEW a \in 1 .. 6, NEW b \in 1 .. 6, Columns[a] = Columns[b] PROVE a = b
      <4>1. a = 1 \/ a = 2 \/ a = 3 \/ a = 4 \/ a = 5 \/ a = 6
        OBVIOUS
      <4>2. b = 1 \/ b = 2 \/ b = 3 \/ b = 4 \/ b = 5 \/ b = 6
        OBVIOUS
      <4> QED BY <1>1, <3>1, <4>1, <4>2
    <3> QED BY <3>1
  <2>2. \A a \in 1 .. 6 : Columns[a] # "unknown"
    <3>1. ASSUME NEW a \in 1 .. 6 PROVE Columns[a] # "unknown"
      <4>1. a = 1 \/ a = 2 \/ a = 3 \/ a = 4 \/ a = 5 \/ a = 6
        OBVIOUS
      <4> QED BY <1>1, <4>1
    <3> QED BY <3>1
  <2>3. CASE k < 6
    <3>1. ClassName(k) = Columns[k + 1] /\ k + 1 \in 1 .. 6
      BY <2>3 DEF ClassName
    <3>2. ClassName(k) = Columns[c] <=> k + 1 = c
      BY <2>1, <3>1
    <3> QED BY <3>2
  <2>4. CASE ~(k < 6)
    <3>1. ClassName(k) = "unknown" /\ ~(k = c - 1)
      BY <2>4 DEF ClassName
    <3> QED BY <2>2, <3>1
  <2> QED BY <2>3, <2>4
<1>3. ASSUME NEW c \in 1 .. 6
      PROVE  Columns[c] \in Fields /\ Columns[c] # "total" /\ Columns[c] # "active"
  <2>1. c = 1 \/ c = 2 \/ c = 3 \/ c = 4 \/ c = 5 \/ c = 6
    OBVIOUS
  <2>2. Columns[c] # "total" /\ Columns[c] # "active"
    BY <1>1, <2>1
  <2>3. Columns[c] \in Fields
    BY DEF Fields, ClassFields
  <2> QED BY <2>2, <2>3
<1>4. "total" \in Fields /\ "active" \in Fields
  BY DEF Fields
<1> QED BY <1>2, <1>3, <1>4

(* from_world_list, in cardinalities                                       *)
LEMMA CountedAre ==
    ASSUME NEW l \in ListSet, NEW S, S = Without(l.members, Probe), NEW c \in 1 .. 6
    PROVE  /\ FromWorldList(l, Probe)["total"] = Others(l.count)
           /\ FromWorldList(l, Probe)["active"] = Cardinality(ActiveOf(l.members, S))
           /\ FromWorldList(l, Probe)[Columns[c]] = Cardinality(ClassOf(l.members, S, c))
<1> DEFINE value(f) == CASE f = "total"  -> Others(l.count)
             [] f = "active" -> Cardinality({i \in S : l.members[i].status \notin AFK})
             [] OTHER        -> Cardinality({i \in S : ClassName(l.members[i].class) = f})
           counts == FromWorldList(l, Probe)
<1>1. counts = [f \in Fields |-> value(f)]
  BY ProbeAssumption DEF FromWorldList
<1>2. value("total") = Others(l.count)
      /\ value("active") = Cardinality({i \in S : l.members[i].status \notin AFK})
  OBVIOUS
<1>3. value(Columns[c]) = Cardinality({i \in S : ClassName(l.members[i].class) = Columns[c]})
  BY ClassNames
<1> HIDE DEF value, counts
<1>4. counts["total"] = value("total") /\ counts["active"] = value("active")
      /\ counts[Columns[c]] = value(Columns[c])
  BY <1>1, ClassNames
<1> QED BY <1>2, <1>3, <1>4, Zenon DEF counts, ActiveOf, ClassOf
-----------------------------------------------------------------------------
(* WorldAssumption, and others are one less than all                       *)
LEMMA WorldOthers ==
    ASSUME NEW world \in Worlds
    PROVE  /\ world \in Seq(Person) /\ Named(world) /\ Word(Len(world))
           /\ OthersIn(world) \in SUBSET DOMAIN world /\ IsFiniteSet(OthersIn(world))
           /\ Cardinality(OthersIn(world)) = Others(Len(world))
           /\ \A i \in DOMAIN world : world[i].own <=> IsProbe(world[i].name, Probe)
<1>1. /\ world \in Seq(Person) /\ Len(world) \in Nat
      /\ \A i \in DOMAIN world : world[i].own <=> IsProbe(world[i].name, Probe)
  BY WorldAssumption DEF IsProbe
<1>2. Named(world) /\ Word(Len(world))
  BY WorldAssumption DEF Named, Word
<1>3. OthersIn(world) \in SUBSET DOMAIN world
  BY DEF OthersIn
<1>4. IsFiniteSet(OthersIn(world)) /\ Cardinality(OthersIn(world)) \in Nat
  <2>1. IsFiniteSet(OthersIn(world))
    BY <1>1, <1>3, ThoseType
  <2> QED BY <2>1, FS_CardinalityType
<1>5. Cardinality(OthersIn(world)) = Others(Len(world))
  <2>1. CASE world = <<>>
    <3>1. OthersIn(world) = {} /\ Len(world) = 0
      BY <2>1 DEF OthersIn
    <3>2. Cardinality(OthersIn(world)) = 0
      BY <3>1, FS_EmptySet
    <3> QED BY <3>1, <3>2 DEF Others
  <2>2. CASE world # <<>>
    <3>1. Cardinality(OthersIn(world)) = Len(world) - 1
      BY <2>2, WorldAssumption
    <3>2. Len(world) > 0
      BY <1>1, <2>2
    <3> QED BY <3>1, <3>2 DEF Others
  <2> QED BY <2>1, <2>2
<1> QED BY <1>1, <1>2, <1>3, <1>4, <1>5

(* If the counted entries are of the others, one of each, then the sample  *)
(* tells of them.                                                          *)
LEMMA PairedTells ==
    ASSUME NEW world \in Worlds, NEW l \in ListSet, l.count = Len(world), NEW S, S = Without(l.members, Probe),
           NEW g, Pairs(g, S, OthersIn(world), l.members, world)
    PROVE  Tells(FromWorldList(l, Probe), world)
<1> DEFINE T == OthersIn(world)
           counts == FromWorldList(l, Probe)
<1>1. T \in SUBSET DOMAIN world /\ Cardinality(T) = Others(Len(world)) /\ world \in Seq(Person)
  BY WorldOthers
<1>2. \A i \in S : i \in DOMAIN l.members
  BY DEF Without
<1>3. l.members \in Seq(MemberSet)
  BY DEF ListSet
<1>4. \A i \in S : l.members[i].class \in 0 .. 7
  <2>1. \A i \in S : l.members[i] \in MemberSet
    BY <1>2, <1>3
  <2>2. \A m \in MemberSet : m.class \in 0 .. 7
    BY DEF MemberSet
  <2> QED BY <2>1, <2>2, Zenon
<1> HIDE DEF T, counts
<1>5. /\ OneToOne(g, S, T) /\ \A i \in S : g[i] \in T
      /\ \A i \in S : l.members[i].status = world[g[i]].status /\ l.members[i].class = world[g[i]].class
  <2>1. OneToOne(g, S, T)
    BY Zenon DEF Pairs, T
  <2> QED BY <2>1, Zenon DEF Pairs, OneToOne
<1>6. counts["total"] = Cardinality(T)
  <2>1. 1 \in 1 .. 6
    OBVIOUS
  <2>2. counts["total"] = Others(l.count)
    BY <2>1, CountedAre DEF counts
  <2> QED BY <1>1, <2>2
<1>7. counts["active"] = Cardinality({k \in T : world[k].status # 2 /\ world[k].status # 5})
  <2> DEFINE A == ActiveOf(l.members, S)
             B == {k \in T : world[k].status # 2 /\ world[k].status # 5}
  <2>1. counts["active"] = Cardinality(A)
    <3>1. 1 \in 1 .. 6
      OBVIOUS
    <3> QED BY <3>1, CountedAre DEF counts
  <2>2. A \in SUBSET S /\ B \in SUBSET T
    BY DEF ActiveOf, ClassOf
  <2>3. ASSUME NEW i \in S PROVE i \in A <=> g[i] \in B
    <3>1. g[i] \in T /\ l.members[i].status = world[g[i]].status
      BY <1>5
    <3> QED BY <3>1 DEF AFK, ActiveOf
  <2> HIDE DEF A, B
  <2>4. Cardinality(A) = Cardinality(B)
    <3>1. Matched(g, S, T, A, B)
      BY <1>5, <2>2, <2>3, Zenon DEF Matched
    <3> QED BY <3>1, SameSize
  <2> QED BY <2>1, <2>4 DEF B
<1>8. ASSUME NEW c \in 1 .. 6
      PROVE  counts[Columns[c]] = Cardinality({k \in T : world[k].class = c - 1})
  <2> DEFINE A == ClassOf(l.members, S, c)
             B == {k \in T : world[k].class = c - 1}
  <2>1. counts[Columns[c]] = Cardinality(A)
    BY CountedAre, Zenon DEF counts
  <2>2. A \in SUBSET S /\ B \in SUBSET T
    BY DEF ActiveOf, ClassOf
  <2>3. ASSUME NEW i \in S PROVE i \in A <=> g[i] \in B
    <3>1. g[i] \in T /\ l.members[i].class = world[g[i]].class
      BY <1>5
    <3>2. ClassName(l.members[i].class) = Columns[c] <=> l.members[i].class = c - 1
      BY <1>4, ClassNames
    <3> QED BY <3>1, <3>2 DEF ClassOf
  <2> HIDE DEF A, B
  <2>4. Cardinality(A) = Cardinality(B)
    <3>1. Matched(g, S, T, A, B)
      BY <1>5, <2>2, <2>3, Zenon DEF Matched
    <3> QED BY <3>1, SameSize
  <2> QED BY <2>1, <2>4 DEF B
<1> QED BY <1>6, <1>7, <1>8, Zenon DEF Tells, T, counts

(* They are: the tracker's entry is left out if it is there, and nobody    *)
(* else's.                                                                 *)
LEMMA ListPairs ==
    ASSUME NEW world \in Worlds, NEW shown \in Shown(world), NEW members, Mirror(members, shown, Len(shown))
    PROVE  \E g : Pairs(g, Without(members, Probe), OthersIn(world), members, world)
<1> DEFINE T == OthersIn(world)
           S == Without(members, Probe)
<1>1. /\ world \in Seq(Person) /\ T \in SUBSET DOMAIN world /\ IsFiniteSet(T)
      /\ \A i \in DOMAIN world : world[i].own <=> IsProbe(world[i].name, Probe)
  BY WorldOthers
<1>2. PICK N \in Nat : N = Len(shown)
  BY ShownType DEF Named
<1>3. members \in Seq(MemberSet) /\ Len(members) = N /\ \A i \in 1 .. N : Alike(members[i], shown[i])
  BY <1>2, Zenon DEF Mirror
<1>4. \A i : i \in S <=> i \in 1 .. N /\ ~IsProbe(shown[i].name, Probe)
  <2>1. ASSUME NEW i PROVE i \in S <=> i \in 1 .. N /\ ~IsProbe(members[i].name, Probe)
    BY <1>3 DEF Without
  <2>2. \A i \in 1 .. N : members[i].name = shown[i].name
    BY <1>3 DEF Alike
  <2> QED BY <2>1, <2>2
<1>5. \A i \in 1 .. N : members[i].status = shown[i].status /\ members[i].class = shown[i].class
  BY <1>3 DEF Alike
<1>6. \A i : i \in T <=> i \in DOMAIN world /\ ~world[i].own
  BY DEF OthersIn
<1> HIDE DEF S, T
<1>7. CASE shown = world
  <2>1. S = T
    <3>1. DOMAIN world = 1 .. N
      BY <1>1, <1>2, <1>7
    <3>2. ASSUME NEW i PROVE i \in S <=> i \in T
      BY <1>1, <1>4, <1>6, <1>7, <3>1
    <3> QED BY <3>2
  <2> DEFINE g == [i \in S |-> i]
  <2>2. g \in [S -> T] /\ \A i \in S : g[i] = i
    BY <2>1
  <2> HIDE DEF g
  <2>3. \A i \in S : i \in 1 .. N
    BY <1>4
  <2>4. Pairs(g, S, T, members, world)
    BY <1>1, <1>5, <1>7, <2>1, <2>2, <2>3 DEF Pairs, OneToOne
  <2> QED BY <2>4 DEF S, T
<1>8. CASE shown = Those(world, OthersIn(world))
  <2>1. /\ N = Cardinality(T) /\ T \in SUBSET Int
        /\ \A k \in 1 .. N : Nth(T, k) \in T /\ shown[k] = world[Nth(T, k)]
    <3>1. /\ Len(Those(world, T)) = Cardinality(T) /\ T \in SUBSET Int
          /\ \A k \in 1 .. Cardinality(T) : Nth(T, k) \in T /\ Those(world, T)[k] = world[Nth(T, k)]
      BY <1>1, ThoseType
    <3>2. shown = Those(world, T)
      BY <1>8 DEF T
    <3> QED BY <1>2, <3>1, <3>2
  <2>2. S = 1 .. N
    <3>1. ASSUME NEW k \in 1 .. N PROVE ~IsProbe(shown[k].name, Probe)
      <4>1. Nth(T, k) \in DOMAIN world /\ ~world[Nth(T, k)].own /\ shown[k] = world[Nth(T, k)]
        BY <1>6, <2>1
      <4> QED BY <1>1, <4>1
    <3> QED BY <1>4, <3>1
  <2>3. IsFiniteSet(S)
    BY <2>2, FS_Interval
  <2> DEFINE g == [k \in S |-> Nth(T, k)]
  <2>4. g \in [S -> T] /\ \A k \in S : g[k] = Nth(T, k)
    BY <2>1, <2>2
  <2> HIDE DEF g
  <2>5. ASSUME NEW i \in S, NEW j \in S, g[i] = g[j] PROVE i = j
    <3>1. i \in 1 .. Cardinality(T) /\ j \in 1 .. Cardinality(T) /\ Nth(T, i) = Nth(T, j) /\ Nth(T, i) \in Int
      BY <2>1, <2>2, <2>4, <2>5
    <3>2. i < j => Nth(T, i) < Nth(T, j)
      BY <1>1, <2>1, <3>1, NthUp
    <3>3. j < i => Nth(T, j) < Nth(T, i)
      BY <1>1, <2>1, <3>1, NthUp
    <3> QED BY <3>1, <3>2, <3>3
  <2>6. ASSUME NEW x \in T PROVE \E i \in S : g[i] = x
    <3>1. PICK k \in 1 .. Cardinality(T) : Nth(T, k) = x
      BY <1>1, <2>1, NthOnto
    <3>2. k \in S
      BY <2>1, <2>2, <3>1
    <3> QED BY <2>4, <3>1, <3>2
  <2>7. \A i \in S : members[i].status = world[g[i]].status /\ members[i].class = world[g[i]].class
    BY <1>5, <2>1, <2>2, <2>4
  <2>8. Pairs(g, S, T, members, world)
    BY <2>3, <2>4, <2>5, <2>6, <2>7, Zenon DEF Pairs, OneToOne
  <2> QED BY <2>8 DEF S, T
<1> QED BY <1>7, <1>8 DEF Shown

(* Whether or not the list names the tracker, its sample counts the others.*)
LEMMA ListTells ==
    ASSUME NEW world \in Worlds, NEW shown \in Shown(world), NEW l \in ListSet, l.count = Len(world),
           Mirror(l.members, shown, Len(shown))
    PROVE  Tells(FromWorldList(l, Probe), world)
<1>1. PICK g : Pairs(g, Without(l.members, Probe), OthersIn(world), l.members, world)
  BY ListPairs, Zenon
<1> QED BY <1>1, PairedTells
-----------------------------------------------------------------------------
(* The lists among some pieces have this body, whole or without its last   *)
(* byte.                                                                   *)
CutOff(body) == SubSeq(body, 1, Len(body) - 1)
Fitting(p, body) == p.opcode = WORLD_LIST => p.body = body \/ p.body = CutOff(body)
Offers(T, body)  == \A k \in 1 .. Len(T) : Fitting(T[k], body)
OfferSet(body)   == {p \in Pieced : Fitting(p, body)}

(* A list the server sends has that body.                                  *)
LEMMA ListOffered ==
    ASSUME NEW world \in Worlds, NEW shown \in Shown(world), NEW fault, NEW d \in DrawSet
    PROVE  ListPiece(world, shown, fault, d) \in OfferSet(WorldListBody(Len(world), shown))
<1>1. PICK body : body = WorldListBody(Len(world), shown)
  OBVIOUS
<1> DEFINE b == IF fault = "truncated" THEN CutOff(body) ELSE body
           piece == Piece(WORLD_LIST, b, (d.sequence + 1) % 256, d)
           p == ListPiece(world, shown, fault, d)
<1>2. p \in Pieced
  <2>1. world \in Worlds \cup {<<>>}
    OBVIOUS
  <2> QED BY <2>1, ListPieceType
<1>3. piece.body = b /\ (b = body \/ b = CutOff(body))
  BY DEF Piece
<1>4. p = IF fault = "signature" THEN Junk([piece.bytes EXCEPT ![1] = 0]) ELSE piece
  BY <1>1 DEF ListPiece, CutOff
<1> HIDE DEF b, piece, p
<1>5. Fitting(p, body)
  <2>1. CASE fault = "signature"
    <3>1. p.opcode = -1
      BY <1>4, <2>1 DEF Junk
    <3>2. -1 # WORLD_LIST
      BY DEF WORLD_LIST
    <3> QED BY <3>1, <3>2 DEF Fitting
  <2>2. CASE fault # "signature"
    <3>1. p = piece
      BY <1>4, <2>2
    <3> QED BY <1>3, <3>1 DEF Fitting
  <2> QED BY <2>1, <2>2
<1> QED BY <1>1, <1>2, <1>5 DEF OfferSet, p

(* Nothing else the server sends in a run is a list.                       *)
LEMMA PiecesOffered ==
    ASSUME NEW world \in Worlds, NEW shown \in Shown(world), NEW fault, NEW d \in DrawSet
    PROVE  /\ Pieces(world, shown, fault, d) \in Seq(Pieced)
           /\ Offers(Pieces(world, shown, fault, d), WorldListBody(Len(world), shown))
<1>0. PICK V : V = OfferSet(WorldListBody(Len(world), shown))
  OBVIOUS
<1>v. \A p : p \in V <=> p \in Pieced /\ Fitting(p, WorldListBody(Len(world), shown))
  BY <1>0 DEF OfferSet
<1>1. /\ Unhandled \in Byte /\ HEARTBEAT \in Byte /\ 0 \in Byte
      /\ <<7>> \in Seq(Byte) /\ <<3, 200>> \in Seq(Byte)
      /\ <<SIGNATURE, 0, 0>> \in Seq(Byte) /\ <<SIGNATURE, 0, 1, HEARTBEAT>> \in Seq(Byte)
      /\ <<0, 0, 0, 0>> \in Seq(Byte)
      /\ HEARTBEAT # WORLD_LIST /\ Unhandled # WORLD_LIST /\ -1 # WORLD_LIST
  BY DEF Byte, Unhandled, HEARTBEAT, SIGNATURE, WORLD_LIST
<1>2. d.sequence \in Byte
  BY DEF DrawSet
<1>3. ASSUME NEW p \in Pieced, p.opcode # WORLD_LIST PROVE p \in V
  BY <1>v, <1>3 DEF Fitting
<1>4. Piece(Unhandled, <<7>>, 0, d) \in V /\ Piece(HEARTBEAT, <<3, 200>>, d.sequence, d) \in V
  <2>1. Piece(Unhandled, <<7>>, 0, d) \in Pieced /\ Piece(HEARTBEAT, <<3, 200>>, d.sequence, d) \in Pieced
    BY <1>1, <1>2, PieceIsPieced
  <2>2. Piece(Unhandled, <<7>>, 0, d).opcode = Unhandled /\ Piece(HEARTBEAT, <<3, 200>>, d.sequence, d).opcode = HEARTBEAT
    BY DEF Piece
  <2> QED BY <1>1, <1>3, <2>1, <2>2
<1>5. ASSUME NEW bytes \in Seq(Byte) PROVE Junk(bytes) \in V
  <2>1. Junk(bytes) \in Pieced
    BY JunkIsPieced
  <2>2. Junk(bytes).opcode = -1
    BY DEF Junk
  <2> QED BY <1>1, <1>3, <2>1, <2>2
<1>a. /\ Junk(<<SIGNATURE, 0, 0>>) \in V /\ Junk(<<SIGNATURE, 0, 1, HEARTBEAT>>) \in V
      /\ Junk(<<0, 0, 0, 0>>) \in V
  BY <1>1, <1>5, Zenon
<1>6. ListPiece(world, shown, fault, d) \in V
  BY <1>0, ListOffered
<1> DEFINE first  == <<Piece(Unhandled, <<7>>, 0, d), Piece(HEARTBEAT, <<3, 200>>, d.sequence, d)>>
           second == CASE fault = "zero"  -> <<Junk(<<SIGNATURE, 0, 0>>)>>
                       [] fault = "short" -> <<Junk(<<SIGNATURE, 0, 1, HEARTBEAT>>)>>
                       [] OTHER           -> <<>>
           third  == <<ListPiece(world, shown, fault, d)>>
           fourth == IF fault = "trailing" THEN <<Junk(<<0, 0, 0, 0>>)>> ELSE <<>>
<1>7. first \in Seq(V)
  BY <1>4
<1>8. second \in Seq(V)
  <2>1. <<Junk(<<SIGNATURE, 0, 0>>)>> \in Seq(V) /\ <<Junk(<<SIGNATURE, 0, 1, HEARTBEAT>>)>> \in Seq(V)
        /\ <<>> \in Seq(V)
    BY <1>a
  <2> QED BY <2>1
<1>9. third \in Seq(V)
  BY <1>6
<1>10. fourth \in Seq(V)
  BY <1>a
<1>11. Pieces(world, shown, fault, d) = first \o second \o third \o fourth
  BY DEF Pieces
<1> HIDE DEF first, second, third, fourth
<1>12. PICK P : P = Pieces(world, shown, fault, d)
  OBVIOUS
<1>13. P \in Seq(V)
  <2>1. first \o second \in Seq(V)
    BY <1>7, <1>8, ConcatProperties
  <2>2. first \o second \o third \in Seq(V)
    BY <2>1, <1>9, ConcatProperties
  <2>3. first \o second \o third \o fourth \in Seq(V)
    BY <2>2, <1>10, ConcatProperties
  <2> QED BY <1>11, <1>12, <2>3
<1>14. \A k \in 1 .. Len(P) : P[k] \in V
  BY <1>13
<1>15. P \in Seq(Pieced)
  <2>1. \A k \in 1 .. Len(P) : P[k] \in Pieced
    BY <1>14, <1>v
  <2> QED BY <1>13, <2>1
<1>16. Offers(P, WorldListBody(Len(world), shown))
  BY <1>14, <1>v, Zenon DEF Offers
<1> QED BY <1>12, <1>15, <1>16
-----------------------------------------------------------------------------
(* The list is there, and it was read from a body that a handler got.      *)
FoundIn(h, l) ==
    \E i \in 1 .. Len(h) :
      /\ h[i].opcode = WORLD_LIST /\ ParseWorldList(h[i].body).raised = "no"
      /\ l = [count |-> ParseWorldList(h[i].body).count, members |-> ParseWorldList(h[i].body).members]

FoundWhen(s) == s.phase = "list" => FoundIn(s.handled, s.list)

(* The list comes from the frame that ends the reading.                    *)
LEMMA DispatchFound ==
    ASSUME NEW s \in DispatchStates, NEW f \in FrameSet, FoundWhen(s)
    PROVE  FoundWhen(Dispatch(s, f))
<1> DEFINE body  == ClientDecrypt(f.body, f.opcode, f.sequence)
           entry == [opcode |-> f.opcode, body |-> body]
           found == ParseWorldList(body)
           t == Dispatch(s, f)
<1>1. /\ s.phase \in {"reading", "list", "raised"} /\ s.handled \in Seq(HandledSet)
      /\ s.said \in Seq(Seq(Byte)) /\ s.list \in ListSet
      /\ s = [phase |-> s.phase, handled |-> s.handled, said |-> s.said, list |-> s.list]
  BY DEF DispatchStates
<1>a. ASSUME t = [s EXCEPT !.phase = "raised"] PROVE t.phase # "list"
  BY <1>1, <1>a
<1>2. CASE s.phase # "reading" \/ f.opcode \notin Handlers
  <2>1. t = s
    BY <1>2 DEF Dispatch
  <2> QED BY <2>1
<1>3. CASE s.phase = "reading" /\ f.opcode \in Handlers /\ TooShort(f.body, f.opcode)
  <2>1. t = [s EXCEPT !.phase = "raised"]
    BY <1>3 DEF Dispatch
  <2> QED BY <1>a, <2>1 DEF FoundWhen
<1>4. CASE s.phase = "reading" /\ f.opcode \in Handlers /\ ~TooShort(f.body, f.opcode) /\ f.opcode = HEARTBEAT
  <2>1. CASE ParseHeartbeat(body).raised # "no"
    <3>1. t = [s EXCEPT !.phase = "raised"]
      BY <1>4, <2>1 DEF Dispatch
    <3> QED BY <1>a, <3>1 DEF FoundWhen
  <2>2. CASE ParseHeartbeat(body).raised = "no"
    <3>1. t = [s EXCEPT !.handled = Append(@, entry),
                        !.said = Send(HEARTBEAT_RESPONSE, HeartbeatResponse(body), @, draw)]
      BY <1>4, <2>2 DEF Dispatch
    <3> HIDE DEF entry, body
    <3>2. t.phase = s.phase
      BY <1>1, <3>1
    <3> QED BY <1>4, <3>2 DEF FoundWhen
  <2> QED BY <2>1, <2>2
<1>5. CASE s.phase = "reading" /\ f.opcode \in Handlers /\ ~TooShort(f.body, f.opcode) /\ f.opcode # HEARTBEAT
  <2>0. f.opcode = WORLD_LIST
    BY <1>5 DEF Handlers
  <2>1. CASE found.raised # "no"
    <3>1. t = [s EXCEPT !.phase = "raised"]
      BY <1>5, <2>1 DEF Dispatch
    <3> QED BY <1>a, <3>1 DEF FoundWhen
  <2>2. CASE found.raised = "no"
    <3> DEFINE l == [count |-> found.count, members |-> found.members]
    <3>1. t = [s EXCEPT !.phase = "list", !.handled = Append(@, entry), !.list = l]
      BY <1>5, <2>2 DEF Dispatch
    <3>2. entry.opcode = WORLD_LIST /\ entry.body = body
      BY <2>0
    <3> HIDE DEF entry, l
    <3>3. t.handled = Append(s.handled, entry) /\ t.list = l
      BY <1>1, <3>1
    <3>4. PICK n \in Nat : n = Len(s.handled) + 1
      BY <1>1
    <3>h. PICK h : h = Append(s.handled, entry)
      OBVIOUS
    <3>5. Len(h) = n /\ h[n] = entry /\ n \in 1 .. Len(h)
      BY <1>1, <3>4, <3>h
    <3>6. /\ h[n].opcode = WORLD_LIST /\ ParseWorldList(h[n].body).raised = "no"
          /\ l = [count |-> ParseWorldList(h[n].body).count, members |-> ParseWorldList(h[n].body).members]
      BY <2>2, <3>2, <3>5, Zenon DEF l
    <3>7. FoundIn(h, l)
      BY <3>5, <3>6, Zenon DEF FoundIn
    <3> QED BY <3>3, <3>h, <3>7, Zenon DEF FoundWhen
  <2> QED BY <2>1, <2>2
<1> QED BY <1>1, <1>2, <1>3, <1>4, <1>5

(* And so it does after all frames of a read.                              *)
LEMMA DispatchedFound ==
    ASSUME NEW frames \in Seq(FrameSet), ReadingNow \in DispatchStates, draw \in DrawSet, DigestIsBytes
    PROVE  FoundWhen(Dispatched(frames))
<1>1. PICK after \in [0 .. Len(frames) -> DispatchStates] :
        /\ after[0] = ReadingNow
        /\ \A k \in 1 .. Len(frames) : after[k] = Dispatch(after[k - 1], frames[k])
        /\ Dispatched(frames) = after[Len(frames)]
  BY DispatchLoop
<1>2. PICK m \in Nat : m = Len(frames)
  OBVIOUS
<1> DEFINE S == {k \in 0 .. m : FoundWhen(after[k])}
<1>3. 0 \in S
  <2>1. ReadingNow.phase = "reading"
    BY DEF ReadingNow
  <2>2. FoundWhen(ReadingNow)
    BY <2>1 DEF FoundWhen
  <2>3. 0 \in 0 .. m
    OBVIOUS
  <2> QED BY <1>1, <2>2, <2>3, Zenon
<1>4. ASSUME NEW k \in 0 .. m - 1, k \in S PROVE k + 1 \in S
  <2>1. k + 1 \in 1 .. m /\ k + 1 \in 0 .. m /\ (k + 1) - 1 = k /\ k \in 0 .. m
    OBVIOUS
  <2>2. frames[k + 1] \in FrameSet /\ after[k] \in DispatchStates
    BY <1>2, <2>1
  <2>3. after[k + 1] = Dispatch(after[k], frames[k + 1])
    BY <1>1, <1>2, <2>1, Zenon
  <2>4. FoundWhen(after[k])
    BY <1>4
  <2>5. FoundWhen(Dispatch(after[k], frames[k + 1]))
    BY <2>2, <2>4, DispatchFound
  <2> QED BY <2>1, <2>3, <2>5, Zenon
<1>5. 0 .. m \subseteq S
  <2> HIDE DEF S
  <2> QED BY <1>3, <1>4, UpTo
<1>6. m \in 0 .. m
  OBVIOUS
<1> QED BY <1>1, <1>2, <1>5, <1>6, Zenon
-----------------------------------------------------------------------------
Offered(T, world) ==
    T \in Seq(Sayings) /\ \E shown \in Shown(world) : Offers(T, WorldListBody(Len(world), shown))

(* Rows and who was online                                                 *)
Witnessed ==
    /\ \A s \in seen : \E i \in 1 .. Len(rows) : rows[i].at = s.at
    /\ \A i \in 1 .. Len(rows) : \A s \in seen : s.at = rows[i].at => Tells(rows[i].counts, s.online)
    /\ phase # "idle" => online \in Worlds /\ Offered(told, online)
    /\ phase = "list" => FoundIn(handled, list)

(* What the handlers got, the server sent.                                 *)
LEMMA HandledOffered ==
    ASSUME NEW T \in Seq(Sayings), NEW a, NEW body, Offers(T, body), NEW h \in Seq(HandledSet),
           Prefix(h, Due(T, a)), NEW i \in 1 .. Len(h)
    PROVE  Fitting(h[i], body)
<1>1. PICK S : S = DueSet(T, a)
  OBVIOUS
<1>2. S \in SUBSET DOMAIN T
  BY <1>1 DEF DueSet
<1>3. PICK s : s = Those(T, S)
  OBVIOUS
<1>4. s \in Seq(Sayings) /\ Len(s) = Cardinality(S)
      /\ \A k \in 1 .. Cardinality(S) : Nth(S, k) \in S /\ s[k] = T[Nth(S, k)]
  BY <1>2, <1>3, ThoseType
<1>5. Due(T, a) = Contents(s)
  BY <1>1, <1>3 DEF Due
<1>6. Contents(s) \in Seq({EntryOf(x) : x \in Sayings}) /\ Len(Contents(s)) = Len(s)
      /\ \A k \in 1 .. Len(s) : Contents(s)[k] = EntryOf(s[k])
  BY <1>4, ContentsIs
<1>7. PICK c : c = Contents(s)
  OBVIOUS
<1>8. PICK m \in Nat, n \in Nat : m = Len(h) /\ n = Len(c)
  BY <1>6, <1>7
<1>9. m <= n /\ h = SubSeq(c, 1, m)
  BY <1>5, <1>7, <1>8 DEF Prefix
<1>10. h[i] = c[i] /\ i \in 1 .. n
  <2> DEFINE X == {EntryOf(x) : x \in Sayings}
  <2>1. c \in Seq(X)
    BY <1>6, <1>7
  <2> HIDE DEF X
  <2>2. i \in 1 .. m
    BY <1>8
  <2>3. SubSeq(c, 1, m)[i] = c[i]
    BY <1>8, <1>9, <2>1, <2>2
  <2> QED BY <1>8, <1>9, <2>2, <2>3
<1>11. i \in 1 .. Len(s)
  BY <1>6, <1>7, <1>8, <1>10
<1>12. Nth(S, i) \in 1 .. Len(T) /\ s[i] = T[Nth(S, i)]
  BY <1>2, <1>4, <1>11
<1>13. h[i] = EntryOf(T[Nth(S, i)])
  BY <1>6, <1>7, <1>10, <1>11, <1>12, Zenon
<1>14. Fitting(T[Nth(S, i)], body)
  BY <1>12, Zenon DEF Offers
<1>15. h[i].opcode = T[Nth(S, i)].opcode /\ h[i].body = T[Nth(S, i)].body
  BY <1>13 DEF EntryOf
<1> QED BY <1>14, <1>15 DEF Fitting

(* So the list that a run ends with is the one that was sent, whole, and   *)
(* its sample counts who is online.                                        *)
LEMMA FoundTells ==
    ASSUME DataInv, Sent, Witnessed, phase = "list"
    PROVE  Tells(FromWorldList(list, Probe), online)
<1>1. PICK w \in Worlds : w = online
  BY DEF Witnessed
<1>2. told \in Seq(Sayings)
  BY DEF Witnessed, Offered
<1>3. PICK shown \in Shown(w) : Offers(told, WorldListBody(Len(w), shown))
  BY <1>1 DEF Witnessed, Offered
<1>4. PICK body : body = WorldListBody(Len(w), shown)
  OBVIOUS
<1>5. PICK i \in 1 .. Len(handled) :
        /\ handled[i].opcode = WORLD_LIST /\ ParseWorldList(handled[i].body).raised = "no"
        /\ list = [count |-> ParseWorldList(handled[i].body).count,
                   members |-> ParseWorldList(handled[i].body).members]
  BY Zenon DEF Witnessed, FoundIn
<1>6. Fitting(handled[i], body)
  <2>1. handled \in Seq(HandledSet)
    BY DEF DataInv, Typed
  <2>2. Prefix(handled, Due(told, arrived))
    BY Zenon DEF Sent
  <2> QED BY <1>2, <1>3, <1>4, <2>1, <2>2, HandledOffered
<1>7. Word(Len(w)) /\ Named(shown) /\ Word(Len(shown))
  <2>1. Word(Len(w)) /\ w \in Seq(Person) /\ OthersIn(w) \in SUBSET DOMAIN w
    BY WorldOthers
  <2>2. Named(shown)
    <3>1. w \in Worlds \cup {<<>>}
      OBVIOUS
    <3> QED BY <3>1, ShownType
  <2>3. Word(Len(shown))
    <3>1. CASE shown = w
      BY <2>1, <3>1
    <3>2. CASE shown = Those(w, OthersIn(w))
      <4>1. Len(shown) \in 0 .. Len(w)
        BY <2>1, <3>2, ThoseType
      <4> QED BY <2>1, <4>1 DEF Word
    <3> QED BY <3>1, <3>2 DEF Shown
  <2> QED BY <2>1, <2>2, <2>3
<1>8. ParseWorldList(CutOff(body)).raised # "no"
  BY <1>4, <1>7, CutRead DEF CutOff
<1>9. handled[i].body = body
  BY <1>5, <1>6, <1>8 DEF Fitting
<1>10. ReadAs(ParseWorldList(body), Len(w), shown)
  BY <1>4, <1>7, WholeRead, Zenon
<1>11. list.count = Len(w) /\ Mirror(list.members, shown, Len(shown))
  <2>1. list.count = ParseWorldList(body).count /\ list.members = ParseWorldList(body).members
    BY <1>5, <1>9
  <2> QED BY <1>10, <2>1, Zenon DEF ReadAs
<1>12. list \in ListSet
  BY DEF DataInv, Typed
<1>13. Tells(FromWorldList(list, Probe), w)
  BY <1>11, <1>12, ListTells
<1> QED BY <1>1, <1>13
-----------------------------------------------------------------------------
(* The invariant holds at first: nobody has been seen.                     *)
LEMMA WitnessedInit == DataInit => Witnessed
<1> SUFFICES ASSUME DataInit PROVE Witnessed
  OBVIOUS
<1>1. seen = {} /\ phase = "idle"
  BY DEF DataInit
<1> QED BY <1>1 DEF Witnessed

(* What a server that sends the pieces P tells                             *)
Saying(P, S) == [k \in DOMAIN P |-> [opcode |-> P[k].opcode, body |-> P[k].body, end |-> Len(S[k])]]

(* The pieces as they are told                                             *)
LEMMA SayingOffers ==
    ASSUME NEW P \in Seq(Pieced), NEW S, S \in [0 .. Len(P) -> Seq(Byte)], NEW body, Offers(P, body)
    PROVE  Saying(P, S) \in Seq(Sayings) /\ Offers(Saying(P, S), body)
<1>1. PICK T, n \in Nat : T = Saying(P, S) /\ n = Len(P)
  OBVIOUS
<1>2. DOMAIN P = 1 .. n
  BY <1>1
<1>3. ASSUME NEW k \in 1 .. n
      PROVE  /\ P[k].opcode \in Byte \cup {-1} /\ P[k].body \in Seq(Byte) /\ Len(S[k]) \in Nat
             /\ [opcode |-> P[k].opcode, body |-> P[k].body, end |-> Len(S[k])] \in Sayings
  <2>1. P[k] \in Pieced
    BY <1>1
  <2>2. P[k].opcode \in Byte \cup {-1} /\ P[k].body \in Seq(Byte)
    BY <2>1 DEF Pieced
  <2>3. S[k] \in Seq(Byte)
    <3>1. k \in 0 .. Len(P)
      BY <1>1
    <3> QED BY <3>1
  <2>4. Len(S[k]) \in Nat
    BY <2>3
  <2> QED BY <2>2, <2>4 DEF Sayings
<1>4. T = [k \in 1 .. n |-> [opcode |-> P[k].opcode, body |-> P[k].body, end |-> Len(S[k])]]
  BY <1>1, <1>2 DEF Saying
<1>5. T \in [1 .. n -> Sayings]
  BY <1>3, <1>4
<1>6. T \in Seq(Sayings) /\ Len(T) = n
  BY <1>5
<1>7. ASSUME NEW k \in 1 .. Len(T) PROVE Fitting(T[k], body)
  <2>1. k \in 1 .. n /\ k \in 1 .. Len(P)
    BY <1>1, <1>6
  <2>2. T[k].opcode = P[k].opcode /\ T[k].body = P[k].body
    BY <1>4, <2>1
  <2>3. Fitting(P[k], body)
    BY <2>1 DEF Offers
  <2> QED BY <2>2, <2>3 DEF Fitting
<1> QED BY <1>1, <1>6, <1>7, Zenon DEF Offers

(* Ask: the server offers the list of who is online.                       *)
LEMMA WitnessedAsk == ASSUME DataInv, Witnessed, Ask PROVE Witnessed'
<1>1. PICK shown \in Shown(online'), d \in Draws, fault \in {"none"} \cup Faults : Request(shown, fault, d)
  BY DEF Ask
<1>2. online' \in Worlds
  BY DEF Ask
<1>3. d \in DrawSet
  BY DrawType
<1>4. PICK w \in Worlds : w = online'
  BY <1>2
<1>5. PICK P : P = Pieces(w, shown, fault, d)
  OBVIOUS
<1>6. phase' = "reading" /\ told' = Saying(P, Stream(P)) /\ rows' = rows /\ seen' = seen
  <2>1. PICK pieces \in {Pieces(online', shown, fault, d)} : \E stream \in {Stream(pieces)} :
          /\ phase' = "reading"
          /\ told' = [k \in DOMAIN pieces |-> [opcode |-> pieces[k].opcode, body |-> pieces[k].body,
                                               end |-> Len(stream[k])]]
          /\ UNCHANGED <<now, rows, seen, json, arrived, buffer, handled, list>>
    BY <1>1 DEF Request
  <2>2. pieces = P
    BY <1>4, <1>5
  <2> QED BY <2>1, <2>2 DEF Saying
<1>7. shown \in Shown(w)
  BY <1>4
<1>8. P \in Seq(Pieced) /\ Offers(P, WorldListBody(Len(w), shown))
  BY <1>3, <1>5, <1>7, PiecesOffered
<1>9. Offered(told', w)
  <2>1. Stream(P) \in [0 .. Len(P) -> Seq(Byte)]
    BY <1>8, StreamType
  <2>2. PICK T, body : T = Saying(P, Stream(P)) /\ body = WorldListBody(Len(w), shown)
    OBVIOUS
  <2>3. T \in Seq(Sayings) /\ Offers(T, body)
    BY <1>8, <2>1, <2>2, SayingOffers
  <2>4. Offered(T, w)
    BY <1>7, <2>2, <2>3, Zenon DEF Offered
  <2> QED BY <1>6, <2>2, <2>4, Zenon
<1>10. online' \in Worlds /\ Offered(told', online')
  BY <1>2, <1>4, <1>9, Zenon
<1>11. phase' # "list"
  BY <1>6
<1>12. /\ \A s \in seen' : \E i \in 1 .. Len(rows') : rows'[i].at = s.at
       /\ \A i \in 1 .. Len(rows') : \A s \in seen' : s.at = rows'[i].at => Tells(rows'[i].counts, s.online)
  BY <1>6, Zenon DEF Witnessed
<1> QED BY <1>10, <1>11, <1>12, Zenon DEF Witnessed

(* Read: a list that ends the reading was found in a frame.                *)
LEMMA WitnessedRead == ASSUME DataInv, Witnessed, Read, DigestIsBytes PROVE Witnessed'
<1>1. PICK n \in {k \in ChunkSizes : k < Len(wire)} \cup {Len(wire)} : Chunk(n)
  BY DEF Read
<1>2. phase = "reading" /\ rows' = rows /\ seen' = seen /\ online' = online /\ told' = told
  BY DEF Read
<1>3. PICK s, t : /\ s = Parsed(n) /\ t = Dispatched(s.frames)
                  /\ phase' = (IF s.raised # "no" THEN "raised" ELSE t.phase)
                  /\ handled' = t.handled /\ list' = t.list
  <2>1. PICK s \in {Parsed(n)} : \E t \in {Dispatched(s.frames)} :
          /\ phase' = (IF s.raised # "no" THEN "raised" ELSE t.phase)
          /\ handled' = t.handled /\ list' = t.list
    BY <1>1 DEF Chunk
  <2>2. s = Parsed(n)
    OBVIOUS
  <2> QED BY <2>1, <2>2
<1>4. PICK frames : frames = s.frames
  OBVIOUS
<1>5. frames \in Seq(FrameSet)
  <2>1. wire \in Seq(Byte) /\ buffer \in Seq(Byte) /\ n \in Nat /\ n <= Len(wire) /\ Len(wire) \in Nat
    BY BoundAssumption DEF DataInv, Typed
  <2>2. buffer \o SubSeq(wire, 1, n) \in Seq(Byte)
    <3>1. SubSeq(wire, 1, n) \in Seq(Byte)
      BY <2>1, SubBytes
    <3> QED BY <2>1, <3>1
  <2>3. PICK bytes \in Seq(Byte) : bytes = buffer \o SubSeq(wire, 1, n)
    BY <2>2
  <2>4. \E f \in [0 .. Len(bytes) -> ParseStates] : ParseFrames(bytes) = f[Len(bytes)]
    BY <2>3, ParseLoop
  <2>5. ParseFrames(bytes) \in ParseStates
    BY <2>3, <2>4
  <2> QED BY <1>3, <1>4, <2>3, <2>5 DEF Parsed, ParseStates
<1>6. FoundWhen(t)
  <2>1. ReadingNow \in DispatchStates
    BY DEF DataInv, Typed, ReadingNow, DispatchStates
  <2>2. draw \in DrawSet
    BY DrawTyped DEF DataInv
  <2>3. FoundWhen(Dispatched(frames))
    BY <1>5, <2>1, <2>2, DispatchedFound
  <2> QED BY <1>3, <1>4, <2>3, Zenon
<1>7. phase' = "list" => FoundIn(handled', list')
  <2>1. phase' = "list" => t.phase = "list"
    BY <1>3
  <2> QED BY <1>3, <1>6, <2>1, Zenon DEF FoundWhen
<1>8. online' \in Worlds /\ Offered(told', online')
  <2>1. phase # "idle"
    BY <1>2
  <2>2. online \in Worlds /\ Offered(told, online)
    BY <2>1, Zenon DEF Witnessed
  <2> QED BY <1>2, <2>2, Zenon
<1>9. /\ \A s1 \in seen' : \E i \in 1 .. Len(rows') : rows'[i].at = s1.at
      /\ \A i \in 1 .. Len(rows') : \A s1 \in seen' : s1.at = rows'[i].at => Tells(rows'[i].counts, s1.online)
  BY <1>2, Zenon DEF Witnessed
<1> QED BY <1>7, <1>8, <1>9, Zenon DEF Witnessed

(* One row more, of this time, and perhaps who was online                  *)
(* A row is of a time that no other row is of, so what the others tell     *)
(* stays as it is.                                                         *)
LEMMA WitnessedAppend ==
    ASSUME DataInv, Witnessed, phase # "idle", phase' = "idle",
           NEW counts, rows' = Append(rows, [at |-> now, counts |-> counts]),
           \/ seen' = seen
           \/ seen' = seen \cup {[at |-> now, online |-> online]} /\ Tells(counts, online)
    PROVE  Witnessed'
<1>0. PICK o, r : o = online /\ r = [at |-> now, counts |-> counts]
  OBVIOUS
<1>1. PICK n \in Nat, h \in Nat : n = Len(rows) /\ h = now /\ r.at = h /\ r.counts = counts /\ o = online
  <2>1. Len(rows) \in Nat /\ now \in Nat
    BY Bounds DEF DataInv, Typed
  <2> QED BY <1>0, <2>1
<1>2. r.at = h /\ r.counts = counts
  BY <1>1
<1>3. /\ Len(rows') = n + 1 /\ \A i \in 1 .. n : rows'[i] = rows[i] /\ i \in 1 .. n + 1
      /\ rows'[n + 1] = r /\ n + 1 \in 1 .. n + 1
  <2>1. rows \in Seq(Row)
    BY DEF DataInv, Typed
  <2>2. rows' = Append(rows, r)
    BY <1>0
  <2> QED BY <1>1, <2>1, <2>2
<1>4. ASSUME NEW i \in 1 .. n PROVE rows[i].at # h
  <2>1. rows[i].at < now /\ rows[i].at \in Nat
    BY <1>1, RowType DEF DataInv, Typed, Kept
  <2> QED BY <1>1, <2>1
<1>5. ASSUME NEW s \in seen PROVE s.at # h
  <2>1. PICK i \in 1 .. n : rows[i].at = s.at
    BY <1>1 DEF Witnessed
  <2> QED BY <1>4, <2>1
<1>6. PICK z : z = [at |-> now, online |-> online]
  OBVIOUS
<1>7. z.at = h /\ z.online = o
  BY <1>1, <1>6
<1>8. ASSUME NEW s \in seen' PROVE s \in seen \/ (s = z /\ Tells(counts, o))
  BY <1>1, <1>6
<1>9. ASSUME NEW s \in seen' PROVE \E i \in 1 .. Len(rows') : rows'[i].at = s.at
  <2>1. CASE s \in seen
    <3>1. PICK i \in 1 .. n : rows[i].at = s.at
      BY <1>1, <2>1 DEF Witnessed
    <3>2. rows'[i].at = s.at /\ i \in 1 .. Len(rows')
      BY <1>3, <3>1
    <3> QED BY <3>2
  <2>2. CASE s = z
    <3>1. rows'[n + 1].at = s.at /\ n + 1 \in 1 .. Len(rows')
      BY <1>2, <1>3, <1>7, <2>2
    <3> QED BY <3>1
  <2> QED BY <1>8, <2>1, <2>2
<1>10. ASSUME NEW i \in 1 .. Len(rows'), NEW s \in seen', s.at = rows'[i].at
       PROVE  Tells(rows'[i].counts, s.online)
  <2>1. i \in 1 .. n \/ i = n + 1
    BY <1>3
  <2>2. CASE i \in 1 .. n
    <3>1. rows'[i] = rows[i] /\ rows[i].at # h
      BY <1>3, <1>4, <2>2
    <3>2. s \in seen
      BY <1>7, <1>8, <1>10, <3>1
    <3>3. Tells(rows[i].counts, s.online)
      BY <1>1, <1>10, <2>2, <3>1, <3>2 DEF Witnessed
    <3> QED BY <3>1, <3>3
  <2>3. CASE i = n + 1
    <3>1. s.at = h
      BY <1>2, <1>3, <1>10, <2>3
    <3>2. s = z /\ Tells(counts, o)
      BY <1>5, <1>8, <3>1
    <3> QED BY <1>2, <1>3, <1>7, <2>3, <3>2
  <2> QED BY <2>1, <2>2, <2>3
<1>11. phase' # "list"
  OBVIOUS
<1> QED BY <1>9, <1>10, <1>11, Zenon DEF Witnessed

(* Every step                                                              *)
LEMMA WitnessedStep == ASSUME DataInv, Sent, Witnessed, [DataNext]_vars, DigestIsBytes PROVE Witnessed'
<1>1. CASE Ask
  BY <1>1, WitnessedAsk
<1>2. CASE Read
  BY <1>2, WitnessedRead
<1>3. CASE RecordSample
  <2>1. /\ phase = "list" /\ Rested /\ seen' = seen \cup {[at |-> now, online |-> online]}
        /\ rows' = Append(rows, [at |-> now, counts |-> FromWorldList(list, Probe)])
    BY <1>3 DEF RecordSample
  <2>2. phase # "idle" /\ phase' = "idle"
    BY <2>1 DEF Rested
  <2>3. Tells(FromWorldList(list, Probe), online)
    BY <2>1, FoundTells
  <2>4. PICK counts : counts = FromWorldList(list, Probe)
    OBVIOUS
  <2> QED BY <2>1, <2>2, <2>3, <2>4, WitnessedAppend
<1>4. CASE RecordFailure
  <2>1. /\ phase = "reading" /\ Rested /\ seen' = seen
        /\ rows' = Append(rows, [at |-> now, counts |-> Failed])
    BY <1>4 DEF RecordFailure
  <2>2. phase # "idle" /\ phase' = "idle"
    BY <2>1 DEF Rested
  <2>3. PICK counts : counts = Failed
    OBVIOUS
  <2> QED BY <2>1, <2>2, <2>3, WitnessedAppend
<1>5. CASE DieWithoutRow
  <2>1. phase' = "idle" /\ rows' = rows /\ seen' = seen
    BY <1>5 DEF DieWithoutRow, Rested
  <2>2. phase' # "list"
    BY <2>1
  <2>3. /\ \A s \in seen' : \E i \in 1 .. Len(rows') : rows'[i].at = s.at
        /\ \A i \in 1 .. Len(rows') : \A s \in seen' : s.at = rows'[i].at => Tells(rows'[i].counts, s.online)
    BY <2>1, Zenon DEF Witnessed
  <2> QED BY <2>1, <2>2, <2>3, Zenon DEF Witnessed
<1>6. CASE ExportJson \/ TimePasses \/ UNCHANGED vars
  <2>1. UNCHANGED <<rows, seen, phase, online, told, handled, list>>
    BY <1>6 DEF ExportJson, TimePasses, vars, reading
  <2>2. rows' = rows /\ seen' = seen /\ phase' = phase /\ online' = online /\ told' = told
        /\ handled' = handled /\ list' = list
    BY <2>1
  <2> QED BY <2>2, Zenon DEF Witnessed
<1> QED BY <1>1, <1>2, <1>3, <1>4, <1>5, <1>6 DEF DataNext

(* The property follows.                                                   *)
LEMMA CountsFollow == Witnessed => SampleCountsOthers
BY Zenon DEF Witnessed, Tells, SampleCountsOthers

(* from_world_list: a row that has counts tells who was online besides the *)
(* tracker at that time, in all, active and by class, whether or not the   *)
(* list names the tracker, in whatever case, wherever the stream was cut   *)
(* and whatever was wrong with the bytes.                                  *)
THEOREM SamplesAlwaysCountOthers == ASSUME DigestIsBytes PROVE DataSpec => []SampleCountsOthers
<1>1. DataInv /\ DataInv' /\ Sent /\ [DataNext]_vars => Sent'
  BY SentStep
<1>2. DataInv /\ Sent /\ Witnessed /\ [DataNext]_vars => Witnessed'
  BY WitnessedStep
<1> QED BY DataInvariant, SentInit, WitnessedInit, <1>1, <1>2, CountsFollow, PTL DEF DataSpec
=============================================================================
