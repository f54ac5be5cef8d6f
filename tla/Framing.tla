------------------------------- MODULE Framing -------------------------------
(***************************************************************************)
(* src/population_tracker/protocol.py: frames in a byte stream, and the    *)
(* body of the country list.                                               *)
(*                                                                         *)
(* parse_frames works on whatever has arrived so far; what it makes of a   *)
(* malformed frame depends on how much that is.                            *)
(***************************************************************************)
EXTENDS Cipher

SIGNATURE     == 170
HEADER_LENGTH == 3

Uint16(data, i) == data[i] * 256 + data[i + 1]
TwoBytes(n)     == <<(n \div 256) % 256, n % 256>>

(* Everything after the first n bytes                                      *)
Rest(data, n) == SubSeq(data, n + 1, Len(data))
-----------------------------------------------------------------------------
(* Frames.  Only encrypted packets have a sequence number.                 *)

BuildFrame(type, opcode, body, sequence) ==
    IF type = "NONE" THEN <<SIGNATURE>> \o TwoBytes(Len(body) + 1) \o <<opcode>> \o body
    ELSE <<SIGNATURE>> \o TwoBytes(Len(body) + 2) \o <<opcode, sequence>> \o body

ShortTotal(buffer) == Uint16(buffer, 2) \* mutant
Total(buffer) == Uint16(buffer, 2) + HEADER_LENGTH

FrameAt(buffer) ==
    LET opcode    == buffer[4]
        encrypted == ServerType(opcode) # "NONE"
    IN  [opcode   |-> opcode,
         sequence |-> IF encrypted THEN buffer[5] ELSE 0,
         body     |-> SubSeq(buffer, IF encrypted THEN 6 ELSE 5, Total(buffer))]

(* The signature is looked at when the frame is complete, and the sequence *)
(* number where it should be, which may be past the end of a short frame   *)
(* and past what has arrived.  An exception loses the frames found so far. *)
ParseTurn(s) ==
    LET buffer == s.left
    IN  IF s.raised # "no" \/ Len(buffer) <= HEADER_LENGTH \/ Len(buffer) < Total(buffer) THEN s
        ELSE IF buffer[1] # SIGNATURE
          THEN [s EXCEPT !.frames = <<>>, !.raised = "ValueError"]
        ELSE IF ServerType(buffer[4]) # "NONE" /\ Len(buffer) < 5
          THEN [s EXCEPT !.frames = <<>>, !.raised = "IndexError"]
        ELSE [s EXCEPT !.frames = Append(@, FrameAt(buffer)), !.left = Rest(buffer, Total(buffer))]

(* There are no more turns than bytes: each takes a header at least.       *)
ParseFrames(buffer) ==
    LET after[n \in 0 .. Len(buffer)] ==
          IF n = 0 THEN [frames |-> <<>>, left |-> buffer, raised |-> "no"]
          ELSE ParseTurn(after[n - 1])
    IN  after[Len(buffer)]
-----------------------------------------------------------------------------
(* The country list: two counts, and for each entry class, colour, status, *)
(* title, master flag and name, strings with their length before them.     *)

String8(data, i) == SubSeq(data, i + 1, i + data[i])

(* Reader raises ValueError when a field goes past the end.                *)
EntryFits(data, i) ==
    /\ i + 3 <= Len(data)
    /\ i + 5 + data[i + 3] <= Len(data)
    /\ i + 5 + data[i + 3] + data[i + 5 + data[i + 3]] <= Len(data)

MemberAt(data, i) ==
    [class     |-> data[i] % 8,
     isGuilded |-> (data[i] \div 8) % 2 # 0,
     status    |-> data[i + 2],
     name      |-> String8(data, i + 5 + data[i + 3])]

EntryTurn(data, s) ==
    LET name == s.at + 5 + data[s.at + 3]
    IN  IF s.raised # "no" THEN s
        ELSE IF ~EntryFits(data, s.at) THEN [s EXCEPT !.raised = "ValueError"]
        ELSE [s EXCEPT !.at = name + data[name] + 1, !.members = Append(@, MemberAt(data, s.at))]

Entries(data, count) ==
    LET after[n \in 0 .. count] ==
          IF n = 0 THEN [at |-> 5, members |-> <<>>, raised |-> "no"]
          ELSE EntryTurn(data, after[n - 1])
    IN  after[count]

ParseWorldList(data) ==
    IF Len(data) < 4 THEN [raised |-> "ValueError", count |-> 0, members |-> <<>>]
    ELSE LET entries == Entries(data, Uint16(data, 3))
         IN  [raised |-> entries.raised, count |-> Uint16(data, 1),
              members |-> entries.members]

ParseHeartbeat(data) == [raised |-> IF Len(data) < 2 THEN "ValueError" ELSE "no"]
HeartbeatResponse(data) == <<data[2], data[1]>>

(* What a server writes, as tests/test_integration.py does                 *)
EntryBytes(m) == <<m.class + (IF m.isGuilded THEN 8 ELSE 0), 255, m.status, 0, 0, Len(m.name)>>
                   \o m.name

(* For each k, the first k parts one after the other                       *)
Joints(parts) ==
    LET upTo[k \in 0 .. Len(parts)] == IF k = 0 THEN <<>> ELSE upTo[k - 1] \o parts[k]
    IN  upTo

ListBytes(members) ==
    Joints([i \in DOMAIN members |-> EntryBytes(members[i])])[Len(members)]

WorldListBody(count, members) ==
    TwoBytes(count) \o TwoBytes(Len(members)) \o ListBytes(members)
=============================================================================
