------------------------------ MODULE DataPath ------------------------------
(***************************************************************************)
(* The way of the data: what the world server sends, cut into chunks by    *)
(* the network, through the read loop (client.py), parse_frames and        *)
(* parse_world_list (protocol.py), client_decrypt (crypto.py),             *)
(* from_world_list (storage.py) and the table into population.json         *)
(* (export.py).                                                            *)
(*                                                                         *)
(* A run starts where Client's has entered the world; Client has the       *)
(* login before it and Store the statements that write the row.            *)
(***************************************************************************)
EXTENDS Framing, Export

CONSTANTS
    Probe,          \* the name the tracker was given
    Worlds,         \* who may be online: sequences of members
    ChunkSizes,     \* how much one read may return, besides everything
    Draws,          \* first sequence numbers and random values of a run
    Faults,         \* what may be wrong with what the server sends
    Legacy,         \* tables at first use
    FirstStep,
    MaxStep,
    MaxRuns,
    MaxFaults

ASSUME BoundAssumption ==
    /\ FirstStep \in Nat /\ MaxStep \in Nat /\ FirstStep <= MaxStep
    /\ MaxRuns \in Nat /\ MaxFaults \in Nat
    /\ ChunkSizes \subseteq Nat \ {0}

(* main asks for a name (__main__.py:55).                                  *)
ASSUME ProbeAssumption == Probe # <<>>

ASSUME DrawAssumption == Draws \subseteq [sequence : Byte, a : RandomA, b : RandomB]

(* Rows in the order of time.  A step of time is no longer than a run, so  *)
(* it has one row at most; an hour has as many steps as one likes.         *)
Ascending(table) ==
    \A i, j \in 1 .. Len(table) : i < j => table[i].at < table[j].at

ASSUME LegacyAssumption ==
    \A table \in Legacy :
      table \in Seq([at : 0 .. FirstStep - 1, counts : [Fields -> Count]]) /\ Ascending(table)

VARIABLES
    now,            \* the step of time
    rows,           \* the table population
    seen,           \* who was online when a row was recorded
    json,           \* population.json, and the rows and the time it is of
    phase,          \* "idle", "reading", or how the reading ended
    online,         \* who is online in this run
    draw,           \* the random values of this run
    told,           \* what the server has sent, piece by piece, and where each ends
    wire,           \* bytes on their way
    arrived,        \* how many bytes have been read
    buffer,         \* buffer of _read_loop
    handled,        \* the frames that reached a handler, decrypted
    said,           \* the packets the client has written
    list,           \* self._result
    runs, faults    \* how many runs there have been, and faults in them

reading == <<online, draw, told, wire, arrived, buffer, handled, said, list>>
vars    == <<now, rows, seen, json, phase, reading, runs, faults>>

WORLD_LIST         == 54
HEARTBEAT          == 59
WORLD_LIST_REQUEST == 24
HEARTBEAT_RESPONSE == 69
Handlers           == {WORLD_LIST, HEARTBEAT}
Unhandled          == 64     \* sent in the clear, and nobody handles it

NoList == [count |-> 0, members |-> <<>>]
NoJson == [at |-> 0, rows |-> 0, samples |-> <<>>]
NoDraw == [sequence |-> 0, a |-> 256, b |-> 100]
-----------------------------------------------------------------------------
(* The server (external).  The list has an entry for everyone online, or   *)
(* for everyone but the tracker; the count is of everyone.                 *)

OthersIn(world) == {i \in DOMAIN world : ~world[i].own}
Shown(world)    == {world, Those(world, OthersIn(world))}

(* The tracker is online under its name and nobody else is; the lengths of *)
(* a name and of a packet have one byte and two.                           *)
Person  == [name : Seq(Byte), class : 0 .. 7, isGuilded : BOOLEAN, status : Byte, own : BOOLEAN]
MaxBody == 65530

ASSUME WorldAssumption ==
    \A world \in Worlds :
      /\ world \in Seq(Person) /\ Len(world) < 65536
      /\ \A i \in DOMAIN world :
           /\ world[i].own <=> Casefold(world[i].name) = Casefold(Probe)
           /\ Len(world[i].name) < 256
      /\ world # <<>> => Cardinality(OthersIn(world)) = Len(world) - 1
      /\ \A shown \in Shown(world) : Len(WorldListBody(Len(world), shown)) <= MaxBody

Piece(opcode, body, sequence, d) ==
    [opcode |-> opcode, body |-> body,
     bytes  |-> BuildFrame(ServerType(opcode), opcode,
                           ServerEncrypt(body, opcode, sequence, d.a, d.b), sequence)]
Junk(bytes) == [opcode |-> -1, body |-> <<>>, bytes |-> bytes]

ListPiece(world, shown, fault, d) ==
    LET body  == WorldListBody(Len(world), shown)
        piece == Piece(WORLD_LIST,
                       IF fault = "truncated" THEN SubSeq(body, 1, Len(body) - 1) ELSE body,
                       (d.sequence + 1) % 256, d)
    IN  IF fault = "signature" THEN Junk([piece.bytes EXCEPT ![1] = 0]) ELSE piece

Pieces(world, shown, fault, d) ==
    <<Piece(Unhandled, <<7>>, 0, d), Piece(HEARTBEAT, <<3, 200>>, d.sequence, d)>>
      \o (CASE fault = "zero"  -> <<Junk(<<SIGNATURE, 0, 0>>)>>
            [] fault = "short" -> <<Junk(<<SIGNATURE, 0, 1, HEARTBEAT>>)>>
            [] OTHER           -> <<>>)
      \o <<ListPiece(world, shown, fault, d)>>
      \o (IF fault = "trailing" THEN <<Junk(<<0, 0, 0, 0>>)>> ELSE <<>>)

(* What the first k pieces are on the wire                                 *)
Stream(pieces) == Joints([k \in DOMAIN pieces |-> pieces[k].bytes])

ServerReads(packet) ==
    [opcode |-> packet[4], body |-> ServerDecrypt(Rest(packet, 5), packet[4], packet[5])]
-----------------------------------------------------------------------------
(* The client                                                              *)

Send(opcode, body, packets, d) ==
    LET sequence == Len(packets) % 256
    IN  Append(packets, BuildFrame(ClientType(opcode), opcode,
                                   ClientEncrypt(body, opcode, sequence, d.a, d.b), sequence))

Request(shown, fault, d) ==
    \E pieces \in {Pieces(online', shown, fault, d)} : \E stream \in {Stream(pieces)} :
      /\ phase' = "reading"
      /\ draw' = d
      /\ said' = Send(WORLD_LIST_REQUEST, <<>>, <<>>, d)
      /\ wire' = stream[Len(pieces)]
      /\ told' = [k \in DOMAIN pieces |-> [opcode |-> pieces[k].opcode, body |-> pieces[k].body,
                                          end |-> Len(stream[k])]]
      /\ UNCHANGED <<now, rows, seen, json, arrived, buffer, handled, list>>

(* A run begins, at a later step of time than the row before it.  Nothing  *)
(* keeps it from the hour of that row, which may be one of a failed run.   *)
Ask ==
    /\ phase = "idle"
    /\ runs < MaxRuns
    /\ runs' = runs + 1
    /\ \A i \in 1 .. Len(rows) : rows[i].at < now
    /\ online' \in Worlds
    /\ \E shown \in Shown(online'), d \in Draws, fault \in {"none"} \cup Faults :
         /\ fault # "none" => faults < MaxFaults
         /\ faults' = IF fault = "none" THEN faults ELSE faults + 1
         /\ Request(shown, fault, d)

(* One frame of those a read completed, until the list is there            *)
Dispatch(s, frame) ==
    LET body  == ClientDecrypt(frame.body, frame.opcode, frame.sequence)
        entry == [opcode |-> frame.opcode, body |-> body]
        found == ParseWorldList(body)
    IN  IF s.phase # "reading" \/ frame.opcode \notin Handlers THEN s
        ELSE IF TooShort(frame.body, frame.opcode) THEN [s EXCEPT !.phase = "raised"]
        ELSE IF frame.opcode = HEARTBEAT
          THEN IF ParseHeartbeat(body).raised # "no" THEN [s EXCEPT !.phase = "raised"]
               ELSE [s EXCEPT !.handled = Append(@, entry),
                              !.said = Send(HEARTBEAT_RESPONSE, HeartbeatResponse(body), @, draw)]
        ELSE IF found.raised # "no" THEN [s EXCEPT !.phase = "raised"]
        ELSE [s EXCEPT !.phase = "list", !.handled = Append(@, entry),
                       !.list = [count |-> found.count, members |-> found.members]]

Parsed(n) == ParseFrames(buffer \o SubSeq(wire, 1, n))
Dispatched(frames) ==
    LET after[k \in 0 .. Len(frames)] ==
          IF k = 0 THEN [phase |-> "reading", handled |-> handled, said |-> said, list |-> list]
          ELSE Dispatch(after[k - 1], frames[k])
    IN  after[Len(frames)]

Chunk(n) ==
    \E parsed \in {Parsed(n)} : \E after \in {Dispatched(parsed.frames)} :
      /\ wire' = Rest(wire, n)
      /\ arrived' = arrived + n
      /\ buffer' = parsed.left
      /\ phase' = IF parsed.raised # "no" THEN "raised" ELSE after.phase
      /\ handled' = after.handled
      /\ said' = after.said
      /\ list' = after.list

Read ==
    /\ phase = "reading"
    /\ wire # <<>>
    /\ \E n \in {k \in ChunkSizes : k < Len(wire)} \cup {Len(wire)} : Chunk(n)
    /\ UNCHANGED <<now, rows, seen, json, online, draw, told, runs, faults>>

Rested ==
    /\ phase' = "idle"
    /\ online' = <<>> /\ draw' = NoDraw /\ told' = <<>> /\ wire' = <<>> /\ arrived' = 0
    /\ buffer' = <<>> /\ handled' = <<>> /\ said' = <<>> /\ list' = NoList

RecordSample ==
    /\ phase = "list"
    /\ rows' = Append(rows, [at |-> now, counts |-> FromWorldList(list, Probe)])
    /\ seen' = seen \cup {[at |-> now, online |-> online]}
    /\ Rested
    /\ UNCHANGED <<now, json, runs, faults>>

(* The connection ends or the timer fires before the list is there.        *)
RecordFailure ==
    /\ phase = "reading"
    /\ rows' = Append(rows, [at |-> now, counts |-> Failed])
    /\ Rested
    /\ UNCHANGED <<now, seen, json, runs, faults>>

(* A ValueError or an IndexError ends the process without a row.           *)
DieWithoutRow ==
    /\ phase = "raised"
    /\ Rested
    /\ UNCHANGED <<now, rows, seen, json, runs, faults>>

ExportJson ==
    /\ phase = "idle"
    /\ json' = [at |-> now, rows |-> Len(rows), samples |-> ExportSamples(rows, now)]
    /\ UNCHANGED <<now, rows, seen, phase, reading, runs, faults>>

TimePasses ==
    /\ phase = "idle"
    /\ now < MaxStep
    /\ now' = now + 1
    /\ UNCHANGED <<rows, seen, json, phase, reading, runs, faults>>

DataInit ==
    /\ now = FirstStep /\ rows \in Legacy /\ seen = {} /\ json = NoJson
    /\ phase = "idle" /\ runs = 0 /\ faults = 0
    /\ online = <<>> /\ draw = NoDraw /\ told = <<>> /\ wire = <<>> /\ arrived = 0
    /\ buffer = <<>> /\ handled = <<>> /\ said = <<>> /\ list = NoList

DataNext ==
    \/ Ask \/ Read
    \/ RecordSample \/ RecordFailure \/ DieWithoutRow
    \/ ExportJson \/ TimePasses

DataSpec == DataInit /\ [][DataNext]_vars
-----------------------------------------------------------------------------
IsRow(r) == r.at \in 0 .. MaxStep /\ r.counts \in [Fields -> Count]

(* Every variable holds a value the code can give it: no count is below    *)
(* zero, what is on the wire and what is written are bytes.                *)
DataTypeOK ==
    /\ now \in FirstStep .. MaxStep /\ runs \in 0 .. MaxRuns /\ faults \in 0 .. MaxFaults
    /\ \A i \in 1 .. Len(rows) : IsRow(rows[i])
    /\ \A i \in 1 .. Len(json.samples) : IsRow(json.samples[i])
    /\ json.rows \in 0 .. Len(rows) /\ json.at \in 0 .. now
    /\ phase \in {"idle", "reading", "list", "raised"}
    /\ online \in Worlds \cup {<<>>} /\ draw \in Draws \cup {NoDraw}
    /\ wire \in Seq(Byte) /\ buffer \in Seq(Byte) /\ arrived \in Nat
    /\ \A i \in 1 .. Len(said) : said[i] \in Seq(Byte)
    /\ \A i \in 1 .. Len(handled) : handled[i].opcode \in Handlers /\ handled[i].body \in Seq(Byte)

Contents(frames) == [i \in 1 .. Len(frames) |-> [opcode |-> frames[i].opcode, body |-> frames[i].body]]

(* parse_frames and the cipher: wherever the stream is cut, the handlers   *)
(* get the frames that the server sent, in order, each as soon as its last *)
(* byte is there, and after an exception none that it did not send; what   *)
(* the server reads in return is the request and one answer for every      *)
(* heartbeat, with the two values swapped.                                 *)
FramesAsSent ==
    LET due   == Contents(Those(told, {k \in DOMAIN told : told[k].opcode \in Handlers
                                                         /\ told[k].end <= arrived}))
        beats == Those(handled, {k \in DOMAIN handled : handled[k].opcode = HEARTBEAT})
    IN  /\ Len(handled) <= Len(due) /\ handled = SubSeq(due, 1, Len(handled))
        /\ phase # "raised" => handled = due
        /\ phase # "idle" =>
             [i \in 1 .. Len(said) |-> ServerReads(said[i])] =
               <<[opcode |-> WORLD_LIST_REQUEST, body |-> <<>>]>>
                 \o [i \in 1 .. Len(beats) |->
                       [opcode |-> HEARTBEAT_RESPONSE,
                        body   |-> <<beats[i].body[2], beats[i].body[1]>>]]

(* from_world_list: a row that has counts tells who was online besides the *)
(* tracker at that time, whether or not the list names the tracker, in     *)
(* whatever case, and whatever was wrong with the bytes of another run.    *)
SampleCountsOthers ==
    \A i \in 1 .. Len(rows) : \A s \in seen :
      LET others == OthersIn(s.online)
          counts == rows[i].counts
      IN  s.at = rows[i].at =>
            /\ counts["total"] = Cardinality(others)
            /\ counts["active"] = Cardinality({k \in others : s.online[k].status # 2
                                                            /\ s.online[k].status # 5})
            /\ \A c \in 1 .. 6 :
                 counts[Columns[c]] = Cardinality({k \in others : s.online[k].class = c - 1})

(* export: every row is in the file once, either as it is or in the mean   *)
(* of its day.  A sample is of one time or one day, in ascending order; a  *)
(* mean is the whole number nearest to the values of its day that are not  *)
(* null and older than the cutoff, and it is null only if every row of its *)
(* day is null or (see NullOnlyIfAllFailed) one that the cutoff spares.    *)
DashboardShowsRows ==
    LET exported == SubSeq(rows, 1, json.rows)
        samples  == json.samples
        recent   == {i \in 1 .. Len(exported) :
                       RecentDays < 0 \/ json.at <= exported[i].at + RecentDays * StepsPerDay}
        rolled   == DOMAIN exported \ recent
        ofDay(d) == {i \in DOMAIN exported : Day(exported[i].at) = d}
        days     == {Day(exported[i].at) : i \in rolled}
        sum(S, f) == Cardinality(UNION {{i} \X (1 .. exported[i].counts[f]) : i \in S})
        mean(f, d, v) ==
            LET S == {i \in ofDay(d) \ recent : exported[i].counts[f] # NULL}
                n == Cardinality(S)
            IN  IF v = NULL THEN \A i \in ofDay(d) : exported[i].counts[f] = NULL \/ i \in recent
                ELSE S # {} /\ 2 * (n * v - sum(S, f)) \in -n .. n
    IN  /\ Len(samples) = Cardinality(recent) + Cardinality(days)
        /\ \A j \in 1 .. Len(samples) - 1 : samples[j].at < samples[j + 1].at
        /\ \A i \in recent : \E j \in 1 .. Len(samples) : samples[j] = exported[i]
        /\ \A d \in days : \E j \in 1 .. Len(samples) :
             samples[j].at = Midnight(d) /\ \A f \in Fields : mean(f, d, samples[j].counts[f])

(* "a daily rollup is null only if every sample that day failed"           *)
(* (export.py:11), with no exception: not so while the cutoff divides the  *)
(* day.                                                                    *)
NullOnlyIfAllFailed ==
    LET exported == SubSeq(rows, 1, json.rows)
        total(i) == exported[i].counts["total"]
        ofDay(d) == {i \in DOMAIN exported : Day(exported[i].at) = d}
        rolledUp == {Day(exported[i].at) : i \in {k \in DOMAIN exported :
                       RecentDays >= 0 /\ exported[k].at < Cutoff(json.at)}}
    IN  \A j \in DOMAIN json.samples : \A d \in rolledUp :
          (json.samples[j].at = Midnight(d) /\ json.samples[j].counts["total"] = NULL)
            => \A i \in ofDay(d) : total(i) = NULL

SettledSamples(file) == {file.samples[j] : j \in {k \in 1 .. Len(file.samples) :
                           Midnight(Day(file.samples[k].at) + 1) <= Cutoff(file.at)}}

(* export: once a day is wholly older than the cutoff, its point in the    *)
(* published file stays as it is, whatever is recorded later.              *)
SettledDayKept == [][SettledSamples(json) \subseteq SettledSamples(json')]_vars
=============================================================================
