---------------------------- MODULE ClientProofs ----------------------------
(***************************************************************************)
(* Proofs about Client, for any number of connections, of beats, any size  *)
(* of the sequence byte, and any environment.                              *)
(***************************************************************************)
EXTENDS ClientInv, SequenceTheorems, TLAPS

(* The packets the client makes are packets.                               *)
LEMMA PacketType ==
    ASSUME NEW op \in ClientOps, NEW cr \in Ciphers, NEW sq \in Nat
    PROVE  Packet(op, cr, sq) \in ClientPackets
<1>1. sq % SeqMod \in 0 .. SeqMod - 1
  BY SeqAssumption
<1>2. 0 \in 0 .. SeqMod - 1
  BY SeqAssumption
<1> QED
  BY <1>1, <1>2 DEF Packet, ClientPackets

(* What _send does to the wire and to the sequence number.                 *)
LEMMA SendEffect ==
    ASSUME wire \in [Conns -> Seq(ClientPackets)], sequence \in Nat, writer \in Conns,
           NEW op \in ClientOps, NEW cr \in Ciphers, Send(op, cr)
    PROVE  /\ wire' \in [Conns -> Seq(ClientPackets)]
           /\ sequence' \in Nat
           /\ sequence' = NextSequence(op, sequence)
           /\ wire'[writer] = Append(wire[writer], Packet(op, cr, sequence))
           /\ \A c \in Conns : c # writer => wire'[c] = wire[c]
<1>1. writer # 0
  BY ConnsAssumption DEF Conns
<1>2. wire' = [wire EXCEPT ![writer] = Append(@, Packet(op, cr, sequence))]
      /\ sequence' = NextSequence(op, sequence)
  BY <1>1 DEF Send
<1>3. Packet(op, cr, sequence) \in ClientPackets
  BY PacketType
<1>4. Append(wire[writer], Packet(op, cr, sequence)) \in Seq(ClientPackets)
  BY <1>3
<1> QED
  BY <1>2, <1>4 DEF NextSequence

(* What a step of the reader does to the inbox: every frame left in an     *)
(* inbox was there before, and not as the first of the one that was read.  *)
Shrinks ==
    \A c \in Conns : \A i \in DOMAIN inbox'[c] :
        \E j \in DOMAIN inbox[c] :
            inbox'[c][i] = inbox[c][j] /\ IF c = writer THEN j > 1 ELSE j = i

LEMMA ReadingEffect ==
    ASSUME TypeOK, writer # 0, NEW ops, Reading(ops)
    PROVE  /\ writer \in Conns
           /\ reader = "reading"
           /\ 1 \in DOMAIN inbox[writer]
           /\ Head(inbox[writer]) = inbox[writer][1]
           /\ inbox[writer][1].op \in ops
           /\ inbox' \in [Conns -> Seq(ServerFrames)]
           /\ Shrinks
           /\ grace' = FALSE
<1>1. writer \in Conns
  BY DEF TypeOK, Conns
<1>2. inbox[writer] \in Seq(ServerFrames) /\ inbox[writer] # <<>>
  BY <1>1 DEF TypeOK, Reading
<1>3. inbox' = [inbox EXCEPT ![writer] = Tail(@)]
  BY DEF Reading
<1>4. Tail(inbox[writer]) \in Seq(ServerFrames)
  BY <1>2
<1>5. \A i \in DOMAIN Tail(inbox[writer]) :
         i + 1 \in DOMAIN inbox[writer] /\ Tail(inbox[writer])[i] = inbox[writer][i + 1] /\ i + 1 > 1
  BY <1>2
<1>6. Shrinks
  BY <1>1, <1>3, <1>5 DEF Shrinks, TypeOK
<1>7. 1 \in DOMAIN inbox[writer] /\ Head(inbox[writer]) = inbox[writer][1]
  BY <1>2
<1> QED
  BY <1>1, <1>3, <1>4, <1>6, <1>7 DEF Reading, TypeOK
-----------------------------------------------------------------------------
(* Steps that touch neither the wire nor an inbox                          *)

LEMMA QuietStep ==
    ASSUME Inductive, TypeOK', Tasks',
           UNCHANGED <<wire, inbox, crypto, sequence, writer>>,
           reader' = "opening" => reader = "opening" /\ target' = target
    PROVE  Inductive'
<1>1. Placed'
  BY DEF Inductive, Placed
<1>2. Keys'
  BY DEF Inductive, Keys, ServerCanRead, LobbyFresh
<1>3. Numbers'
  BY DEF Inductive, Numbers, SequenceInStep
<1> QED
  BY <1>1, <1>2, <1>3 DEF Inductive

(* Steps that only read: the inboxes shrink, the wire stays                *)
LEMMA ReadStep ==
    ASSUME Inductive, TypeOK', Tasks', Shrinks,
           UNCHANGED <<wire, crypto, sequence, writer>>, reader' # "opening"
    PROVE  Inductive'
<1>1. Placed'
  <2> SUFFICES ASSUME NEW c \in Conns, NEW i \in DOMAIN inbox'[c]
               PROVE  inbox'[c][i].op \in ServerSays(c)
    BY DEF Inductive, Placed
  <2> QED
    BY DEF Inductive, Placed, Shrinks
<1>2. 1 \in Conns
  BY ConnsAssumption DEF Conns
<1>3. Keys'
  BY <1>2 DEF Inductive, Keys, ServerCanRead, LobbyFresh, Shrinks
<1>4. Numbers'
  <2>1. ASSUME NEW i \in DOMAIN inbox'[1]
        PROVE  IF inbox'[1][i].op = "ACCEPT" THEN i = 1 /\ wire[1] = <<>>
               ELSE inbox'[1][i].op \notin {"BAD_BODY", "BAD_FRAME"} => wire[1] # <<>>
    BY <1>2, <2>1 DEF Inductive, Numbers, Shrinks
  <2> QED
    BY <2>1 DEF Inductive, Numbers, SequenceInStep
<1> QED
  BY <1>1, <1>3, <1>4 DEF Inductive

(* Steps of a server: frames are appended to one inbox.                    *)
LEMMA ServerStep ==
    ASSUME Inductive, TypeOK', Tasks', NEW c \in Conns, NEW new \in Seq(ServerFrames),
           inbox' = [inbox EXCEPT ![c] = @ \o new],
           UNCHANGED <<wire, crypto, sequence, writer, reader, target>>,
           \A i \in DOMAIN new : new[i].op \in ServerSays(c) \ {"ACCEPT"},
           c = 1 => /\ wire[1] # <<>> \/ \A i \in DOMAIN new : new[i].op \in {"BAD_BODY", "BAD_FRAME"}
                    /\ \/ \A i \in DOMAIN new : new[i].op \notin {"TABLE", "EMPTY_TABLE"}
                       \/ \E i \in DOMAIN wire[1] : wire[1][i].op # "VERSION"
    PROVE  Inductive'
<1>1. \A i \in DOMAIN inbox'[c] :
         \/ i \in DOMAIN inbox[c] /\ inbox'[c][i] = inbox[c][i]
         \/ \E j \in DOMAIN new : inbox'[c][i] = new[j]
  <2> inbox[c] \in Seq(ServerFrames) /\ inbox'[c] = inbox[c] \o new
    BY DEF Inductive, TypeOK
  <2> QED
    OBVIOUS
<1>2. \A d \in Conns : d # c => inbox'[d] = inbox[d]
  BY DEF Inductive, TypeOK
<1>3. Placed'
  BY <1>1, <1>2 DEF Inductive, Placed
<1>4. 1 \in Conns
  BY ConnsAssumption DEF Conns
<1>5. Keys'
  BY <1>1, <1>2, <1>4 DEF Inductive, Keys, ServerCanRead, LobbyFresh
<1>6. Numbers'
  <2>1. ASSUME NEW i \in DOMAIN inbox'[1]
        PROVE  IF inbox'[1][i].op = "ACCEPT" THEN i = 1 /\ wire[1] = <<>>
               ELSE inbox'[1][i].op \notin {"BAD_BODY", "BAD_FRAME"} => wire[1] # <<>>
    BY <1>1, <1>2, <1>4, <2>1 DEF Inductive, Numbers
  <2> QED
    BY <2>1 DEF Inductive, Numbers, SequenceInStep
<1> QED
  BY <1>3, <1>5, <1>6 DEF Inductive
-----------------------------------------------------------------------------
(* Steps that write one packet, and may read one frame                     *)

LEMMA WriteStep ==
    ASSUME Inductive, TypeOK', Tasks', writer \in Conns,
           NEW op \in ClientOps, NEW cr \in Ciphers, Send(op, cr), op \in ClientSays(writer),
           crypto' = cr, writer' = writer, reader' # "opening",
           \/ inbox' = inbox /\ writer # 1
           \/ Shrinks,
           IF ClientEncrypts(op)
             THEN cr = ServerCrypto(writer) /\ wire[writer] # <<>>
             ELSE op = "VERSION" /\ writer = 1 /\ wire[1] = <<>> /\ cr = crypto
    PROVE  Inductive'
<1> DEFINE new == Packet(op, cr, sequence)
           n   == Len(wire[writer]) + 1
<1>1. 1 \in Conns
  BY ConnsAssumption DEF Conns
<1>2. /\ wire \in [Conns -> Seq(ClientPackets)]
      /\ sequence \in Nat
      /\ wire'[writer] = Append(wire[writer], new)
      /\ sequence' = NextSequence(op, sequence)
      /\ \A c \in Conns : c # writer => wire'[c] = wire[c]
  BY SendEffect DEF Inductive, TypeOK
<1>3. new.op = op
  BY DEF Packet
<1>4. /\ n \in Nat \ {0}
      /\ DOMAIN wire'[writer] = 1 .. n
      /\ DOMAIN wire[writer] = 1 .. n - 1
      /\ wire'[writer] # <<>>
      /\ wire'[writer][n] = new
      /\ Len(wire'[writer]) = n
      /\ \A i \in 1 .. n - 1 : wire'[writer][i] = wire[writer][i]
  <2>1. wire[writer] \in Seq(ClientPackets) /\ new \in ClientPackets
    BY <1>2, PacketType
  <2> QED
    BY <1>2, <2>1
<1>5. \A i \in DOMAIN wire'[writer] :
         i = n \/ (i \in DOMAIN wire[writer] /\ wire'[writer][i] = wire[writer][i])
  BY <1>4
<1> HIDE DEF new, n
<1>6. \A c \in Conns : \A i \in DOMAIN inbox'[c] :
         \E j \in DOMAIN inbox[c] : inbox'[c][i] = inbox[c][j] /\ (c # writer => j = i)
  BY DEF Shrinks
<1>7. Placed'
  <2>1. \A c \in Conns : \A i \in DOMAIN wire'[c] : wire'[c][i].op \in ClientSays(c)
    BY <1>2, <1>3, <1>4, <1>5 DEF Inductive, Placed
  <2>2. \A c \in Conns : \A i \in DOMAIN inbox'[c] : inbox'[c][i].op \in ServerSays(c)
    BY <1>6 DEF Inductive, Placed
  <2> QED
    BY <2>1, <2>2 DEF Placed
<1>8. Keys'
  <2>1. ServerCanRead'
    <3>1. ClientEncrypts(op) => new.crypto = ServerCrypto(writer)
      BY DEF new, Packet
    <3> SUFFICES ASSUME NEW c \in Conns, NEW i \in DOMAIN wire'[c],
                        ClientEncrypts(wire'[c][i].op)
                 PROVE  wire'[c][i].crypto = ServerCrypto(c)
      BY DEF ServerCanRead
    <3>2. CASE c = writer /\ i = n
      BY <1>3, <1>4, <3>1, <3>2
    <3>3. CASE ~(c = writer /\ i = n)
      BY <1>2, <1>5, <3>3 DEF Inductive, Keys, ServerCanRead
    <3> QED
      BY <3>2, <3>3
  <2>2. writer > 1 => cr = ServerCrypto(writer)
    BY DEF Inductive, Keys
  <2>3. writer = 1 => cr = ServerCrypto(1) \/ LobbyFresh'
    <3> SUFFICES ASSUME writer = 1, ~ClientEncrypts(op), LobbyFresh
                 PROVE  LobbyFresh'
      BY DEF Inductive, Keys
    <3> QED
      BY <1>1, <1>3, <1>4, <1>5, <1>6 DEF LobbyFresh
  <2> QED
    BY <2>1, <2>2, <2>3 DEF Keys
<1>9. Numbers'
  <2>1. sequence = IF wire[writer] = <<>> THEN 0 ELSE n - 2
    <3>1. n - 2 = Len(wire[writer]) - 1
      BY <1>2 DEF n
    <3>2. writer # 0
      BY ConnsAssumption DEF Conns
    <3> QED
      BY <3>1, <3>2 DEF Inductive, Numbers
  <2>2. wire[writer] = <<>> => n = 1
    BY DEF n
  <2>3. wire[writer] # <<>> => n > 1
    BY <1>2, <1>4 DEF n
  <2>4. sequence' = n - 1
    BY <1>2, <1>4, <2>1, <2>2, <2>3 DEF NextSequence, ClientEncrypts
  <2>5. SequenceInStep'
    <3>1. ClientEncrypts(op) => new.seq = (n - 2) % SeqMod
      BY <2>1 DEF new, Packet
    <3>2. ClientEncrypts(op) <=> n # 1
      BY <1>4, <2>2, <2>3 DEF ClientEncrypts
    <3> SUFFICES ASSUME NEW c \in Conns, NEW i \in DOMAIN wire'[c]
                 PROVE  IF i = 1 THEN ~ClientEncrypts(wire'[c][i].op)
                        ELSE /\ ClientEncrypts(wire'[c][i].op)
                             /\ wire'[c][i].seq = (i - 2) % SeqMod
      BY DEF SequenceInStep
    <3>3. CASE c = writer /\ i = n
      BY <1>3, <1>4, <3>1, <3>2, <3>3
    <3>4. CASE ~(c = writer /\ i = n)
      <4>1. i \in DOMAIN wire[c] /\ wire'[c][i] = wire[c][i]
        BY <1>2, <1>5, <3>4
      <4> QED
        BY <4>1 DEF Inductive, Numbers, SequenceInStep
    <3> QED
      BY <3>3, <3>4
  <2>6. ASSUME NEW i \in DOMAIN inbox'[1]
        PROVE  IF inbox'[1][i].op = "ACCEPT" THEN i = 1 /\ wire'[1] = <<>>
               ELSE inbox'[1][i].op \notin {"BAD_BODY", "BAD_FRAME"} => wire'[1] # <<>>
    <3>1. CASE writer = 1
      <4>1. PICK j \in DOMAIN inbox[1] : inbox'[1][i] = inbox[1][j] /\ j > 1
        BY <1>1, <2>6, <3>1 DEF Shrinks
      <4>2. inbox[1][j].op # "ACCEPT"
        BY <4>1 DEF Inductive, Numbers
      <4> QED
        BY <1>4, <3>1, <4>1, <4>2
    <3>2. CASE writer # 1
      BY <1>1, <1>2, <1>6, <2>6, <3>2 DEF Inductive, Numbers
    <3> QED
      BY <3>1, <3>2
  <2> QED
    BY <1>4, <2>2, <2>3, <2>4, <2>5, <2>6 DEF Numbers
<1> QED
  BY <1>7, <1>8, <1>9 DEF Inductive
-----------------------------------------------------------------------------
(* The task that awaits fetch                                              *)

LEMMA InitInductive == Init => Inductive
<1> SUFFICES ASSUME Init PROVE Inductive
  OBVIOUS
<1> USE DEF Init
<1>1. TypeOK
  <2>1. InitialCrypto \in Ciphers
    BY ConnsAssumption DEF InitialCrypto, Ciphers
  <2>2. 0 \in 0 .. MaxConns
    BY ConnsAssumption
  <2>3. /\ inbox \in [Conns -> Seq(ServerFrames)]
        /\ wire \in [Conns -> Seq(ClientPackets)]
        /\ asked \in [Conns -> Seq({"HEARTBEAT", "TICKS"})]
    OBVIOUS
  <2> QED
    BY <2>1, <2>2, <2>3 DEF TypeOK
<1>2. Placed
  BY DEF Placed
<1>3. Tasks
  BY ConnsAssumption DEF Tasks, Conns
<1>4. Keys
  BY DEF Keys, ServerCanRead
<1>5. Numbers
  BY ConnsAssumption DEF Numbers, SequenceInStep, Conns
<1> QED
  BY <1>1, <1>2, <1>3, <1>4, <1>5 DEF Inductive

LEMMA FetchStartStep == Inductive /\ FetchStart => Inductive'
<1> SUFFICES ASSUME Inductive, FetchStart PROVE Inductive'
  OBVIOUS
<1>1. TypeOK'
  BY DEF Inductive, TypeOK, FetchStart, objectVars, netVars
<1>2. Tasks'
  BY DEF Inductive, Tasks, FetchStart, objectVars, netVars
<1> QED
  BY <1>1, <1>2, QuietStep DEF FetchStart, objectVars, netVars

LEMMA ConnectedStep == Inductive /\ Connected => Inductive'
<1> SUFFICES ASSUME Inductive, Connected PROVE Inductive'
  OBVIOUS
<1> USE DEF Connected, objectVars
<1>0. /\ 1 \in Conns
      /\ Frame(1, "ACCEPT") \in ServerFrames
      /\ Frame(1, "ACCEPT").op = "ACCEPT"
  BY ConnsAssumption DEF Conns, Frame, ServerFrames, ServerOps, ServerEncrypts
<1>1. inbox'[1] = <<Frame(1, "ACCEPT")>> /\ \A c \in Conns : c # 1 => inbox'[c] = inbox[c]
  BY <1>0 DEF Inductive, TypeOK
<1>2. TypeOK'
  BY <1>0 DEF Inductive, TypeOK, Conns
<1>3. Placed'
  BY <1>0, <1>1 DEF Inductive, Placed, ServerSays
<1>4. Tasks'
  BY DEF Inductive, Tasks, StateOf
<1>5. Keys'
  BY <1>0, <1>1 DEF Inductive, Keys, Tasks, ServerCanRead, LobbyFresh
<1>6. Numbers'
  BY <1>0, <1>1 DEF Inductive, Numbers, Tasks, SequenceInStep
<1> QED
  BY <1>2, <1>3, <1>4, <1>5, <1>6 DEF Inductive

(* Steps of main that leave connections, ciphers and numbers alone         *)
MainQuiet == ConnectFails \/ Timeout \/ Interrupt \/ MainWake \/ Reap \/ Finish

LEMMA MainQuietStep == Inductive /\ MainQuiet => Inductive'
<1> SUFFICES ASSUME Inductive, MainQuiet PROVE Inductive'
  OBVIOUS
<1> USE DEF objectVars, netVars
<1>1. CASE ConnectFails
  <2>1. TypeOK'
    BY <1>1 DEF Inductive, TypeOK, ConnectFails
  <2>2. Tasks'
    BY <1>1 DEF Inductive, Tasks, ConnectFails
  <2> QED
    BY <1>1, <2>1, <2>2, QuietStep DEF ConnectFails
<1>2. CASE Timeout
  <2>1. TypeOK'
    BY <1>2 DEF Inductive, TypeOK, Timeout, Cancelled
  <2>2. Tasks'
    BY <1>2 DEF Inductive, Tasks, Timeout, Cancelled
  <2> QED
    BY <1>2, <2>1, <2>2, QuietStep DEF Timeout
<1>3. CASE InterruptEarly
  <2>1. TypeOK'
    BY <1>3 DEF Inductive, TypeOK, InterruptEarly
  <2>2. Tasks'
    BY <1>3 DEF Inductive, Tasks, InterruptEarly
  <2> QED
    BY <1>3, <2>1, <2>2, QuietStep DEF InterruptEarly
<1>4. CASE InterruptWait
  <2>1. TypeOK'
    BY <1>4 DEF Inductive, TypeOK, InterruptWait, Cancelled
  <2>2. Tasks'
    BY <1>4 DEF Inductive, Tasks, InterruptWait, Cancelled
  <2> QED
    BY <1>4, <2>1, <2>2, QuietStep DEF InterruptWait
<1>5. CASE MainWake
  <2>1. TypeOK'
    <3>1. outcome' \in {"none", "list", "login", "oserror", "valueerror", "timeout",
                        "interrupt", "crash"}
      BY <1>5 DEF Inductive, TypeOK, MainWake, Verdict, Tasks
    <3> QED
      <4>1. requester' \in {"none", "sleeping", "done", "cancelled"}
        BY <1>5 DEF Inductive, TypeOK, MainWake, RequestCancelled
      <4>2. target' \in 0 .. MaxConns
        BY <1>5, ConnsAssumption DEF MainWake
      <4> QED
        BY <1>5, <3>1, <4>1, <4>2 DEF Inductive, TypeOK, MainWake
  <2>2. Tasks'
    BY <1>5 DEF Inductive, Tasks, MainWake, RequestCancelled
  <2> QED
    BY <1>5, <2>1, <2>2, QuietStep DEF MainWake
<1>6. CASE Reap
  <2>1. TypeOK'
    BY <1>6 DEF Inductive, TypeOK, Reap
  <2>2. Tasks'
    BY <1>6 DEF Inductive, Tasks, Reap
  <2> QED
    BY <1>6, <2>1, <2>2, QuietStep DEF Reap
<1>7. CASE Finish
  <2>1. TypeOK'
    BY <1>7 DEF Inductive, TypeOK, Finish
  <2>2. Tasks'
    BY <1>7 DEF Inductive, Tasks, Finish
  <2> QED
    BY <1>7, <2>1, <2>2, QuietStep DEF Finish
<1> QED
  BY <1>1, <1>2, <1>3, <1>4, <1>5, <1>6, <1>7 DEF MainQuiet, Interrupt

LEMMA LogoutStep == Inductive /\ Logout => Inductive'
<1> SUFFICES ASSUME Inductive, Logout PROVE Inductive'
  OBVIOUS
<1>1. Tasks'
  <2>1. ASSUME main' \in {"idle", "connecting"} PROVE FALSE
    BY <2>1 DEF Logout
  <2>2. reader \notin {"reading", "closing", "opening"}
    BY DEF Inductive, Tasks, Logout
  <2> QED
    BY <2>1, <2>2 DEF Inductive, Tasks, Logout, objectVars
<1>2. CASE ShouldLogout
  <2>1. writer \in Conns /\ writer # 1 /\ writer # 0
    BY <1>2 DEF Inductive, TypeOK, Tasks, ShouldLogout, StateOf, AfterRedirect, Conns
  <2>2. Send("EXIT_REQUEST", crypto) /\ crypto' = crypto /\ crypto \in Ciphers
    BY <1>2 DEF Logout, Inductive, TypeOK, objectVars
  <2>3. TypeOK'
    <3>1. wire' \in [Conns -> Seq(ClientPackets)] /\ sequence' \in Nat
      BY <2>1, <2>2, SendEffect DEF Inductive, TypeOK, ClientOps
    <3> QED
      BY <3>1 DEF Inductive, TypeOK, Logout, objectVars
  <2>4. crypto = ServerCrypto(writer) /\ wire[writer] # <<>>
    BY <2>1 DEF Inductive, Keys, Numbers, Conns
  <2>5. reader' # "opening" /\ writer' = writer /\ inbox' = inbox
    BY DEF Inductive, Tasks, Logout
  <2> QED
    BY <1>1, <2>1, <2>2, <2>3, <2>4, <2>5, WriteStep DEF ClientOps, ClientSays, ClientEncrypts
<1>3. CASE ~ShouldLogout
  <2>1. TypeOK'
    BY <1>3 DEF Inductive, TypeOK, Logout, objectVars
  <2> QED
    BY <1>1, <1>3, <2>1, QuietStep DEF Logout, objectVars
<1> QED
  BY <1>2, <1>3

LEMMA CloseStep == Inductive /\ Close => Inductive'
<1> SUFFICES ASSUME Inductive, Close PROVE Inductive'
  OBVIOUS
<1> USE DEF Close, objectVars
<1>0. reader \notin {"reading", "closing", "opening"}
  BY DEF Inductive, Tasks
<1>1. TypeOK'
  <2>1. 0 \in 0 .. MaxConns
    BY ConnsAssumption
  <2>2. main' \in {"done", "flushing"}
    OBVIOUS
  <2>3. link' \in [Conns -> {"idle", "open", "cut", "moved", "closed"}]
    BY DEF Inductive, TypeOK, SocketClosed
  <2> QED
    BY <2>1, <2>2, <2>3 DEF Inductive, TypeOK
<1>2. Placed'
  BY DEF Inductive, Placed
<1>3. Tasks'
  BY <1>0 DEF Inductive, Tasks
<1>4. Keys'
  BY <1>0 DEF Inductive, Keys, ServerCanRead
<1>5. Numbers'
  BY <1>0 DEF Inductive, Numbers, SequenceInStep
<1> QED
  BY <1>1, <1>2, <1>3, <1>4, <1>5 DEF Inductive
-----------------------------------------------------------------------------
(* The requester, and redirects                                            *)

LEMMA RequestStep == Inductive /\ RequestWorldList => Inductive'
<1> SUFFICES ASSUME Inductive, RequestWorldList PROVE Inductive'
  OBVIOUS
<1>1. Tasks'
  BY DEF Inductive, Tasks, RequestWorldList, objectVars, mainVars, Send
<1>2. CASE writer = 0
  <2>1. TypeOK'
    BY <1>2 DEF Inductive, TypeOK, RequestWorldList, objectVars, mainVars, Send
  <2> QED
    BY <1>1, <1>2, <2>1, QuietStep DEF RequestWorldList, objectVars, Send
<1>3. CASE writer # 0
  <2>1. writer \in Conns /\ writer # 1 /\ writer # 2
    BY <1>3 DEF Inductive, TypeOK, Tasks, RequestWorldList, Conns
  <2>2. Send("WORLD_LIST_REQUEST", crypto) /\ crypto' = crypto /\ crypto \in Ciphers
    BY DEF RequestWorldList, Inductive, TypeOK, objectVars
  <2>3. TypeOK'
    <3>1. wire' \in [Conns -> Seq(ClientPackets)] /\ sequence' \in Nat
      BY <2>1, <2>2, SendEffect DEF Inductive, TypeOK, ClientOps
    <3> QED
      BY <3>1 DEF Inductive, TypeOK, RequestWorldList, objectVars, mainVars
  <2>4. crypto = ServerCrypto(writer) /\ wire[writer] # <<>>
    BY <2>1 DEF Inductive, Keys, Numbers, Conns
  <2>5. reader' # "opening" /\ writer' = writer /\ inbox' = inbox
    BY <1>3 DEF Inductive, Tasks, RequestWorldList
  <2> QED
    BY <1>1, <2>1, <2>2, <2>3, <2>4, <2>5, WriteStep DEF ClientOps, ClientSays, ClientEncrypts
<1> QED
  BY <1>2, <1>3

LEMMA OldSocketClosedStep == Inductive /\ OldSocketClosed => Inductive'
<1> SUFFICES ASSUME Inductive, OldSocketClosed PROVE Inductive'
  OBVIOUS
<1> USE DEF OldSocketClosed, mainVars, netVars
<1>0. target \in Conns /\ target >= 2 /\ writer = 0 /\ state = StateOf(target)
  BY DEF Inductive, Tasks, TypeOK, Conns
<1>1. crypto' = ServerCrypto(target)
  BY <1>0 DEF KeySaltSeed, RedirectNamed, StateOf, ServerCrypto, World, Conns
<1>2. crypto' \in Ciphers
  BY <1>0, <1>1 DEF ServerCrypto, Ciphers, Conns
<1>3. TypeOK'
  <2>1. sequence' \in Nat /\ reader' = "opening" /\ grace' \in BOOLEAN
    OBVIOUS
  <2>2. UNCHANGED <<main, outcome, stop, link, inbox, wire, got, asked, state,
                    requested, result, target, requester, writer>>
    OBVIOUS
  <2> HIDE DEF OldSocketClosed
  <2> QED
    BY <1>2, <2>1, <2>2 DEF Inductive, TypeOK
<1>4. Placed'
  BY DEF Inductive, Placed
<1>5. Tasks'
  BY <1>0 DEF Inductive, Tasks
<1>6. Keys'
  BY <1>0, <1>1 DEF Inductive, Keys, ServerCanRead, ServerCrypto
<1>7. Numbers'
  BY <1>0 DEF Inductive, Numbers, SequenceInStep
<1> QED
  BY <1>3, <1>4, <1>5, <1>6, <1>7 DEF Inductive

LEMMA RedirectRefusedStep == Inductive /\ RedirectRefused => Inductive'
<1> SUFFICES ASSUME Inductive, RedirectRefused PROVE Inductive'
  OBVIOUS
<1> USE DEF RedirectRefused, mainVars, netVars, objectVars, Ends, Settled
<1>1. TypeOK'
  <2>1. target' \in 0 .. MaxConns
    BY ConnsAssumption
  <2>2. /\ result' \in {"none", "pending", "list", "login", "oserror", "valueerror", "cancelled"}
        /\ reader' = "done" /\ grace' \in BOOLEAN
    BY DEF Inductive, TypeOK
  <2>3. UNCHANGED <<main, outcome, stop, link, inbox, wire, got, asked, state, crypto,
                    requested, requester, writer, sequence>>
    OBVIOUS
  <2> HIDE DEF RedirectRefused
  <2> QED
    BY <2>1, <2>2, <2>3 DEF Inductive, TypeOK
<1>2. Tasks'
  BY DEF Inductive, Tasks
<1> QED
  BY <1>1, <1>2, QuietStep

(* What the client writes on a connection it is redirected to              *)
LEMMA GreetingIs ==
    ASSUME NEW cr \in Ciphers, NEW st
    PROVE  /\ Greeting(st, cr) \in Seq(ClientPackets)
           /\ Greeting(st, cr)[1] = Packet("CLIENT_REDIRECTED", cr, 0)
           /\ st = "LOGIN" => /\ Len(Greeting(st, cr)) = 3
                             /\ Greeting(st, cr)[2] = Packet("HOMEPAGE_REQUEST", cr, 0)
                             /\ Greeting(st, cr)[3] = Packet("LOGIN", cr, 1)
           /\ st # "LOGIN" => Len(Greeting(st, cr)) = 1
<1> DEFINE a == Packet("CLIENT_REDIRECTED", cr, 0)
           b == Packet("HOMEPAGE_REQUEST", cr, 0)
           d == Packet("LOGIN", cr, 1)
           rest == IF st = "LOGIN" THEN <<b, d>> ELSE <<>>
<1>1. a \in ClientPackets /\ b \in ClientPackets /\ d \in ClientPackets
  BY PacketType DEF ClientOps
<1>2. Greeting(st, cr) = <<a>> \o rest
  BY DEF Greeting
<1> HIDE DEF a, b, d
<1>3. <<a>> \in Seq(ClientPackets) /\ rest \in Seq(ClientPackets)
  BY <1>1
<1>4. Len(<<a>>) = 1 /\ <<a>>[1] = a
  OBVIOUS
<1>5. /\ st = "LOGIN" => Len(rest) = 2 /\ rest[1] = b /\ rest[2] = d
      /\ st # "LOGIN" => Len(rest) = 0
  OBVIOUS
<1> HIDE DEF rest
<1>6. /\ <<a>> \o rest \in Seq(ClientPackets)
      /\ Len(<<a>> \o rest) = 1 + Len(rest)
      /\ (<<a>> \o rest)[1] = a
      /\ \A i \in 1 .. Len(rest) : (<<a>> \o rest)[i + 1] = rest[i]
  BY <1>3, <1>4
<1>7. st = "LOGIN" => (<<a>> \o rest)[2] = b /\ (<<a>> \o rest)[3] = d
  <2>1. st = "LOGIN" => 1 \in 1 .. Len(rest) /\ 2 \in 1 .. Len(rest)
    BY <1>5
  <2>2. 1 + 1 = 2 /\ 2 + 1 = 3
    OBVIOUS
  <2> QED
    BY <1>5, <1>6, <2>1, <2>2
<1> QED
  BY <1>2, <1>5, <1>6, <1>7 DEF a, b, d

LEMMA RedirectConnectedStep == Inductive /\ RedirectConnected => Inductive'
<1> SUFFICES ASSUME Inductive, RedirectConnected PROVE Inductive'
  OBVIOUS
<1>0. /\ target \in Conns /\ target >= 2 /\ writer = 0 /\ state = StateOf(target)
      /\ crypto = ServerCrypto(target) /\ crypto \in Ciphers
  BY DEF Inductive, Tasks, TypeOK, Conns, Keys, RedirectConnected
<1>1. /\ Frame(target, "ACCEPT") \in ServerFrames
      /\ Frame(target, "ACCEPT").op = "ACCEPT"
  BY DEF Frame, ServerFrames, ServerOps, ServerEncrypts
<1> DEFINE greeting == Greeting(state, crypto)
<1>2. /\ inbox' = [inbox EXCEPT ![target] = <<Frame(target, "ACCEPT")>>]
      /\ wire' = [wire EXCEPT ![target] = greeting]
      /\ link' = [link EXCEPT ![target] = "open"]
      /\ sequence' = IF state = "LOGIN" THEN 2 ELSE 0
      /\ reader' = "reading" /\ writer' = target /\ target' = 0 /\ grace' \in BOOLEAN
      /\ UNCHANGED <<main, outcome, stop, state, crypto, requested, result, requester,
                     got, asked>>
  BY DEF RedirectConnected, mainVars, objectVars
<1>3. /\ inbox'[target] = <<Frame(target, "ACCEPT")>>
      /\ wire'[target] = greeting
      /\ \A c \in Conns : c # target => inbox'[c] = inbox[c] /\ wire'[c] = wire[c]
  BY <1>0, <1>2 DEF Inductive, TypeOK
<1>4. /\ greeting \in Seq(ClientPackets)
      /\ greeting # <<>>
      /\ 1 \in DOMAIN greeting
      /\ greeting[1].op = "CLIENT_REDIRECTED"
      /\ sequence' = Len(greeting) - 1
      /\ \A i \in DOMAIN greeting : i # 1 =>
            /\ target = 2
            /\ greeting[i] \in [op : {"HOMEPAGE_REQUEST", "LOGIN"},
                                crypto : {crypto}, seq : {(i - 2) % SeqMod}]
  <2>1. state = "LOGIN" <=> target = 2
    BY <1>0 DEF StateOf, Conns
  <2>2. greeting[1].op = "CLIENT_REDIRECTED"
    <3>1. greeting[1] = Packet("CLIENT_REDIRECTED", crypto, 0)
      BY <1>0, GreetingIs
    <3>2. Packet("CLIENT_REDIRECTED", crypto, 0).op = "CLIENT_REDIRECTED"
      BY DEF Packet
    <3> QED
      BY <3>1, <3>2
  <2>3. /\ greeting \in Seq(ClientPackets)
        /\ Len(greeting) = IF state = "LOGIN" THEN 3 ELSE 1
    BY <1>0, GreetingIs
  <2>4. ASSUME state = "LOGIN"
        PROVE  /\ greeting[2] = [op |-> "HOMEPAGE_REQUEST", crypto |-> crypto, seq |-> 0 % SeqMod]
               /\ greeting[3] = [op |-> "LOGIN", crypto |-> crypto, seq |-> 1 % SeqMod]
    BY <1>0, <2>4, GreetingIs DEF Packet, ClientEncrypts
  <2> HIDE DEF greeting
  <2>5. greeting # <<>> /\ 1 \in DOMAIN greeting /\ sequence' = Len(greeting) - 1
    BY <1>2, <2>3
  <2>6. ASSUME NEW i \in DOMAIN greeting, i # 1
        PROVE  /\ target = 2
               /\ greeting[i] \in [op : {"HOMEPAGE_REQUEST", "LOGIN"},
                                   crypto : {crypto}, seq : {(i - 2) % SeqMod}]
    <3>1. state = "LOGIN" /\ (i = 2 \/ i = 3)
      BY <2>3, <2>6
    <3>2. 2 - 2 = 0 /\ 3 - 2 = 1
      OBVIOUS
    <3> QED
      BY <2>1, <2>4, <3>1, <3>2
  <2> QED
    BY <2>2, <2>3, <2>5, <2>6
<1> HIDE DEF greeting
<1>5. TypeOK'
  <2>1. target' \in 0 .. MaxConns /\ writer' \in 0 .. MaxConns /\ sequence' \in Nat
    BY <1>0, <1>2, ConnsAssumption DEF Conns
  <2>2. wire' \in [Conns -> Seq(ClientPackets)]
    BY <1>0, <1>2, <1>4 DEF Inductive, TypeOK
  <2>3. inbox' \in [Conns -> Seq(ServerFrames)]
    BY <1>0, <1>1, <1>2 DEF Inductive, TypeOK
  <2>4. link' \in [Conns -> {"idle", "open", "cut", "moved", "closed"}]
    BY <1>0, <1>2 DEF Inductive, TypeOK
  <2> QED
    BY <1>2, <2>1, <2>2, <2>3, <2>4 DEF Inductive, TypeOK
<1>6. \A i \in DOMAIN inbox'[target] : inbox'[target][i].op = "ACCEPT"
  BY <1>1, <1>3
<1>7. Placed'
  <2>1. ASSUME NEW c \in Conns
        PROVE  /\ \A i \in DOMAIN wire'[c] : wire'[c][i].op \in ClientSays(c)
               /\ \A i \in DOMAIN inbox'[c] : inbox'[c][i].op \in ServerSays(c)
    <3>1. CASE c = target
      <4>1. \A i \in DOMAIN greeting : greeting[i].op \in ClientSays(target)
        <5> TAKE i \in DOMAIN greeting
        <5>1. CASE i = 1
          BY <1>0, <1>4, <5>1 DEF ClientSays
        <5>2. CASE i # 1
          <6>1. target = 2 /\ greeting[i].op \in {"HOMEPAGE_REQUEST", "LOGIN"}
            BY <1>4, <5>2
          <6> QED
            BY <6>1 DEF ClientSays
        <5> QED
          BY <5>1, <5>2
      <4>2. "ACCEPT" \in ServerSays(target)
        BY DEF ServerSays
      <4> QED
        BY <1>3, <1>6, <3>1, <4>1, <4>2
    <3>2. CASE c # target
      BY <1>3, <3>2 DEF Inductive, Placed
    <3> QED
      BY <3>1, <3>2
  <2> QED
    BY <2>1 DEF Placed
<1>8. Tasks'
  <2>1. main' = "waiting"
    BY <1>2 DEF Inductive, Tasks, RedirectConnected
  <2>2. requester' = "sleeping" => writer' # 2 /\ writer' # 1
    BY <1>0, <1>2 DEF Inductive, Tasks, StateOf
  <2> QED
    BY <1>0, <1>2, <2>1, <2>2 DEF Inductive, Tasks
<1>9. ASSUME NEW c \in Conns, NEW i \in DOMAIN wire'[c]
      PROVE  IF i = 1 THEN ~ClientEncrypts(wire'[c][i].op)
             ELSE /\ ClientEncrypts(wire'[c][i].op)
                  /\ wire'[c][i].seq = (i - 2) % SeqMod
                  /\ wire'[c][i].crypto = ServerCrypto(c)
  <2>1. CASE c = target
    <3>1. CASE i = 1
      BY <1>3, <1>4, <2>1, <3>1 DEF ClientEncrypts
    <3>2. CASE i # 1
      <4>1. greeting[i] \in [op : {"HOMEPAGE_REQUEST", "LOGIN"},
                             crypto : {crypto}, seq : {(i - 2) % SeqMod}]
        BY <1>3, <1>4, <2>1, <3>2
      <4> QED
        BY <1>0, <1>3, <2>1, <3>2, <4>1 DEF ClientEncrypts
    <3> QED
      BY <3>1, <3>2
  <2>2. CASE c # target
    BY <1>3, <2>2 DEF Inductive, Keys, Numbers, ServerCanRead, SequenceInStep
  <2> QED
    BY <2>1, <2>2
<1>10. Keys'
  <2>1. ServerCanRead'
    BY <1>9 DEF ServerCanRead
  <2> QED
    BY <1>0, <1>2, <2>1 DEF Keys
<1>11. Numbers'
  <2>1. SequenceInStep'
    BY <1>9 DEF SequenceInStep
  <2>2. inbox'[1] = inbox[1] /\ wire'[1] = wire[1]
    BY <1>0, <1>3, ConnsAssumption DEF Conns
  <2>3. reader' # "opening" /\ writer' = target
    BY <1>2
  <2>4. wire'[target] # <<>> /\ sequence' = Len(wire'[target]) - 1
    BY <1>3, <1>4
  <2>5. \A i \in DOMAIN inbox'[1] :
           IF inbox'[1][i].op = "ACCEPT" THEN i = 1 /\ wire'[1] = <<>>
           ELSE inbox'[1][i].op \notin {"BAD_BODY", "BAD_FRAME"} => wire'[1] # <<>>
    BY <2>2 DEF Inductive, Numbers
  <2> QED
    BY <2>1, <2>3, <2>4, <2>5 DEF Numbers
<1> QED
  BY <1>5, <1>7, <1>8, <1>10, <1>11 DEF Inductive
-----------------------------------------------------------------------------
(* The read loop                                                           *)

(* The tasks after a dispatch that leaves the reader on its connection     *)
LEMMA ReaderTasks ==
    ASSUME Inductive, reader = "reading", reader' \in {"reading", "done", "crashed"},
           result' = "cancelled" => result = "cancelled",
           UNCHANGED <<main, stop, state, writer, requester>>
    PROVE  Tasks'
<1>1. main = "waiting" /\ main' = "waiting"
  BY DEF Inductive, Tasks
<1> QED
  BY <1>1 DEF Inductive, Tasks

LEMMA ReaderTypes ==
    ASSUME Inductive,
           inbox' \in [Conns -> Seq(ServerFrames)], wire' \in [Conns -> Seq(ClientPackets)],
           sequence' \in Nat, reader' \in {"reading", "done", "crashed"}, grace' \in BOOLEAN,
           result' \in {"none", "pending", "list", "login", "oserror", "valueerror", "cancelled"},
           UNCHANGED <<main, outcome, stop, target, requester, state, writer, crypto,
                       requested, link, got, asked>>
    PROVE  TypeOK'
  BY DEF Inductive, TypeOK

(* The handlers that only read                                             *)
ReadsOnly ==
    \/ HandleRaisesValueError \/ HandleCrashes \/ HandleLoginMessage
    \/ HandleWorldList \/ IgnoreFrame

LEMMA ReadsOnlyStep == Inductive /\ ReadsOnly => Inductive'
<1> SUFFICES ASSUME Inductive, ReadsOnly PROVE Inductive'
  OBVIOUS
<1>1. /\ \E ops : Reading(ops)
      /\ reader' \in {"reading", "done", "crashed"}
      /\ result' = result
         \/ (result = "pending" /\ result' \in {"list", "login", "oserror", "valueerror"})
      /\ UNCHANGED <<main, outcome, stop, target, requester, state, writer, crypto,
                     requested, link, got, asked, wire, sequence>>
  BY DEF ReadsOnly, HandleRaisesValueError, HandleCrashes, Crashes, HandleLoginMessage,
         HandleWorldList, IgnoreFrame, ReadOn, Ends, Settled, objectVars, mainVars
<1>2. PICK ops : Reading(ops)
  BY <1>1
<1>3. writer # 0
  BY <1>2 DEF Inductive, Tasks, Reading
<1>4. /\ reader = "reading" /\ Shrinks /\ grace' \in BOOLEAN
      /\ inbox' \in [Conns -> Seq(ServerFrames)]
  <2>1. TypeOK
    BY DEF Inductive
  <2>2. grace' = FALSE /\ reader = "reading" /\ Shrinks
        /\ inbox' \in [Conns -> Seq(ServerFrames)]
    BY <1>2, <1>3, <2>1, ReadingEffect
  <2> QED
    BY <2>2
<1>5. Tasks'
  BY <1>1, <1>4, ReaderTasks
<1>6. TypeOK'
  <2>1. wire' \in [Conns -> Seq(ClientPackets)] /\ sequence' \in Nat
    BY <1>1 DEF Inductive, TypeOK
  <2>2. result' \in {"none", "pending", "list", "login", "oserror", "valueerror", "cancelled"}
    BY <1>1 DEF Inductive, TypeOK
  <2> QED
    BY <1>1, <1>4, <2>1, <2>2, ReaderTypes
<1> QED
  BY <1>1, <1>4, <1>5, <1>6, ReadStep

(* The handlers that answer: what they read and what they may write follow *)
(* from the connection                                                     *)
LEMMA AnswerStep ==
    ASSUME Inductive, NEW ops, Reading(ops),
           NEW op \in ClientOps, NEW cr \in Ciphers, Send(op, cr), ReadOn,
           op \in ClientSays(writer), crypto' = cr,
           IF ClientEncrypts(op)
             THEN cr = ServerCrypto(writer) /\ wire[writer] # <<>>
             ELSE op = "VERSION" /\ writer = 1 /\ wire[1] = <<>> /\ cr = crypto,
           UNCHANGED <<main, outcome, stop, target, requester, state, writer,
                       requested, link, got, asked, result>>
    PROVE  Inductive'
<1>1. reader = "reading" /\ writer # 0
  BY DEF Inductive, Tasks, Reading
<1>2. /\ writer \in Conns /\ Shrinks /\ grace' \in BOOLEAN
      /\ inbox' \in [Conns -> Seq(ServerFrames)]
  <2>1. TypeOK
    BY DEF Inductive
  <2>2. grace' = FALSE /\ writer \in Conns /\ Shrinks
        /\ inbox' \in [Conns -> Seq(ServerFrames)]
    BY <1>1, <2>1, ReadingEffect
  <2> QED
    BY <2>2
<1>3. reader' \in {"reading", "done"}
  BY DEF ReadOn
<1>4. Tasks'
  BY <1>1, <1>3, ReaderTasks
<1>5. TypeOK'
  <2>1. wire' \in [Conns -> Seq(ClientPackets)] /\ sequence' \in Nat
    BY <1>2, SendEffect DEF Inductive, TypeOK
  <2> QED
    BY <1>2, <1>3, <2>1 DEF Inductive, TypeOK
<1> QED
  BY <1>2, <1>3, <1>4, <1>5, WriteStep

(* What the reader knows of its connection from the frame it reads         *)
LEMMA FrontFrame ==
    ASSUME Inductive, NEW ops, Reading(ops)
    PROVE  /\ writer \in Conns /\ writer # 0 /\ reader = "reading" /\ state = StateOf(writer)
           /\ 1 \in DOMAIN inbox[writer]
           /\ inbox[writer][1].op \in ops
           /\ Head(inbox[writer]) = inbox[writer][1]
           /\ inbox[writer][1].op \in ServerSays(writer)
           /\ Shrinks
           /\ inbox' \in [Conns -> Seq(ServerFrames)]
           /\ grace' \in BOOLEAN
           /\ main = "waiting"
<1>1. reader = "reading" /\ writer # 0 /\ state = StateOf(writer) /\ main = "waiting"
  BY DEF Inductive, Tasks, Reading
<1>2. TypeOK
  BY DEF Inductive
<1>3. /\ writer \in Conns /\ 1 \in DOMAIN inbox[writer]
      /\ Head(inbox[writer]) = inbox[writer][1]
      /\ inbox[writer][1].op \in ops
      /\ inbox' \in [Conns -> Seq(ServerFrames)]
      /\ Shrinks
      /\ grace' = FALSE
  BY <1>1, <1>2, ReadingEffect
<1>4. grace' \in BOOLEAN
  BY <1>3
<1>5. inbox[writer][1].op \in ServerSays(writer)
  BY <1>3 DEF Inductive, Placed
<1> QED
  BY <1>1, <1>3, <1>4, <1>5

LEMMA HandleAcceptStep == Inductive /\ HandleAccept => Inductive'
<1> SUFFICES ASSUME Inductive, HandleAccept PROVE Inductive'
  OBVIOUS
<1> DEFINE ops == {"ACCEPT"}
<1>1. /\ Reading(ops) /\ ReadOn
      /\ UNCHANGED <<main, outcome, stop, target, requester, state, writer, crypto,
                     requested, link, got, asked, result>>
  BY DEF HandleAccept, objectVars, mainVars
<1>2. /\ writer \in Conns /\ writer # 0 /\ reader = "reading" /\ state = StateOf(writer)
      /\ 1 \in DOMAIN inbox[writer] /\ inbox[writer][1].op = "ACCEPT"
      /\ Shrinks /\ inbox' \in [Conns -> Seq(ServerFrames)] /\ grace' \in BOOLEAN
  BY <1>1, FrontFrame
<1>3. reader' \in {"reading", "done"}
  BY <1>1 DEF ReadOn
<1>4. CASE state = "LOBBY"
  <2>1. writer = 1
    BY <1>2, <1>4 DEF StateOf
  <2>2. wire[1] = <<>>
    BY <1>2, <2>1 DEF Inductive, Numbers
  <2>3. Send("VERSION", crypto) /\ crypto \in Ciphers
    BY <1>4 DEF HandleAccept, Inductive, TypeOK
  <2>4. "VERSION" \in ClientOps /\ "VERSION" \in ClientSays(1) /\ ~ClientEncrypts("VERSION")
    BY DEF ClientOps, ClientSays, ClientEncrypts
  <2> QED
    BY <1>1, <2>1, <2>2, <2>3, <2>4, AnswerStep
<1>5. CASE state # "LOBBY"
  <2>1. UNCHANGED <<wire, sequence>>
    BY <1>5 DEF HandleAccept
  <2>2. Tasks'
    BY <1>1, <1>2, <1>3, ReaderTasks
  <2>3. TypeOK'
    BY <1>1, <1>2, <1>3, <2>1 DEF Inductive, TypeOK
  <2> QED
    BY <1>1, <1>2, <1>3, <2>1, <2>2, <2>3, ReadStep
<1> QED
  BY <1>4, <1>5

LEMMA HandleConnectionInfoStep == Inductive /\ HandleConnectionInfo => Inductive'
<1> SUFFICES ASSUME Inductive, HandleConnectionInfo PROVE Inductive'
  OBVIOUS
<1> DEFINE ops == {"INFO"}
<1>1. /\ Reading(ops) /\ ReadOn
      /\ crypto' = InfoCrypto(writer)
      /\ UNCHANGED <<main, outcome, stop, target, requester, state, writer,
                     requested, link, got, asked, result>>
  BY DEF HandleConnectionInfo, mainVars
<1>2. /\ writer \in Conns /\ state = StateOf(writer)
      /\ 1 \in DOMAIN inbox[writer] /\ inbox[writer][1].op = "INFO"
      /\ inbox[writer][1].op \in ServerSays(writer)
  BY <1>1, FrontFrame
<1>3. writer = 1
  BY <1>2 DEF ServerSays
<1>4. wire[1] # <<>>
  BY <1>2, <1>3 DEF Inductive, Numbers
<1>5. crypto' = ServerCrypto(1) /\ crypto' \in Ciphers
  BY <1>1, <1>3, ConnsAssumption DEF InfoCrypto, ServerCrypto, World, Ciphers
<1>6. Send("TABLE_REQUEST", crypto')
  BY <1>2, <1>3 DEF HandleConnectionInfo, StateOf
<1>7. /\ "TABLE_REQUEST" \in ClientOps /\ "TABLE_REQUEST" \in ClientSays(1)
      /\ ClientEncrypts("TABLE_REQUEST")
  BY DEF ClientOps, ClientSays, ClientEncrypts
<1>8. Send("TABLE_REQUEST", ServerCrypto(1)) /\ ServerCrypto(1) \in Ciphers
  BY <1>5, <1>6
<1> QED
  BY <1>1, <1>3, <1>4, <1>5, <1>7, <1>8, AnswerStep

LEMMA HandleServerTableStep == Inductive /\ HandleServerTable => Inductive'
<1> SUFFICES ASSUME Inductive, HandleServerTable PROVE Inductive'
  OBVIOUS
<1> DEFINE ops == {"TABLE"} \cup IF ServerIdSet THEN {"EMPTY_TABLE"} ELSE {}
<1>1. /\ Reading(ops) /\ ReadOn /\ Send("SERVER_ID", crypto)
      /\ UNCHANGED <<main, outcome, stop, target, requester, state, writer, crypto,
                     requested, link, got, asked, result>>
  BY DEF HandleServerTable, objectVars, mainVars
<1>2. /\ writer \in Conns
      /\ 1 \in DOMAIN inbox[writer] /\ inbox[writer][1].op \in ops
      /\ inbox[writer][1].op \in ServerSays(writer)
  BY <1>1, FrontFrame
<1>3. inbox[writer][1].op \in {"TABLE", "EMPTY_TABLE"}
  BY <1>2
<1>4. writer = 1
  BY <1>2, <1>3 DEF ServerSays
<1>5. wire[1] # <<>>
  BY <1>2, <1>3, <1>4 DEF Inductive, Numbers
<1>6. crypto = ServerCrypto(1) /\ crypto \in Ciphers
  BY <1>2, <1>3, <1>4 DEF Inductive, Keys, LobbyFresh, TypeOK
<1>7. "SERVER_ID" \in ClientOps /\ "SERVER_ID" \in ClientSays(1) /\ ClientEncrypts("SERVER_ID")
  BY DEF ClientOps, ClientSays, ClientEncrypts
<1> HIDE DEF ops
<1> QED
  BY <1>1, <1>4, <1>5, <1>6, <1>7, AnswerStep

LEMMA HandleChallengeStep == Inductive /\ HandleChallenge => Inductive'
<1> SUFFICES ASSUME Inductive, HandleChallenge PROVE Inductive'
  OBVIOUS
<1> DEFINE ops == {"HEARTBEAT", "TICKS"}
           op  == Response(Head(inbox[writer]).op)
<1>1. /\ Reading(ops) /\ ReadOn /\ Send(op, crypto)
      /\ UNCHANGED <<main, outcome, stop, target, requester, state, writer, crypto,
                     requested, link, got, asked, result>>
  BY DEF HandleChallenge, objectVars, mainVars
<1>2. /\ writer \in Conns
      /\ 1 \in DOMAIN inbox[writer] /\ inbox[writer][1].op \in ops
      /\ inbox[writer][1].op \in ServerSays(writer)
  BY <1>1, FrontFrame
<1>3. writer > 1
  BY <1>2 DEF ServerSays, Conns
<1>4. /\ crypto = ServerCrypto(writer) /\ crypto \in Ciphers /\ wire[writer] # <<>>
  BY <1>3 DEF Inductive, Keys, Numbers, TypeOK
<1>5. op \in {"HEARTBEAT_RESPONSE", "TICKS_RESPONSE"}
  BY DEF Response
<1>6. op \in ClientOps /\ op \in ClientSays(writer) /\ ClientEncrypts(op)
  BY <1>3, <1>5 DEF ClientOps, ClientSays, ClientEncrypts
<1> HIDE DEF op
<1> QED
  BY <1>1, <1>4, <1>6, AnswerStep

LEMMA HandleUserIdStep == Inductive /\ HandleUserId => Inductive'
<1> SUFFICES ASSUME Inductive, HandleUserId PROVE Inductive'
  OBVIOUS
<1> DEFINE ops == {"USER_ID"}
<1>1. /\ Reading(ops) /\ ReadOn
      /\ UNCHANGED <<main, outcome, stop, target, state, writer, crypto, sequence, wire,
                     link, got, asked, result>>
      /\ \/ MayRequest /\ requester' = "sleeping" /\ requested' \in BOOLEAN
         \/ UNCHANGED <<requester, requested>>
  BY DEF HandleUserId, mainVars
<1>2. /\ writer \in Conns /\ writer # 0 /\ reader = "reading" /\ state = StateOf(writer)
      /\ Shrinks /\ inbox' \in [Conns -> Seq(ServerFrames)] /\ grace' \in BOOLEAN
      /\ main = "waiting"
  BY <1>1, FrontFrame
<1>3. reader' \in {"reading", "done"}
  BY <1>1 DEF ReadOn
<1>4. requester' = "sleeping" => state = "WORLD" /\ writer # 1 /\ writer # 2
  BY <1>1, <1>2 DEF MayRequest, StateOf, Inductive, Tasks
<1>5. Tasks'
  BY <1>1, <1>2, <1>3, <1>4 DEF Inductive, Tasks
<1>6. TypeOK'
  <2>1. requested' \in BOOLEAN /\ requester' \in {"none", "sleeping", "done", "cancelled"}
    BY <1>1 DEF Inductive, TypeOK
  <2> QED
    BY <1>1, <1>2, <1>3, <2>1 DEF Inductive, TypeOK
<1> QED
  BY <1>1, <1>2, <1>3, <1>5, <1>6, ReadStep

LEMMA HandleRedirectStep == Inductive /\ HandleRedirect => Inductive'
<1> SUFFICES ASSUME Inductive, HandleRedirect PROVE Inductive'
  OBVIOUS
<1> DEFINE ops == {"REDIRECT"}
<1>1. /\ Reading(ops)
      /\ state' = AfterRedirect(state)
      /\ UNCHANGED <<main, outcome, stop, crypto, requested, result, requester, sequence,
                     wire, got, asked>>
  BY DEF HandleRedirect, mainVars
<1>2. /\ writer \in Conns /\ writer # 0 /\ reader = "reading" /\ state = StateOf(writer)
      /\ inbox[writer][1].op = "REDIRECT" /\ inbox[writer][1].op \in ServerSays(writer)
      /\ Shrinks /\ inbox' \in [Conns -> Seq(ServerFrames)] /\ grace' \in BOOLEAN
      /\ main = "waiting"
  BY <1>1, FrontFrame
<1>3. writer < MaxConns
  BY <1>2, ConnsAssumption DEF ServerSays, Conns
<1>4. state' \in {"LOGIN", "WORLD"}
  BY <1>1 DEF AfterRedirect
<1>5. requester' = "sleeping" => state' = "WORLD" /\ writer # 1 /\ writer # 2
  BY <1>1 DEF Inductive, Tasks, AfterRedirect
<1>6. CASE result = "pending"
  <2>1. /\ target' = writer + 1 /\ writer' = 0 /\ reader' = "closing"
        /\ link' = SocketClosed(writer, "moved")
    BY <1>6 DEF HandleRedirect
  <2>2. target' \in 2 .. MaxConns
    BY <1>2, <1>3, <2>1, ConnsAssumption DEF Conns
  <2>3. TypeOK'
    <3>1. target' \in 0 .. MaxConns /\ writer' \in 0 .. MaxConns
      BY <2>1, <2>2, ConnsAssumption
    <3>2. link' \in [Conns -> {"idle", "open", "cut", "moved", "closed"}]
      BY <2>1 DEF Inductive, TypeOK, SocketClosed
    <3> QED
      BY <1>1, <1>2, <1>4, <2>1, <3>1, <3>2 DEF Inductive, TypeOK
  <2>4. Tasks'
    <3>1. state' = StateOf(target')
      BY <1>1, <1>2, <2>1 DEF StateOf, AfterRedirect, Conns
    <3>2. target' >= 2
      BY <2>2, ConnsAssumption
    <3> QED
      BY <1>1, <1>2, <1>5, <2>1, <3>1, <3>2 DEF Inductive, Tasks
  <2>5. Placed'
    <3>1. \A c \in Conns : \A i \in DOMAIN inbox'[c] : inbox'[c][i].op \in ServerSays(c)
      BY <1>2 DEF Inductive, Placed, Shrinks
    <3> QED
      BY <1>1, <3>1 DEF Inductive, Placed
  <2>6. Keys'
    BY <1>1, <2>1 DEF Inductive, Keys, ServerCanRead
  <2>7. Numbers'
    <3>1. 1 \in Conns
      BY ConnsAssumption DEF Conns
    <3>2. ASSUME NEW i \in DOMAIN inbox'[1]
          PROVE  IF inbox'[1][i].op = "ACCEPT" THEN i = 1 /\ wire'[1] = <<>>
                 ELSE inbox'[1][i].op \notin {"BAD_BODY", "BAD_FRAME"} => wire'[1] # <<>>
      BY <1>1, <1>2, <3>1, <3>2 DEF Inductive, Numbers, Shrinks
    <3>3. SequenceInStep'
      BY <1>1 DEF Inductive, Numbers, SequenceInStep
    <3> QED
      BY <2>1, <3>2, <3>3 DEF Numbers
  <2> QED
    BY <2>3, <2>4, <2>5, <2>6, <2>7 DEF Inductive
<1>7. CASE result # "pending"
  <2>1. reader' = "done" /\ UNCHANGED <<target, link, writer>>
    BY <1>7 DEF HandleRedirect
  <2>2. TypeOK'
    BY <1>1, <1>2, <1>4, <2>1 DEF Inductive, TypeOK
  <2>3. Tasks'
    <3>1. state' = AfterRedirect(StateOf(writer))
      BY <1>1, <1>2
    <3> QED
      BY <1>1, <1>2, <1>5, <2>1, <3>1 DEF Inductive, Tasks
  <2> QED
    BY <1>1, <1>2, <2>1, <2>2, <2>3, ReadStep
<1> QED
  BY <1>6, <1>7

(* The frames up to the bad one are lost.                                  *)
LEMMA BadFrameEffect ==
    ASSUME Inductive, ReadBadFrame
    PROVE  inbox' \in [Conns -> Seq(ServerFrames)] /\ Shrinks
<1>1. PICK n \in DOMAIN inbox[writer] :
         inbox' = [inbox EXCEPT ![writer] = SubSeq(@, n + 1, Len(@))]
  BY DEF ReadBadFrame
<1>2. writer \in Conns
  BY DEF ReadBadFrame, Inductive, TypeOK, Tasks, Conns
<1>3. inbox[writer] \in Seq(ServerFrames)
  BY <1>2 DEF Inductive, TypeOK
<1> DEFINE rest == SubSeq(inbox[writer], n + 1, Len(inbox[writer]))
<1>4. /\ rest \in Seq(ServerFrames)
      /\ \A i \in DOMAIN rest : /\ n + i \in DOMAIN inbox[writer] /\ n + i > 1
                               /\ rest[i] = inbox[writer][n + i]
  <2>1. n \in 1 .. Len(inbox[writer]) /\ Len(inbox[writer]) \in Nat
    BY <1>1, <1>3
  <2>2. /\ rest \in Seq(ServerFrames)
        /\ Len(rest) = Len(inbox[writer]) - n
        /\ \A i \in 1 .. Len(inbox[writer]) - n : rest[i] = inbox[writer][(n + 1) + i - 1]
    BY <1>3, <2>1
  <2> HIDE DEF rest
  <2>3. DOMAIN rest = 1 .. Len(inbox[writer]) - n
    BY <2>1, <2>2
  <2>4. \A i \in DOMAIN rest : /\ (n + 1) + i - 1 = n + i /\ n + i > 1
                             /\ n + i \in 1 .. Len(inbox[writer])
    BY <2>1, <2>3
  <2>5. DOMAIN inbox[writer] = 1 .. Len(inbox[writer])
    BY <1>3
  <2> QED
    BY <2>2, <2>3, <2>4, <2>5
<1> HIDE DEF rest
<1>5. /\ inbox'[writer] = rest
      /\ \A c \in Conns : c # writer => inbox'[c] = inbox[c]
      /\ inbox' \in [Conns -> Seq(ServerFrames)]
  BY <1>1, <1>2, <1>4 DEF rest, Inductive, TypeOK
<1>6. Shrinks
  BY <1>4, <1>5 DEF Shrinks
<1> QED
  BY <1>5, <1>6

LEMMA ReadBadFrameStep == Inductive /\ ReadBadFrame => Inductive'
<1> SUFFICES ASSUME Inductive, ReadBadFrame PROVE Inductive'
  OBVIOUS
<1>1. /\ reader = "reading" /\ reader' \in {"done", "crashed"}
      /\ result' \in {result, Settled(result, "valueerror")}
      /\ grace' \in BOOLEAN
      /\ UNCHANGED <<main, outcome, stop, target, requester, state, writer, crypto, sequence,
                     requested, link, wire, got, asked>>
  <2>1. grace' = FALSE
    BY DEF ReadBadFrame
  <2> QED
    BY <2>1 DEF ReadBadFrame, Ends, Crashes, objectVars, mainVars
<1>2. inbox' \in [Conns -> Seq(ServerFrames)] /\ Shrinks
  BY BadFrameEffect
<1>3. /\ result' \in {"none", "pending", "list", "login", "oserror", "valueerror", "cancelled"}
      /\ result' = "cancelled" => result = "cancelled"
  BY <1>1 DEF Settled, Inductive, TypeOK
<1>4. Tasks'
  BY <1>1, <1>3, ReaderTasks
<1>5. TypeOK'
  BY <1>1, <1>2, <1>3 DEF Inductive, TypeOK
<1> QED
  BY <1>1, <1>2, <1>4, <1>5, ReadStep

LEMMA ReadClosedStep == Inductive /\ ReadClosed => Inductive'
<1> SUFFICES ASSUME Inductive, ReadClosed PROVE Inductive'
  OBVIOUS
<1>1. /\ reader = "reading" /\ reader' = "done" /\ result' = Settled(result, "oserror")
      /\ grace' \in BOOLEAN
      /\ UNCHANGED <<main, outcome, stop, target, requester, state, writer, crypto, sequence,
                     requested, link, inbox, wire, got, asked>>
  <2>1. grace' = FALSE
    BY DEF ReadClosed
  <2> QED
    BY <2>1 DEF ReadClosed, Ends, objectVars, mainVars, netVars
<1>2. /\ result' \in {"none", "pending", "list", "login", "oserror", "valueerror", "cancelled"}
      /\ result' = "cancelled" => result = "cancelled"
  BY <1>1 DEF Settled, Inductive, TypeOK
<1>3. Tasks'
  BY <1>1, <1>2, ReaderTasks
<1>4. TypeOK'
  BY <1>1, <1>2 DEF Inductive, TypeOK
<1> QED
  BY <1>1, <1>3, <1>4, QuietStep
-----------------------------------------------------------------------------
(* The servers                                                             *)

LEMMA ServerCloseStep == ASSUME NEW c \in Conns, Inductive, ServerClose(c) PROVE Inductive'
<1>1. /\ link' = [link EXCEPT ![c] = "cut"]
      /\ inbox' = inbox \/ inbox' = [inbox EXCEPT ![c] = <<>>]
      /\ UNCHANGED <<main, outcome, stop, state, crypto, requested, result, grace, reader,
                     target, requester, writer, sequence, wire, got, asked>>
  BY DEF ServerClose, clientVars, mainVars, objectVars
<1>2. /\ inbox' \in [Conns -> Seq(ServerFrames)]
      /\ \A d \in Conns : inbox'[d] = inbox[d] \/ inbox'[d] = <<>>
  <2>1. inbox \in [Conns -> Seq(ServerFrames)]
    BY DEF Inductive, TypeOK
  <2>2. CASE inbox' = inbox
    BY <2>1, <2>2
  <2>3. CASE inbox' = [inbox EXCEPT ![c] = <<>>]
    <3>1. <<>> \in Seq(ServerFrames)
      OBVIOUS
    <3> QED
      BY <2>1, <2>3, <3>1
  <2> QED
    BY <1>1, <2>2, <2>3
<1>3. TypeOK'
  <2>1. link' \in [Conns -> {"idle", "open", "cut", "moved", "closed"}]
    BY <1>1 DEF Inductive, TypeOK
  <2> QED
    BY <1>1, <1>2, <2>1 DEF Inductive, TypeOK
<1>4. Tasks'
  BY <1>1 DEF Inductive, Tasks
<1>5. Placed'
  BY <1>1, <1>2 DEF Inductive, Placed
<1>6. 1 \in Conns
  BY ConnsAssumption DEF Conns
<1>7. Keys'
  BY <1>1, <1>2, <1>6 DEF Inductive, Keys, ServerCanRead, LobbyFresh
<1>8. Numbers'
  <2>1. SequenceInStep'
    BY <1>1 DEF Inductive, Numbers, SequenceInStep
  <2>2. \A i \in DOMAIN inbox'[1] :
           IF inbox'[1][i].op = "ACCEPT" THEN i = 1 /\ wire[1] = <<>>
           ELSE inbox'[1][i].op \notin {"BAD_BODY", "BAD_FRAME"} => wire[1] # <<>>
    BY <1>2, <1>6 DEF Inductive, Numbers
  <2> QED
    BY <1>1, <2>1, <2>2 DEF Inductive, Numbers
<1> QED
  BY <1>3, <1>4, <1>5, <1>7, <1>8 DEF Inductive

(* The answers of the server of connection c                               *)
LEMMA RepliesAre ==
    ASSUME NEW c \in Conns, NEW op \in ClientSays(c), NEW ops \in Replies(c, op)
    PROVE  /\ ops \in Seq(ServerSays(c) \ {"ACCEPT"})
           /\ c = 1 => \/ \A i \in DOMAIN ops : ops[i] \notin {"TABLE", "EMPTY_TABLE"}
                      \/ op # "VERSION"
<1> DEFINE S == ServerSays(c) \ {"ACCEPT"}
<1>1. CASE c = 1
  <2>1. "INFO" \in S /\ "TABLE" \in S /\ "EMPTY_TABLE" \in S /\ "GARBLED_TABLE" \in S
        /\ "REDIRECT" \in S
    BY <1>1 DEF ServerSays
  <2>2. op \in {"VERSION", "TABLE_REQUEST", "SERVER_ID"}
    BY <1>1 DEF ClientSays
  <2>3. ops \in {<<"INFO">>, <<"TABLE">>, <<"EMPTY_TABLE">>, <<"GARBLED_TABLE">>, <<"REDIRECT">>}
        /\ (op = "VERSION" => ops = <<"INFO">>)
    BY <2>2 DEF Replies, If
  <2>4. ops \in Seq(S)
    <3> HIDE DEF S
    <3>1. /\ <<"INFO">> \in Seq(S) /\ <<"TABLE">> \in Seq(S) /\ <<"EMPTY_TABLE">> \in Seq(S)
          /\ <<"GARBLED_TABLE">> \in Seq(S) /\ <<"REDIRECT">> \in Seq(S)
      BY <2>1
    <3> QED
      BY <2>3, <3>1
  <2>5. op = "VERSION" => \A i \in DOMAIN ops : ops[i] = "INFO"
    BY <2>3
  <2> QED
    BY <2>4, <2>5
<1>2. CASE c # 1
  <2>1. CASE c = 2
    <3>1. "OTHER" \in S /\ "CONFIRM" \in S /\ "REJECT" \in S /\ "REDIRECT" \in S
      BY <2>1 DEF ServerSays
    <3>2. op \in {"CLIENT_REDIRECTED", "HEARTBEAT_RESPONSE", "TICKS_RESPONSE", "EXIT_REQUEST",
                  "HOMEPAGE_REQUEST", "LOGIN"}
      BY <2>1 DEF ClientSays
    <3>3. ops \in {<<>>, <<"OTHER">>, <<"CONFIRM", "REDIRECT">>, <<"REJECT">>}
      BY <2>1, <3>2 DEF Replies, If, World
    <3>4. ops \in Seq(S)
      <4> HIDE DEF S
      <4>1. /\ <<>> \in Seq(S) /\ <<"OTHER">> \in Seq(S) /\ <<"CONFIRM", "REDIRECT">> \in Seq(S)
            /\ <<"REJECT">> \in Seq(S)
        BY <3>1
      <4> QED
        BY <3>3, <4>1
    <3> QED
      BY <1>2, <3>4
  <2>2. CASE c # 2
    <3>1. "USER_ID" \in S /\ "WORLD_LIST" \in S
      BY <1>2, <2>2 DEF ServerSays
    <3>2. op \in {"CLIENT_REDIRECTED", "HEARTBEAT_RESPONSE", "TICKS_RESPONSE", "EXIT_REQUEST",
                  "WORLD_LIST_REQUEST"}
      BY <1>2, <2>2 DEF ClientSays
    <3>3. ops \in {<<>>, <<"USER_ID">>, <<"WORLD_LIST">>}
      BY <3>2 DEF Replies, If
    <3>4. ops \in Seq(S)
      <4> HIDE DEF S
      <4>1. <<>> \in Seq(S) /\ <<"USER_ID">> \in Seq(S) /\ <<"WORLD_LIST">> \in Seq(S)
        BY <3>1
      <4> QED
        BY <3>3, <4>1
    <3> QED
      BY <1>2, <3>4
  <2> QED
    BY <2>1, <2>2
<1> QED
  BY <1>1, <1>2

LEMMA SaysAreOps == ASSUME NEW c \in Conns PROVE ServerSays(c) \subseteq ServerOps
  BY DEF ServerSays, ServerOps

(* A frame of the server of c is a frame, and keeps its opcode.            *)
LEMMA FrameIs ==
    ASSUME NEW c \in Conns, NEW op \in ServerOps
    PROVE  Frame(c, op) \in ServerFrames /\ Frame(c, op).op = op
<1>1. ServerCrypto(c) \in Ciphers
  BY ConnsAssumption DEF ServerCrypto, Ciphers, Conns
<1> QED
  BY <1>1 DEF Frame, ServerFrames

(* A step of the server of c that appends frames to its inbox              *)
LEMMA ServerSends ==
    ASSUME NEW c \in Conns, Inductive, NEW ops \in Seq(ServerSays(c) \ {"ACCEPT"}),
           inbox' = [inbox EXCEPT ![c] = @ \o Frames(c, ops)],
           UNCHANGED <<clientVars, link, wire>>,
           got' \in [Conns -> Nat], asked' \in [Conns -> Seq({"HEARTBEAT", "TICKS"})],
           c = 1 => /\ wire[1] # <<>> \/ \A i \in DOMAIN ops : ops[i] \in {"BAD_BODY", "BAD_FRAME"}
                    /\ \/ \A i \in DOMAIN ops : ops[i] \notin {"TABLE", "EMPTY_TABLE"}
                       \/ \E i \in DOMAIN wire[1] : wire[1][i].op # "VERSION"
    PROVE  Inductive'
<1> DEFINE new == Frames(c, ops)
<1>1. new \in Seq(ServerFrames) /\ DOMAIN new = DOMAIN ops
      /\ \A i \in DOMAIN new : new[i].op = ops[i]
  <2>1. \A i \in DOMAIN ops : ops[i] \in ServerSays(c) \ {"ACCEPT"} /\ ops[i] \in ServerOps
    BY SaysAreOps
  <2>2. new = [i \in DOMAIN ops |-> Frame(c, ops[i])]
    BY DEF Frames
  <2>3. \A i \in DOMAIN ops : Frame(c, ops[i]) \in ServerFrames /\ Frame(c, ops[i]).op = ops[i]
    BY <2>1, FrameIs
  <2>4. DOMAIN ops = 1 .. Len(ops) /\ Len(ops) \in Nat
    OBVIOUS
  <2> HIDE DEF new
  <2> QED
    BY <2>2, <2>3, <2>4
<1>2. \A i \in DOMAIN new : new[i].op \in ServerSays(c) \ {"ACCEPT"}
  BY <1>1
<1> HIDE DEF new
<1>3. UNCHANGED <<main, outcome, stop, state, crypto, requested, result, grace, reader,
                  target, requester, writer, sequence, link, wire>>
  BY DEF clientVars, mainVars, objectVars
<1>4. inbox' = [inbox EXCEPT ![c] = @ \o new]
  BY DEF new
<1>5. TypeOK'
  <2>1. inbox' \in [Conns -> Seq(ServerFrames)]
    <3>1. inbox[c] \o new \in Seq(ServerFrames)
      BY <1>1 DEF Inductive, TypeOK
    <3> QED
      BY <1>4, <3>1 DEF Inductive, TypeOK
  <2> QED
    BY <1>3, <2>1 DEF Inductive, TypeOK
<1>6. Tasks'
  BY <1>3 DEF Inductive, Tasks
<1>7. c = 1 => /\ wire[1] # <<>> \/ \A i \in DOMAIN new : new[i].op \in {"BAD_BODY", "BAD_FRAME"}
               /\ \/ \A i \in DOMAIN new : new[i].op \notin {"TABLE", "EMPTY_TABLE"}
                  \/ \E i \in DOMAIN wire[1] : wire[1][i].op # "VERSION"
  BY <1>1
<1> QED
  BY <1>1, <1>2, <1>3, <1>4, <1>5, <1>6, <1>7, ServerStep

LEMMA ReactStep == ASSUME NEW c \in Conns, Inductive, React(c) PROVE Inductive'
<1> DEFINE k == got[c] + 1
<1>1. PICK ops \in Replies(c, wire[c][k].op) :
         inbox' = [inbox EXCEPT ![c] = @ \o Frames(c, ops)]
  BY DEF React
<1>2. k \in DOMAIN wire[c]
  <2>1. got[c] \in Nat /\ wire[c] \in Seq(ClientPackets) /\ got[c] < Len(wire[c])
    BY DEF React, Inductive, TypeOK
  <2> QED
    BY <2>1
<1>3. wire[c][k].op \in ClientSays(c)
  BY <1>2 DEF Inductive, Placed
<1> HIDE DEF k
<1>4. /\ ops \in Seq(ServerSays(c) \ {"ACCEPT"})
      /\ c = 1 => \/ \A i \in DOMAIN ops : ops[i] \notin {"TABLE", "EMPTY_TABLE"}
                 \/ wire[1][k].op # "VERSION"
  BY <1>1, <1>3, RepliesAre
<1>5. c = 1 => wire[1] # <<>>
  BY <1>2
<1>6. /\ UNCHANGED <<clientVars, link, wire>>
      /\ got' \in [Conns -> Nat] /\ asked' \in [Conns -> Seq({"HEARTBEAT", "TICKS"})]
  BY DEF React, Inductive, TypeOK
<1> QED
  BY <1>1, <1>2, <1>4, <1>5, <1>6, ServerSends

(* A frame appended to an inbox is a sequence of one frame.                *)
LEMMA OneFrame ==
    ASSUME NEW c \in Conns, Inductive, NEW op \in ServerSays(c) \ {"ACCEPT"},
           inbox' = [inbox EXCEPT ![c] = Append(@, Frame(c, op))],
           UNCHANGED <<clientVars, link, wire>>,
           got' \in [Conns -> Nat], asked' \in [Conns -> Seq({"HEARTBEAT", "TICKS"})],
           c # 1 \/ op \in {"BAD_BODY", "BAD_FRAME"}
    PROVE  Inductive'
<1>1. <<op>> \in Seq(ServerSays(c) \ {"ACCEPT"}) /\ DOMAIN <<op>> = {1} /\ <<op>>[1] = op
  OBVIOUS
<1>2. Frame(c, op) \in ServerFrames
  BY SaysAreOps, FrameIs
<1>3. Frames(c, <<op>>) = <<Frame(c, op)>>
  BY <1>1 DEF Frames
<1>4. Append(inbox[c], Frame(c, op)) = inbox[c] \o Frames(c, <<op>>)
  <2>1. inbox[c] \in Seq(ServerFrames)
    BY DEF Inductive, TypeOK
  <2>2. Append(inbox[c], Frame(c, op)) = inbox[c] \o <<Frame(c, op)>>
    BY <1>2, <2>1, AppendIsConcat
  <2> QED
    BY <1>3, <2>2
<1>5. inbox' = [inbox EXCEPT ![c] = @ \o Frames(c, <<op>>)]
  BY <1>4
<1> QED
  BY <1>1, <1>5, ServerSends

LEMMA ServerStepInductive == ASSUME NEW c \in Conns, Inductive, Server(c) PROVE Inductive'
<1>1. CASE Challenge(c)
  <2>1. PICK op \in {"HEARTBEAT", "TICKS"} :
          /\ inbox' = [inbox EXCEPT ![c] = Append(@, Frame(c, op))]
          /\ asked' = [asked EXCEPT ![c] = Append(@, op)]
    BY <1>1 DEF Challenge
  <2>2. c # 1 /\ op \in ServerSays(c) \ {"ACCEPT"}
    BY <1>1 DEF Challenge, ServerSays
  <2>3. asked' \in [Conns -> Seq({"HEARTBEAT", "TICKS"})] /\ got' \in [Conns -> Nat]
    BY <1>1, <2>1 DEF Challenge, Inductive, TypeOK
  <2> QED
    BY <1>1, <2>1, <2>2, <2>3, OneFrame DEF Challenge
<1>2. CASE Handoff(c)
  <2>1. c # 1 /\ "REDIRECT" \in ServerSays(c) \ {"ACCEPT"}
    BY <1>2 DEF Handoff, World, ServerSays
  <2>2. asked' \in [Conns -> Seq({"HEARTBEAT", "TICKS"})] /\ got' \in [Conns -> Nat]
    BY <1>2 DEF Handoff, Inductive, TypeOK
  <2> QED
    BY <1>2, <2>1, <2>2, OneFrame DEF Handoff
<1>3. CASE Malformed(c)
  <2>1. PICK op \in {"BAD_BODY", "BAD_FRAME"} :
          inbox' = [inbox EXCEPT ![c] = Append(@, Frame(c, op))]
    BY <1>3 DEF Malformed, If
  <2>2. op \in ServerSays(c) \ {"ACCEPT"}
    BY DEF ServerSays
  <2>3. asked' \in [Conns -> Seq({"HEARTBEAT", "TICKS"})] /\ got' \in [Conns -> Nat]
    BY <1>3 DEF Malformed, Inductive, TypeOK
  <2> QED
    BY <1>3, <2>1, <2>2, <2>3, OneFrame DEF Malformed
<1> QED
  BY <1>1, <1>2, <1>3, ReactStep, ServerCloseStep DEF Server
-----------------------------------------------------------------------------
(* Every step                                                              *)

LEMMA StepInductive == Inductive /\ [Next]_vars => Inductive'
<1> SUFFICES ASSUME Inductive, [Next]_vars PROVE Inductive'
  OBVIOUS
<1>1. CASE Main
  BY <1>1, FetchStartStep, MainQuietStep, LogoutStep, CloseStep DEF Main, MainQuiet
<1>2. CASE Opening \/ Timeout \/ Interrupt
  BY <1>2, ConnectedStep, MainQuietStep DEF Opening, MainQuiet
<1>3. CASE Dispatch
  BY <1>3, ReadsOnlyStep, HandleAcceptStep, HandleConnectionInfoStep, HandleServerTableStep,
     HandleRedirectStep, HandleUserIdStep, HandleChallengeStep, ReadBadFrameStep,
     ReadClosedStep DEF Dispatch, ReadsOnly
<1>4. CASE Follow \/ RequestWorldList
  BY <1>4, OldSocketClosedStep, RedirectConnectedStep, RedirectRefusedStep, RequestStep
     DEF Follow
<1>5. CASE \E c \in Conns : Server(c)
  BY <1>5, ServerStepInductive
<1>6. CASE UNCHANGED vars
  <2>1. UNCHANGED <<main, outcome, stop, state, crypto, requested, link, inbox, wire, got,
                    asked, result, grace, reader, target, requester, writer, sequence>>
    BY <1>6 DEF vars, mainVars, objectVars, netVars
  <2>2. TypeOK'
    BY <2>1 DEF Inductive, TypeOK
  <2>3. Tasks'
    BY <2>1 DEF Inductive, Tasks
  <2> QED
    BY <2>1, <2>2, <2>3, QuietStep
<1> QED
  BY <1>1, <1>2, <1>3, <1>4, <1>5, <1>6 DEF Next

THEOREM InductiveHolds == Spec => []Inductive
<1> QED
  BY InitInductive, StepInductive, PTL DEF Spec

(* Every variable of the client only ever holds a value the code can give  *)
(* it: no redirect leads past the servers there are, no packet is made of  *)
(* a key that no server has given.                                         *)
THEOREM TypeCorrect == Spec => []TypeOK
<1>1. Inductive => TypeOK
  BY DEF Inductive
<1> QED
  BY <1>1, InductiveHolds, PTL

(* However many world servers the client is sent to, whatever the tasks    *)
(* interleave and whenever a run is cut short, every packet of _send and   *)
(* _follow_redirect is encrypted with the cipher its server decrypts with. *)
THEOREM ServerAlwaysReads == Spec => []ServerCanRead
<1>1. Inductive => ServerCanRead
  BY DEF Inductive, Keys
<1> QED
  BY <1>1, InductiveHolds, PTL

(* On every connection the sequence bytes of _send count the encrypted     *)
(* packets from 0, whatever the size of the byte and however many packets  *)
(* the three tasks write.                                                  *)
THEOREM SequenceAlwaysInStep == Spec => []SequenceInStep
<1>1. Inductive => SequenceInStep
  BY DEF Inductive, Numbers
<1> QED
  BY <1>1, InductiveHolds, PTL
-----------------------------------------------------------------------------
(* One connection at a time                                                *)

LEMMA OneConnectionStep ==
    ASSUME Inductive, OneConnection, [Next]_vars
    PROVE  OneConnection'
<1>0. /\ link \in [Conns -> {"idle", "open", "cut", "moved", "closed"}]
      /\ \A c \in Conns : c # 0
  BY ConnsAssumption DEF Inductive, TypeOK, Conns
<1>1. CASE Connected
  <2>1. writer = 0 /\ writer' = 1 /\ link' = [link EXCEPT ![1] = "open"]
    BY <1>1 DEF Inductive, Tasks, Connected
  <2> QED
    BY <1>0, <2>1 DEF OneConnection
<1>2. CASE RedirectConnected
  <2>1. writer = 0 /\ writer' = target /\ link' = [link EXCEPT ![target] = "open"]
    BY <1>2 DEF Inductive, Tasks, RedirectConnected
  <2> QED
    BY <1>0, <2>1 DEF OneConnection
<1>3. CASE HandleRedirect \/ Close
  <2>1. \/ UNCHANGED <<link, writer>>
        \/ writer = 0 /\ writer' = 0 /\ link' = link
        \/ \E how \in {"moved", "closed"} : writer' = 0 /\ link' = [link EXCEPT ![writer] = how]
    BY <1>3 DEF HandleRedirect, Close, SocketClosed
  <2> QED
    BY <1>0, <2>1 DEF OneConnection
<1>4. CASE \E c \in Conns : ServerClose(c)
  <2>1. PICK c \in Conns : link[c] = "open" /\ link' = [link EXCEPT ![c] = "cut"] /\ writer' = writer
    BY <1>4 DEF ServerClose, clientVars
  <2> QED
    BY <1>0, <2>1 DEF OneConnection
<1>5. CASE UNCHANGED <<link, writer>>
  BY <1>5 DEF OneConnection
<1>6. ASSUME Next, ~UNCHANGED <<link, writer>>
      PROVE  \/ Connected \/ RedirectConnected \/ HandleRedirect \/ Close
             \/ \E c \in Conns : ServerClose(c)
  <2> USE DEF mainVars, objectVars, netVars
  <2>1. CASE Main \/ Opening \/ Timeout \/ Interrupt
    BY <1>6, <2>1 DEF Main, Opening, Interrupt, FetchStart, MainWake, Reap, Logout, Finish,
       ConnectFails, Timeout, InterruptEarly, InterruptWait
  <2>2. CASE Dispatch
    BY <1>6, <2>2 DEF Dispatch, HandleAccept, HandleConnectionInfo, HandleServerTable,
       HandleRaisesValueError, HandleCrashes, Crashes, HandleLoginMessage, HandleUserId, HandleChallenge,
       HandleWorldList, IgnoreFrame, ReadBadFrame, ReadClosed
  <2>3. CASE Follow \/ RequestWorldList
    BY <1>6, <2>3 DEF Follow, OldSocketClosed, RedirectRefused, RequestWorldList
  <2>4. CASE \E c \in Conns : Server(c)
    BY <1>6, <2>4 DEF Server, React, Challenge, Handoff, Malformed, clientVars
  <2> QED
    BY <1>6, <2>1, <2>2, <2>3, <2>4 DEF Next
<1>7. UNCHANGED vars => UNCHANGED <<link, writer>>
  BY DEF vars, netVars
<1> QED
  BY <1>1, <1>2, <1>3, <1>4, <1>5, <1>6, <1>7

(* However many redirects a run follows, _follow_redirect has closed a     *)
(* connection before _open makes the next one.                             *)
THEOREM OneConnectionAtATime == Spec => []OneConnection
<1>1. Init => OneConnection
  BY DEF Init, OneConnection
<1>2. Inductive /\ OneConnection /\ [Next]_vars => OneConnection'
  BY OneConnectionStep
<1> QED
  BY <1>1, <1>2, InductiveHolds, PTL DEF Spec
-----------------------------------------------------------------------------
(* The future                                                              *)

LEMMA ResultStep ==
    ASSUME Inductive, [Next]_vars, result \notin {"none", "pending"}
    PROVE  result' = result
<1> USE DEF mainVars, objectVars, netVars
<1>1. CASE Main \/ Opening \/ Timeout \/ Interrupt
  BY <1>1 DEF Main, Opening, Interrupt, FetchStart, MainWake, Reap, Logout, Close, Finish,
     Connected, ConnectFails, Timeout, InterruptEarly, InterruptWait, Cancelled, Inductive, Tasks
<1>2. CASE Dispatch
  BY <1>2 DEF Dispatch, HandleAccept, HandleConnectionInfo, HandleServerTable, HandleRedirect,
     HandleRaisesValueError, HandleCrashes, Crashes, HandleLoginMessage, HandleUserId, HandleChallenge,
     HandleWorldList, IgnoreFrame, ReadBadFrame, ReadClosed, Ends, Settled
<1>3. CASE Follow \/ RequestWorldList
  BY <1>3 DEF Follow, OldSocketClosed, RedirectConnected, RedirectRefused, RequestWorldList,
     Ends, Settled
<1>4. CASE \E c \in Conns : Server(c)
  BY <1>4 DEF Server, React, Challenge, Handoff, Malformed, ServerClose, clientVars
<1>5. CASE UNCHANGED vars
  BY <1>5 DEF vars
<1> QED
  BY <1>1, <1>2, <1>3, <1>4, <1>5 DEF Next

(* Whichever of the list, a rejection, a lost connection, a malformed      *)
(* packet, the timer and an interrupt comes first decides the future, and  *)
(* none of the others ever changes it (_fail, set_result, Task.cancel).    *)
THEOREM FutureSettledOnce == Spec => SettledOnce
<1>1. Inductive /\ [Next]_vars => [result \notin {"none", "pending"} => result' = result]_vars
  BY ResultStep
<1> QED
  BY <1>1, InductiveHolds, PTL DEF Spec, SettledOnce
=============================================================================
