------------------------------- MODULE Client -------------------------------
(***************************************************************************)
(* The headless client of src/population_tracker/client.py: one call of    *)
(* DarkAgesClient.fetch, which walks lobby -> login -> world, asks for the *)
(* country list once, logs out and disconnects.                            *)
(*                                                                         *)
(* Three asyncio tasks share the state of the object: the task that awaits *)
(* fetch ("main"), the read loop ("reader") and the delayed list request   *)
(* ("requester").  An action is a stretch of one task between two points   *)
(* where it can be suspended.  The servers, the sockets and the timer are  *)
(* the environment.                                                        *)
(*                                                                         *)
(* Connections are numbered in the order in which they can be opened:      *)
(* 1 is the lobby, 2 the login server, 3 the world server, and 4.. the     *)
(* world servers that a redirect sent by a world server leads to.          *)
(***************************************************************************)
EXTENDS Integers, Sequences, FiniteSets

CONSTANTS
    MaxConns,    \* how many connections the servers' redirects can lead to
    MaxAsked,    \* how many heartbeats and tick packets the servers send in one run
    SeqMod,      \* what the sequence byte wraps at (256 in the code)
    LoginName,   \* is there a name in the redirect from the lobby?
    ServerIdSet, \* was --server-id given?
    Env          \* what the environment may do, a subset of Faults

Faults == {"refuse", "close", "reject", "emptyTable", "garbledTable",
           "badBody", "badFrame", "timeout", "interrupt", "handoff"}

ASSUME ConnsAssumption == MaxConns \in Nat /\ MaxConns >= 3
ASSUME AskedAssumption == MaxAsked \in Nat
ASSUME SeqAssumption   == SeqMod \in Nat \ {0}
ASSUME BoolAssumption  == LoginName \in BOOLEAN /\ ServerIdSet \in BOOLEAN
ASSUME EnvAssumption   == Env \subseteq Faults

VARIABLES
    main,      \* where the task that awaits fetch is suspended
    outcome,   \* what fetch returned or raised
    result,    \* the future self._result
    stop,      \* what has cancelled the wait: the timer, an interrupt
    grace,     \* may the reader still run once before main sees the cancellation?
    reader,    \* where the read loop is suspended, or how it ended
    target,    \* the connection _follow_redirect is moving to, else 0
    requester, \* the task of _request_world_list
    state,     \* self._state
    writer,    \* self._writer: the connection in use, 0 for None
    crypto,    \* self._crypto
    sequence,  \* self._sequence
    requested, \* self._requested
    link,      \* link[c]: the socket of connection c
    inbox,     \* inbox[c]: frames sent by the server and not yet dispatched
    wire,      \* wire[c]: every packet the client wrote on c, in order
    got,       \* got[c]: how many packets of wire[c] the server has handled
    asked      \* asked[c]: the heartbeats and tick packets the server sent on c

mainVars   == <<main, outcome, stop>>
objectVars == <<state, crypto, requested>>
netVars    == <<link, inbox, wire, got, asked>>
vars == <<mainVars, objectVars, netVars, result, grace, reader, target,
          requester, writer, sequence>>

Conns == 1 .. MaxConns
World(c) == c >= 3
-----------------------------------------------------------------------------
(* Packets.  A body is abstracted to its opcode and to the cipher it was   *)
(* encrypted with; two ciphers with the same seed, key and salt pool agree.*)

ClientOps == {"VERSION", "TABLE_REQUEST", "SERVER_ID", "CLIENT_REDIRECTED",
              "HOMEPAGE_REQUEST", "LOGIN", "WORLD_LIST_REQUEST",
              "HEARTBEAT_RESPONSE", "TICKS_RESPONSE", "EXIT_REQUEST"}
ServerOps == {"ACCEPT", "INFO", "TABLE", "EMPTY_TABLE", "GARBLED_TABLE", "REDIRECT",
              "CONFIRM", "REJECT", "USER_ID", "HEARTBEAT", "TICKS", "WORLD_LIST",
              "OTHER", "BAD_BODY", "BAD_FRAME"}

Ciphers == [key : 0 .. MaxConns, salt : {"default", "name"}]
Plain   == [key |-> 0, salt |-> "plain"]

(* client_encryption_type and server_encryption_type *)
ClientEncrypts(op) == op \notin {"VERSION", "CLIENT_REDIRECTED"}
ServerEncrypts(op) == op \notin {"ACCEPT", "INFO", "REDIRECT", "BAD_BODY", "BAD_FRAME"}

(* The cipher of a new DarkAgesClient: Crypto() *)
InitialCrypto == [key |-> 0, salt |-> "default"]

(* The salt seed handed to Crypto on a redirect to c: the name in the      *)
(* redirect, but "default" while the state is LOGIN or the name is empty.  *)
RedirectNamed(c) == World(c) \/ LoginName
KeySaltSeedOfName(c, st) == IF RedirectNamed(c) THEN "name" ELSE "default" \* mutant
KeySaltSeed(c, st) == IF st = "LOGIN" \/ ~RedirectNamed(c) THEN "default" ELSE "name"

(* The cipher the server of connection c uses once its handshake is over.  *)
ServerCrypto(c) == [key |-> c, salt |-> IF World(c) THEN "name" ELSE "default"]

PacketUnmasked(op, cr, sq) == \* mutant
    IF ClientEncrypts(op)
      THEN [op |-> op, crypto |-> cr, seq |-> sq]
      ELSE [op |-> op, crypto |-> Plain, seq |-> 0]
Packet(op, cr, sq) ==
    IF ClientEncrypts(op)
      THEN [op |-> op, crypto |-> cr, seq |-> sq % SeqMod]
      ELSE [op |-> op, crypto |-> Plain, seq |-> 0]

Frame(c, op) ==
    [op |-> op, crypto |-> IF ServerEncrypts(op) THEN ServerCrypto(c) ELSE Plain]

NextSequenceOfAny(op, sq) == sq + 1 \* mutant
NextSequence(op, sq) == IF ClientEncrypts(op) THEN sq + 1 ELSE sq

(* _send: nothing is written, and nothing raised, without a writer.        *)
Send(op, cr) ==
    IF writer = 0
      THEN UNCHANGED <<wire, sequence>>
      ELSE /\ wire' = [wire EXCEPT ![writer] = Append(@, Packet(op, cr, sequence))]
           /\ sequence' = NextSequence(op, sequence)

(* What _follow_redirect writes on a connection it has just opened.        *)
Greeting(st, cr) ==
    <<Packet("CLIENT_REDIRECTED", cr, 0)>>
      \o IF st = "LOGIN"
           THEN <<Packet("HOMEPAGE_REQUEST", cr, 0), Packet("LOGIN", cr, 1)>>
           ELSE <<>>
-----------------------------------------------------------------------------
Init ==
    /\ main = "idle" /\ outcome = "none" /\ stop = "none" /\ grace = FALSE
    /\ result = "none" /\ reader = "none" /\ target = 0 /\ requester = "none"
    /\ state = "LOBBY" /\ writer = 0 /\ crypto = InitialCrypto
    /\ sequence = 0 /\ requested = FALSE
    /\ link = [c \in Conns |-> "idle"]
    /\ inbox = [c \in Conns |-> <<>>]
    /\ wire = [c \in Conns |-> <<>>]
    /\ got = [c \in Conns |-> 0]
    /\ asked = [c \in Conns |-> <<>>]
-----------------------------------------------------------------------------
(* The task that awaits fetch.                                             *)

(* fetch up to its first await: _reset_for_lobby has nothing to undo on a  *)
(* new object; the result future is created and _open begins to connect.   *)
FetchStart ==
    /\ main = "idle"
    /\ main' = "connecting" /\ result' = "pending"
    /\ UNCHANGED <<objectVars, netVars, outcome, stop, grace, reader, target,
                   requester, writer, sequence>>

(* A socket is closed by the client: to move on, or for good.              *)
SocketLeaked(c, how) == link \* mutant
SocketClosed(c, how) == [link EXCEPT ![c] = how]

(* open_connection returns: the read loop is created, wait_for starts its  *)
(* timer.  The lobby greets every connection.                              *)
Connected ==
    /\ main = "connecting"
    /\ main' = "waiting" /\ reader' = "reading"
    /\ writer' = 1
    /\ link' = [link EXCEPT ![1] = "open"]
    /\ inbox' = [inbox EXCEPT ![1] = <<Frame(1, "ACCEPT")>>]
    /\ UNCHANGED <<objectVars, outcome, stop, result, grace, target, requester,
                   sequence, wire, got, asked>>

(* open_connection raises: the try block has not been entered yet.         *)
ConnectFails ==
    /\ main = "connecting" /\ "refuse" \in Env
    /\ main' = "done" /\ outcome' = "oserror"
    /\ UNCHANGED <<objectVars, netVars, stop, result, grace, reader, target,
                   requester, writer, sequence>>

(* A cancellation that reaches a future already settled changes nothing.   *)
Cancelled(res) == IF res = "pending" THEN "cancelled" ELSE res

(* wait_for(self._result, timeout): the timer has not fired yet.           *)
TimerForgotten == FALSE \* mutant
TimerArmed == stop = "none" /\ "timeout" \in Env

(* The timer of wait_for cancels the wait, whatever the future holds.  The *)
(* reader may have been made ready before main was: it can run once more.  *)
Timeout ==
    /\ main = "waiting" /\ TimerArmed
    /\ stop' = "timeout" /\ grace' = TRUE
    /\ result' = Cancelled(result)
    /\ UNCHANGED <<objectVars, netVars, main, outcome, reader, target, requester,
                   writer, sequence>>

(* Ctrl-C cancels the task (asyncio.run).  While main awaits the cancelled *)
(* reader, the cancellation is swallowed with the reader's own.            *)
InterruptEarly ==
    /\ main \in {"connecting", "flushing"} /\ "interrupt" \in Env
    /\ main' = "done" /\ outcome' = "interrupt"
    /\ UNCHANGED <<objectVars, netVars, stop, result, grace, reader, target,
                   requester, writer, sequence>>

InterruptWait ==
    /\ main = "waiting" /\ stop # "interrupt" /\ "interrupt" \in Env
    /\ stop' = "interrupt"
    /\ grace' = (grace \/ stop = "none")
    /\ result' = Cancelled(result)
    /\ UNCHANGED <<objectVars, netVars, main, outcome, reader, target, requester,
                   writer, sequence>>

(* What the await of the future returns or raises: a cancellation wins     *)
(* over a value that is already there.                                     *)
Verdict(why, res) == IF why = "none" THEN res ELSE why

(* self._request_task.cancel()                                             *)
RequestKept(task) == task \* mutant
RequestCancelled(task) == IF task = "sleeping" THEN "cancelled" ELSE task

(* The wait is over: the finally block cancels the request and the reader. *)
MainWake ==
    /\ main = "waiting"
    /\ stop # "none" \/ result # "pending"
    /\ main' = "reaping"
    /\ outcome' = Verdict(stop, result)
    /\ requester' = RequestCancelled(requester)
    /\ reader' = IF reader \in {"done", "crashed"} THEN reader ELSE "cancelled"
    /\ target' = 0 /\ grace' = FALSE
    /\ UNCHANGED <<objectVars, netVars, stop, result, writer, sequence>>

(* await read_task: only a CancelledError is swallowed, an exception that  *)
(* killed the reader is raised here and skips the rest of the finally.     *)
ReapRaisesIfDone(task) == task # "cancelled" \* mutant
ReapRaises(task) == task = "crashed"

Reap ==
    /\ main = "reaping"
    /\ main' = IF ReapRaises(reader) THEN "done" ELSE "leaving"
    /\ outcome' = IF reader = "crashed" THEN "crash" ELSE outcome
    /\ UNCHANGED <<objectVars, netVars, stop, result, grace, reader, target,
                   requester, writer, sequence>>

(* The guard of _logout *)
ShouldLogoutIfRead == writer # 0 /\ result = "list" \* mutant
ShouldLogout == writer # 0 /\ state = "WORLD"

(* _logout *)
Logout ==
    /\ main = "leaving"
    /\ main' = "closing"
    /\ IF ShouldLogout
         THEN Send("EXIT_REQUEST", crypto)
         ELSE UNCHANGED <<wire, sequence>>
    /\ UNCHANGED <<objectVars, outcome, stop, result, grace, reader, target,
                   requester, writer, link, inbox, got, asked>>

(* _close, up to the wait for the socket *)
Close ==
    /\ main = "closing"
    /\ writer' = 0
    /\ IF writer = 0
         THEN main' = "done" /\ UNCHANGED link
         ELSE main' = "flushing" /\ link' = SocketClosed(writer, "closed")
    /\ UNCHANGED <<objectVars, outcome, stop, result, grace, reader, target,
                   requester, sequence, inbox, wire, got, asked>>

Finish ==
    /\ main = "flushing"
    /\ main' = "done"
    /\ UNCHANGED <<objectVars, netVars, outcome, stop, result, grace, reader,
                   target, requester, writer, sequence>>
-----------------------------------------------------------------------------
(* The read loop.  It dispatches one frame at a time; a chunk with several *)
(* frames is several steps with nothing in between, so these steps cover   *)
(* every way the stream can be cut into chunks.                            *)

ReaderRuns == main = "waiting" /\ (stop = "none" \/ grace)

Reading(ops) ==
    /\ ReaderRuns /\ reader = "reading"
    /\ inbox[writer] # <<>>
    /\ Head(inbox[writer]).op \in ops
    /\ inbox' = [inbox EXCEPT ![writer] = Tail(@)]
    /\ grace' = FALSE

(* After a dispatch the loop ends as soon as the future is settled.        *)
ReadOn == reader' = IF result = "pending" THEN "reading" ELSE "done"

(* _fail and set_result, which leave a settled future alone                *)
SettledAgain(res, v) == v \* mutant
Settled(res, v) == IF res = "pending" THEN v ELSE res

Ends(v) == result' = Settled(result, v) /\ reader' = "done"

(* _handle_accept_connection *)
HandleAccept ==
    /\ Reading({"ACCEPT"})
    /\ IF state = "LOBBY"
         THEN Send("VERSION", crypto)
         ELSE UNCHANGED <<wire, sequence>>
    /\ ReadOn
    /\ UNCHANGED <<objectVars, mainVars, result, target, requester, writer,
                   link, got, asked>>

(* The cipher of ConnectionInfo on connection c: always the default salts. *)
InfoCryptoIgnored(c) == InitialCrypto \* mutant
InfoCrypto(c) == [key |-> c, salt |-> "default"]

(* _handle_connection_info: the cipher is replaced before the next packet. *)
HandleConnectionInfo ==
    /\ Reading({"INFO"})
    /\ crypto' = InfoCrypto(writer)
    /\ IF state = "LOBBY"
         THEN Send("TABLE_REQUEST", crypto')
         ELSE UNCHANGED <<wire, sequence>>
    /\ ReadOn
    /\ UNCHANGED <<mainVars, state, requested, result, target, requester, writer,
                   link, got, asked>>

(* _handle_server_table, when _select_server finds an id                   *)
HandleServerTable ==
    /\ Reading({"TABLE"} \cup IF ServerIdSet THEN {"EMPTY_TABLE"} ELSE {})
    /\ Send("SERVER_ID", crypto)
    /\ ReadOn
    /\ UNCHANGED <<objectVars, mainVars, result, target, requester, writer,
                   link, got, asked>>

(* A ValueError: a body that is too short, or an empty table and no        *)
(* --server-id.                                                            *)
HandleRaisesValueError ==
    /\ Reading({"BAD_BODY"} \cup IF ServerIdSet THEN {} ELSE {"EMPTY_TABLE"})
    /\ Ends("valueerror")
    /\ UNCHANGED <<objectVars, mainVars, target, requester, writer, sequence,
                   link, wire, got, asked>>

(* What _read_loop does not catch: zlib.error of a table, an IndexError    *)
(* (no such salt table, a frame shorter than its header), a division by    *)
(* the length of an empty key.  The reader dies and the future stays.      *)
Crashes == reader' = "crashed" /\ UNCHANGED result

HandleCrashes ==
    /\ Reading({"GARBLED_TABLE", "BAD_BODY"})
    /\ Crashes
    /\ UNCHANGED <<objectVars, mainVars, target, requester, writer,
                   sequence, link, wire, got, asked>>

(* _handle_redirect: lobby to login, then login to world *)
AfterRedirectToggled(st) == IF st = "LOGIN" THEN "WORLD" ELSE "LOGIN" \* mutant
AfterRedirect(st) == IF st = "LOBBY" THEN "LOGIN" ELSE "WORLD"

(* _handle_redirect and, unless the future is settled, _follow_redirect up *)
(* to the wait for the old socket: what is left of the buffer is dropped.  *)
HandleRedirect ==
    /\ Reading({"REDIRECT"})
    /\ state' = AfterRedirect(state)
    /\ IF result = "pending"
         THEN /\ target' = writer + 1
              /\ link' = SocketClosed(writer, "moved")
              /\ writer' = 0
              /\ reader' = "closing"
         ELSE /\ reader' = "done"
              /\ UNCHANGED <<target, link, writer>>
    /\ UNCHANGED <<mainVars, crypto, requested, result, requester, sequence,
                   wire, got, asked>>

HandleLoginMessage ==
    \/ /\ Reading({"CONFIRM"})
       /\ ReadOn
       /\ UNCHANGED <<objectVars, mainVars, result, target, requester, writer,
                      sequence, link, wire, got, asked>>
    \/ /\ Reading({"REJECT"})
       /\ Ends("login")
       /\ UNCHANGED <<objectVars, mainVars, target, requester, writer, sequence,
                      link, wire, got, asked>>

(* The guard of _handle_user_id *)
MayRequestInLogin == state = "LOGIN" /\ ~requested \* mutant
MayRequestAgain == state = "WORLD" \* mutant
MayRequest == state = "WORLD" /\ ~requested

HandleUserId ==
    /\ Reading({"USER_ID"})
    /\ IF MayRequest
         THEN requested' = TRUE /\ requester' = "sleeping"
         ELSE UNCHANGED <<requested, requester>>
    /\ ReadOn
    /\ UNCHANGED <<mainVars, state, crypto, result, target, writer, sequence,
                   link, wire, got, asked>>

ResponseToBeat(op) == "HEARTBEAT_RESPONSE" \* mutant
Response(op) == IF op = "HEARTBEAT" THEN "HEARTBEAT_RESPONSE" ELSE "TICKS_RESPONSE"

(* _handle_heartbeat, _handle_synchronize_ticks *)
HandleChallenge ==
    /\ Reading({"HEARTBEAT", "TICKS"})
    /\ Send(Response(Head(inbox[writer]).op), crypto)
    /\ ReadOn
    /\ UNCHANGED <<objectVars, mainVars, result, target, requester, writer,
                   link, got, asked>>

HandleWorldList ==
    /\ Reading({"WORLD_LIST"})
    /\ Ends("list")
    /\ UNCHANGED <<objectVars, mainVars, target, requester, writer, sequence,
                   link, wire, got, asked>>

(* _dispatch of an opcode that has no handler *)
IgnoreFrame ==
    /\ Reading({"OTHER"})
    /\ ReadOn
    /\ UNCHANGED <<objectVars, mainVars, result, target, requester, writer,
                   sequence, link, wire, got, asked>>

(* parse_frames raises, ValueError on a bad signature or IndexError on a   *)
(* length that is too short, and the frames that precede the bad one in    *)
(* the same chunk are lost with it.                                        *)
ReadBadFrame ==
    /\ ReaderRuns /\ reader = "reading"
    /\ \E i \in DOMAIN inbox[writer] :
         /\ inbox[writer][i].op = "BAD_FRAME"
         /\ inbox' = [inbox EXCEPT ![writer] = SubSeq(@, i + 1, Len(@))]
    /\ Ends("valueerror") \/ Crashes
    /\ grace' = FALSE
    /\ UNCHANGED <<objectVars, mainVars, target, requester, writer, sequence,
                   link, wire, got, asked>>

(* read returns b"" or raises: a ConnectionError either way                *)
ReadClosed ==
    /\ ReaderRuns /\ reader = "reading"
    /\ link[writer] = "cut" /\ inbox[writer] = <<>>
    /\ Ends("oserror")
    /\ grace' = FALSE
    /\ UNCHANGED <<objectVars, mainVars, netVars, target, requester, writer, sequence>>

(* _follow_redirect after its _close: new cipher, new sequence, and the    *)
(* next connection is being opened.                                        *)
OldSocketClosed ==
    /\ ReaderRuns /\ reader = "closing"
    /\ reader' = "opening"
    /\ crypto' = [key |-> target, salt |-> KeySaltSeed(target, state)]
    /\ sequence' = 0
    /\ grace' = FALSE
    /\ UNCHANGED <<mainVars, netVars, state, requested, result, target, requester, writer>>

(* _follow_redirect after its _open: the client greets without waiting for *)
(* AcceptConnection.                                                       *)
RedirectConnected ==
    /\ ReaderRuns /\ reader = "opening"
    /\ reader' = "reading"
    /\ writer' = target /\ target' = 0
    /\ link' = [link EXCEPT ![target] = "open"]
    /\ inbox' = [inbox EXCEPT ![target] = <<Frame(target, "ACCEPT")>>]
    /\ wire' = [wire EXCEPT ![target] = Greeting(state, crypto)]
    /\ sequence' = IF state = "LOGIN" THEN 2 ELSE 0
    /\ grace' = FALSE
    /\ UNCHANGED <<objectVars, mainVars, result, requester, got, asked>>

RedirectRefused ==
    /\ ReaderRuns /\ reader = "opening" /\ "refuse" \in Env
    /\ Ends("oserror")
    /\ target' = 0 /\ grace' = FALSE
    /\ UNCHANGED <<objectVars, mainVars, netVars, requester, writer, sequence>>

(* _request_world_list, when its sleep is over: it writes to whatever      *)
(* connection is in use, and drops the request when there is none.         *)
RequestWorldList ==
    /\ requester = "sleeping"
    /\ requester' = "done"
    /\ Send("WORLD_LIST_REQUEST", crypto)
    /\ UNCHANGED <<objectVars, mainVars, result, grace, reader, target, writer,
                   link, inbox, got, asked>>
-----------------------------------------------------------------------------
(* The servers (external).                                                 *)

clientVars == <<mainVars, objectVars, result, grace, reader, target, requester,
                writer, sequence>>

If(fault, replies) == IF fault \in Env THEN replies ELSE {}

(* What the server of connection c may answer to a packet                  *)
Replies(c, op) ==
    CASE op = "VERSION" -> {<<"INFO">>}
      [] op = "TABLE_REQUEST" -> {<<"TABLE">>} \cup If("emptyTable", {<<"EMPTY_TABLE">>})
                                   \cup If("garbledTable", {<<"GARBLED_TABLE">>})
      [] op = "SERVER_ID" -> {<<"REDIRECT">>}
      [] op = "HOMEPAGE_REQUEST" -> {<<"OTHER">>}
      [] op = "LOGIN" -> {<<"CONFIRM", "REDIRECT">>} \cup If("reject", {<<"REJECT">>})
      [] op = "CLIENT_REDIRECTED" /\ World(c) -> {<<"USER_ID">>}
      [] op = "WORLD_LIST_REQUEST" -> {<<"WORLD_LIST">>}
      [] OTHER -> {<<>>}

Frames(c, ops) == [i \in DOMAIN ops |-> Frame(c, ops[i])]

React(c) ==
    /\ link[c] = "open" /\ got[c] < Len(wire[c])
    /\ \E ops \in Replies(c, wire[c][got[c] + 1].op) :
         inbox' = [inbox EXCEPT ![c] = @ \o Frames(c, ops)]
    /\ got' = [got EXCEPT ![c] = @ + 1]
    /\ UNCHANGED <<clientVars, link, wire, asked>>

AllAsked == UNION {{<<c, i>> : i \in DOMAIN asked[c]} : c \in Conns}

(* Heartbeats and tick packets come at any time once the client is past    *)
(* the lobby, whose cipher changes under way.                              *)
Challenge(c) ==
    /\ link[c] = "open" /\ c >= 2 /\ Cardinality(AllAsked) < MaxAsked
    /\ \E op \in {"HEARTBEAT", "TICKS"} :
         /\ inbox' = [inbox EXCEPT ![c] = Append(@, Frame(c, op))]
         /\ asked' = [asked EXCEPT ![c] = Append(@, op)]
    /\ UNCHANGED <<clientVars, link, wire, got>>

InboxHas(c, ops) == \E i \in DOMAIN inbox[c] : inbox[c][i].op \in ops

(* A world server sends the client to another one.                         *)
Handoff(c) ==
    /\ "handoff" \in Env /\ World(c) /\ c < MaxConns
    /\ link[c] = "open" /\ got[c] > 0 /\ ~InboxHas(c, {"REDIRECT"})
    /\ inbox' = [inbox EXCEPT ![c] = Append(@, Frame(c, "REDIRECT"))]
    /\ UNCHANGED <<clientVars, link, wire, got, asked>>

Malformed(c) ==
    /\ link[c] = "open" /\ ~InboxHas(c, {"BAD_BODY", "BAD_FRAME"})
    /\ \E op \in If("badBody", {"BAD_BODY"}) \cup If("badFrame", {"BAD_FRAME"}) :
         inbox' = [inbox EXCEPT ![c] = Append(@, Frame(c, op))]
    /\ UNCHANGED <<clientVars, link, wire, got, asked>>

(* The server closes the connection in order, or it is reset and what was  *)
(* on its way is lost.                                                     *)
ServerClose(c) ==
    /\ "close" \in Env /\ link[c] = "open"
    /\ link' = [link EXCEPT ![c] = "cut"]
    /\ inbox' \in {inbox, [inbox EXCEPT ![c] = <<>>]}
    /\ UNCHANGED <<clientVars, wire, got, asked>>

Server(c) == React(c) \/ Challenge(c) \/ Handoff(c) \/ Malformed(c) \/ ServerClose(c)
-----------------------------------------------------------------------------
Opening == Connected \/ ConnectFails
Interrupt == InterruptEarly \/ InterruptWait
Main == FetchStart \/ MainWake \/ Reap \/ Logout \/ Close \/ Finish

Dispatch ==
    \/ HandleAccept \/ HandleConnectionInfo \/ HandleServerTable
    \/ HandleRaisesValueError \/ HandleCrashes \/ HandleRedirect
    \/ HandleLoginMessage \/ HandleUserId \/ HandleChallenge
    \/ HandleWorldList \/ IgnoreFrame \/ ReadBadFrame \/ ReadClosed

Follow == OldSocketClosed \/ RedirectConnected \/ RedirectRefused

Next ==
    \/ Main \/ Opening \/ Timeout \/ Interrupt
    \/ Dispatch \/ Follow \/ RequestWorldList
    \/ \E c \in Conns : Server(c)

Spec == Init /\ [][Next]_vars

(* The event loop runs every task that is ready, and the operating system  *)
(* ends every attempt to connect.                                          *)
Scheduling == WF_vars(Main) /\ WF_vars(Opening) /\ WF_vars(Dispatch)
              /\ WF_vars(Follow) /\ WF_vars(RequestWorldList)

(* A timer that is due fires.  Nothing is asked of the servers.            *)
Fairness == Scheduling /\ WF_vars(Timeout)
FairSpec == Spec /\ Fairness

(* The servers answer every packet, and the timer need not help: it may    *)
(* never come.                                                             *)
CooperativeSpec == Spec /\ Scheduling /\ \A c \in Conns : WF_vars(React(c))
-----------------------------------------------------------------------------
(* Type invariant: every variable holds a value the code can give it.      *)
ClientPackets == [op : ClientOps, crypto : Ciphers \cup {Plain}, seq : 0 .. SeqMod - 1]
ServerFrames  == [op : ServerOps, crypto : Ciphers \cup {Plain}]

TypeOK ==
    /\ main \in {"idle", "connecting", "waiting", "reaping", "leaving", "closing",
                 "flushing", "done"}
    /\ outcome \in {"none", "list", "login", "oserror", "valueerror", "timeout",
                    "interrupt", "crash"}
    /\ result \in {"none", "pending", "list", "login", "oserror", "valueerror", "cancelled"}
    /\ stop \in {"none", "timeout", "interrupt"}
    /\ grace \in BOOLEAN
    /\ reader \in {"none", "reading", "closing", "opening", "done", "crashed", "cancelled"}
    /\ target \in 0 .. MaxConns
    /\ requester \in {"none", "sleeping", "done", "cancelled"}
    /\ state \in {"LOBBY", "LOGIN", "WORLD"}
    /\ writer \in 0 .. MaxConns
    /\ crypto \in Ciphers
    /\ sequence \in Nat
    /\ requested \in BOOLEAN
    /\ link \in [Conns -> {"idle", "open", "cut", "moved", "closed"}]
    /\ inbox \in [Conns -> Seq(ServerFrames)]
    /\ wire \in [Conns -> Seq(ClientPackets)]
    /\ got \in [Conns -> Nat]
    /\ asked \in [Conns -> Seq({"HEARTBEAT", "TICKS"})]

(* Every packet the client ever encrypted was encrypted with the cipher    *)
(* the server of that connection decrypts with: a redirect, an INFO or the *)
(* requester's late write never leaves a packet under the wrong key or     *)
(* salts (_send, _follow_redirect, _handle_connection_info).               *)
ServerCanRead ==
    \A c \in Conns : \A i \in DOMAIN wire[c] :
        ClientEncrypts(wire[c][i].op) => wire[c][i].crypto = ServerCrypto(c)

(* The next frame the reader will dispatch is encrypted with the cipher    *)
(* the client holds at that moment (_decrypt).                             *)
ClientCanRead ==
    (reader = "reading" /\ inbox[writer] # <<>>) =>
        LET frame == Head(inbox[writer])
        IN  ServerEncrypts(frame.op) => frame.crypto = crypto

(* On every connection the first packet, and it alone, is in the clear,    *)
(* and the encrypted ones that follow are numbered 0, 1, 2... modulo the   *)
(* size of the sequence byte, whoever of the three tasks wrote them.       *)
SequenceInStep ==
    \A c \in Conns : \A i \in DOMAIN wire[c] :
        IF i = 1
          THEN ~ClientEncrypts(wire[c][i].op)
          ELSE ClientEncrypts(wire[c][i].op) /\ wire[c][i].seq = (i - 2) % SeqMod

(* The client never holds two sockets: _follow_redirect closes the old one *)
(* before it opens the next, and nothing is left open behind the writer.   *)
OneConnection ==
    \A c \in Conns : link[c] \in {"open", "cut"} => c = writer

Sent(op) == UNION {{<<c, i>> : i \in {j \in DOMAIN wire[c] : wire[c][j].op = op}} : c \in Conns}

(* "requests the world list a single time": however many UserId packets    *)
(* and world servers the run goes through, one list request at most is     *)
(* written, and on a world connection.                                     *)
AskedOnce ==
    /\ Cardinality(Sent("WORLD_LIST_REQUEST")) <= 1
    /\ \A p \in Sent("WORLD_LIST_REQUEST") : World(p[1])

(* The password leaves the machine once, on the login connection.          *)
LoginOnce ==
    /\ Cardinality(Sent("LOGIN")) <= 1
    /\ \A p \in Sent("LOGIN") : p[1] = 2

(* A run that ends on a world connection says goodbye there, whatever      *)
(* ended it: the logout is the last packet, and it is not sent twice.      *)
GracefulLogout ==
    \A c \in Conns : (World(c) /\ link[c] = "closed") =>
        \A i \in DOMAIN wire[c] : wire[c][i].op = "EXIT_REQUEST" <=> i = Len(wire[c])

(* When fetch is over no socket is left open, unless the reader died of an *)
(* exception that fetch does not expect, which skips the cleanup.          *)
NoSocketLeft ==
    (main = "done" /\ outcome # "crash") =>
        \A c \in Conns : link[c] \notin {"open", "cut"}

AnswerTo  == [HEARTBEAT |-> "HEARTBEAT_RESPONSE", TICKS |-> "TICKS_RESPONSE"]
Beats     == {"HEARTBEAT", "TICKS"}
Responses == {AnswerTo[op] : op \in Beats}
Among(ops, seq) == {i \in DOMAIN seq : seq[i].op \in ops}
Place(i, S)     == Cardinality({j \in S : j <= i})

(* The answers among packets are those to the first of challenges, in that *)
(* order, and the challenges among frames are the others.                  *)
Answered(packets, frames, challenges) ==
    LET done == Among(Responses, packets)
        owed == Among(Beats, frames)
    IN  /\ Cardinality(done) + Cardinality(owed) = Len(challenges)
        /\ \A i \in done : packets[i].op = AnswerTo[challenges[Place(i, done)]]
        /\ \A i \in owed : frames[i].op = challenges[Cardinality(done) + Place(i, owed)]

(* Heartbeats and tick packets are answered in order, each exactly once    *)
(* and in its own kind, whatever else the client writes meanwhile: what    *)
(* the server sent is what has been answered on the wire, then what is     *)
(* still to be dispatched.                                                 *)
BeatsAnswered ==
    (reader = "reading" /\ link[writer] = "open") =>
        Answered(wire[writer], inbox[writer], asked[writer])

(* The future is settled once: a late list, a rejection and a lost         *)
(* connection never replace one another or a cancellation.                 *)
SettledOnce == [][result \notin {"none", "pending"} => result' = result]_vars

(* Every call of fetch comes to an end, whatever the servers do.           *)
Terminates == main = "connecting" ~> main = "done"

(* When the servers cooperate fetch returns the list, unless the timer     *)
(* comes first or the world hands the client on to another one.            *)
ListArrives ==
    <>(\/ main = "done" /\ outcome = "list"
       \/ stop # "none"
       \/ \E c \in Conns : c > 3 /\ link[c] # "idle")

(* _logout is "a graceful logout so the server removes the character from  *)
(* the world": it is only ever sent to a world server.                     *)
LogoutOnlyFromWorld ==
    \A c \in Conns : \A i \in DOMAIN wire[c] :
        wire[c][i].op = "EXIT_REQUEST" => World(c)

(* fetch, as detailed here, does no more and no less than Fetch says.      *)
Reached == IF \E c \in Conns : World(c) /\ link[c] # "idle" THEN 3
           ELSE IF link[2] # "idle" THEN 2
           ELSE IF link[1] # "idle" THEN 1 ELSE 0
Promise == INSTANCE Fetch WITH
    phase   <- IF main = "idle" THEN "idle" ELSE IF main = "done" THEN "over" ELSE "running",
    place   <- IF writer = 0 THEN "nowhere" ELSE IF World(writer) THEN "world"
               ELSE IF writer = 2 THEN "login" ELSE "lobby",
    reached <- Reached,
    verdict <- IF main = "done" THEN outcome ELSE "none"
KeepsPromise == Promise!FetchSpec
=============================================================================
