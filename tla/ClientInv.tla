----------------------------- MODULE ClientInv -----------------------------
(***************************************************************************)
(* The inductive invariant of Client: where each task can stand, which     *)
(* packets can be on which connection, and how the cipher and the sequence *)
(* number the client holds follow from the connection it is on.            *)
(***************************************************************************)
EXTENDS Client

StateOf(c) == IF c = 1 THEN "LOBBY" ELSE IF c = 2 THEN "LOGIN" ELSE "WORLD"

(* What can be written on connection c, by the client and by its server    *)
ClientSays(c) ==
    IF c = 1
      THEN {"VERSION", "TABLE_REQUEST", "SERVER_ID"}
      ELSE {"CLIENT_REDIRECTED", "HEARTBEAT_RESPONSE", "TICKS_RESPONSE", "EXIT_REQUEST"}
             \cup IF c = 2 THEN {"HOMEPAGE_REQUEST", "LOGIN"} ELSE {"WORLD_LIST_REQUEST"}

ServerSays(c) ==
    {"ACCEPT", "BAD_BODY", "BAD_FRAME"}
      \cup IF c = 1 THEN {"INFO", "TABLE", "EMPTY_TABLE", "GARBLED_TABLE", "REDIRECT"}
           ELSE {"HEARTBEAT", "TICKS"}
             \cup IF c = 2 THEN {"OTHER", "CONFIRM", "REJECT", "REDIRECT"}
                  ELSE {"USER_ID", "WORLD_LIST"}
                         \cup IF c < MaxConns THEN {"REDIRECT"} ELSE {}

Placed ==
    \A c \in Conns : /\ \A i \in DOMAIN wire[c] : wire[c][i].op \in ClientSays(c)
                     /\ \A i \in DOMAIN inbox[c] : inbox[c][i].op \in ServerSays(c)

(* The state agrees with the connection, but for a reader that stopped     *)
(* right after a redirect: hence AfterRedirect.                            *)
Tasks ==
    /\ reader = "reading" => writer # 0 /\ state = StateOf(writer)
    /\ reader \in {"closing", "opening"} =>
         writer = 0 /\ target >= 2 /\ state = StateOf(target)
    /\ writer # 0 => state \in {StateOf(writer), AfterRedirect(StateOf(writer))}
    /\ requester = "sleeping" => state = "WORLD" /\ writer # 1 /\ writer # 2
    /\ main \in {"idle", "connecting"} =>
         /\ state = "LOBBY" /\ writer = 0 /\ crypto = InitialCrypto /\ sequence = 0
         /\ wire[1] = <<>>
    /\ main \in {"idle", "connecting"} => reader = "none" /\ requester = "none"
    /\ main = "idle" => result = "none"
    /\ result = "cancelled" => stop # "none"
    /\ reader \in {"reading", "closing", "opening"} => main = "waiting"

(* The cipher is that of the connection; in the lobby, only from INFO on.  *)
LobbyFresh ==
    /\ crypto = InitialCrypto
    /\ \A i \in DOMAIN wire[1] : wire[1][i].op = "VERSION"
    /\ \A i \in DOMAIN inbox[1] : inbox[1][i].op \notin {"TABLE", "EMPTY_TABLE"}

Keys ==
    /\ writer > 1 => crypto = ServerCrypto(writer)
    /\ writer = 1 => crypto = ServerCrypto(1) \/ LobbyFresh
    /\ reader = "opening" => crypto = ServerCrypto(target)
    /\ ServerCanRead

(* The sequence number counts the packets after the first.                 *)
Numbers ==
    /\ writer # 0 => sequence = IF wire[writer] = <<>> THEN 0 ELSE Len(wire[writer]) - 1
    /\ writer > 1 => wire[writer] # <<>>
    /\ \A i \in DOMAIN inbox[1] :
         IF inbox[1][i].op = "ACCEPT" THEN i = 1 /\ wire[1] = <<>>
         ELSE inbox[1][i].op \notin {"BAD_BODY", "BAD_FRAME"} => wire[1] # <<>>
    /\ reader = "opening" => sequence = 0
    /\ SequenceInStep

(* What every step of every task and server preserves, from which the      *)
(* ciphers and the numbering of _send and _follow_redirect follow: the     *)
(* reader's state, connection and cipher move together through a redirect. *)
Inductive == TypeOK /\ Placed /\ Tasks /\ Keys /\ Numbers
=============================================================================
